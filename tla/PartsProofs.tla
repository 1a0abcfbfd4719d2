---------------------------- MODULE PartsProofs ----------------------------
(***************************************************************************)
(* Theorems about the parts that work alone: the bitstream writer and the  *)
(* bitstream reader (Bits), the parameters of an encoder and the metadata  *)
(* container (Inputs).  Each part has an inductive invariant of its own,   *)
(* which is carried over to the module that composes the parts; the        *)
(* container is shown to be a map (MetaMap).                               *)
(***************************************************************************)
EXTENDS Bits, Inputs, SequenceTheorems, FiniteSetTheorems, FunctionTheorems,
        Induction, TLAPS

----------------------------------------------------------------------------
(* BsReader                                                                *)

\* The register never holds more than what was taken from the buffer, so that
\* oapv_bsr_sink does not give back bytes before its beginning.
ReadInv == R!EndIsTrue /\ leftbits <= 8 * cur

\* What a register can hold.
Content == {R!ONE, R!MIX} \cup 0..R!Bits

\* Which bits of the buffer a register holds: n of them from bit a on.
Holds(c, a, n) == c = [q \in R!Bit |-> IF q <= n THEN a + q - 1 ELSE 0]

\* The registers a load and a shift give (bsr_flush, bsr_skip_code).
LEMMA RegisterIs ==
  ASSUME R!ReaderAssumption, cur \in 0..ReaderSize
  PROVE  /\ R!Loaded \in 0..8 /\ cur + R!Loaded \in 0..ReaderSize
         /\ R!Loaded < 8 => cur + R!Loaded = ReaderSize
         /\ R!Register \in [R!Bit -> Content]
         /\ Holds(R!Register, 8 * cur + 1, 8 * R!Loaded)
  <1>1. /\ R!Loaded \in 0..8 /\ cur + R!Loaded \in 0..ReaderSize
        /\ R!Loaded < 8 => cur + R!Loaded = ReaderSize
    BY DEF R!ReaderAssumption, R!Loaded, R!Least
  <1>2. \A q \in R!Bit : q <= 8 * R!Loaded => 8 * cur + q \in 0..R!Bits
    BY <1>1 DEF R!ReaderAssumption, R!Bits, R!Bit, R!REG
  <1>3. R!Register \in [R!Bit -> Content]
    BY <1>1, <1>2 DEF R!Register, Content, R!Bits, R!ReaderAssumption
  <1>4. \A q \in R!Bit : q <= 8 * R!Loaded => 8 * cur + q = 8 * cur + 1 + q - 1
    BY DEF R!Bit, R!REG
  <1>5. Holds(R!Register, 8 * cur + 1, 8 * R!Loaded)
    BY <1>4 DEF R!Register, Holds
  <1> QED BY <1>1, <1>3, <1>5

\* What a shift leaves of what a register holds.
LEMMA ShiftedIs ==
  ASSUME R!ReaderAssumption, NEW c \in [R!Bit -> Content], NEW n \in Nat
  PROVE  /\ R!Shifted(c, n) \in [R!Bit -> Content]
         /\ \A a \in Nat, m \in 0..64 :
              Holds(c, a, m) /\ n <= m => Holds(R!Shifted(c, n), a + n, m - n)
  <1>1. R!Shifted(c, n) \in [R!Bit -> Content]
    <2>1. 0 \in Content
      BY DEF Content, R!Bits, R!ReaderAssumption
    <2> QED BY <2>1 DEF R!Shifted
  <1>2. ASSUME NEW a \in Nat, NEW m \in 0..64, Holds(c, a, m), n <= m
        PROVE  Holds(R!Shifted(c, n), a + n, m - n)
    <2>1. ASSUME NEW q \in R!Bit
          PROVE  (IF q + n \in R!Bit THEN c[q + n] ELSE 0) = (IF q <= m - n THEN (a + n) + q - 1 ELSE 0)
      <3>1. CASE q + n \in R!Bit
        <4>1. c[q + n] = IF q + n <= m THEN a + (q + n) - 1 ELSE 0
          BY <1>2, <3>1 DEF Holds
        <4> QED BY <2>1, <3>1, <4>1 DEF R!Bit, R!REG
      <3>2. CASE q + n \notin R!Bit
        BY <1>2, <2>1, <3>2 DEF R!Bit, R!REG
      <3> QED BY <3>1, <3>2
    <2> QED BY <2>1 DEF R!Shifted, Holds
  <1> QED BY <1>1, <1>2

\* What a read of n bits owes, whichever way it is made: the invariant holds
\* afterwards if register and position have moved n bits on, or the end is
\* noticed because the n bits reach past it.
Moved(n) ==
  /\ R!Want(n)
  /\ cur' \in 0..ReaderSize /\ leftbits' \in 0..64 /\ leftbits' <= 8 * cur'
  /\ code' \in [R!Bit -> Content]
  /\ is_eob' \in BOOLEAN /\ (is_eob => is_eob')
  /\ ~is_eob' => 8 * cur' - leftbits' = asked - 1 + n /\ Holds(code', asked + n, leftbits')
  /\ ~is_eob /\ is_eob' => asked + n > R!Bits + 1

\* Such a move keeps the invariant.
LEMMA MovedKeeps ==
  ASSUME R!ReaderAssumption, ReadInv, NEW n \in Nat, Moved(n)
  PROVE  ReadInv'
  <1>1. ReaderSize \in Nat /\ R!Bits \in Nat /\ R!Bits = 8 * ReaderSize /\ asked \in 1..(R!Bits + 1)
    BY DEF R!ReaderAssumption, R!Bits, ReadInv, R!EndIsTrue, R!TypeOK
  <1>2. /\ asked' = IF asked + n < R!Bits + 1 THEN asked + n ELSE R!Bits + 1
        /\ past' = (past \/ asked + n > R!Bits + 1)
    BY DEF Moved, R!Want, R!Least
  <1>3. asked' \in 1..(R!Bits + 1) /\ past' \in BOOLEAN
    BY <1>1, <1>2 DEF ReadInv, R!EndIsTrue, R!TypeOK
  <1>4. ~is_eob' => asked' = asked + n /\ asked + n <= R!Bits + 1
    <2> SUFFICES ASSUME ~is_eob' PROVE asked' = asked + n /\ asked + n <= R!Bits + 1
      OBVIOUS
    <2>1. PICK c \in 0..ReaderSize, l \in 0..64 : 8 * c - l = asked - 1 + n
      BY DEF Moved
    <2>2. asked + n <= 8 * ReaderSize + 1
      BY <1>1, <2>1
    <2> QED BY <1>1, <1>2, <2>2
  <1>5. is_eob' = past'
    BY <1>1, <1>2, <1>4 DEF Moved, ReadInv, R!EndIsTrue, R!TypeOK
  <1>6. R!TypeOK'
    BY <1>3 DEF Moved, Content, R!TypeOK, R!REG
  <1>7. ~is_eob' => 8 * cur' - leftbits' = asked' - 1
    <2> SUFFICES ASSUME ~is_eob' PROVE 8 * cur' - leftbits' = asked' - 1
      OBVIOUS
    <2>1. 8 * cur' - leftbits' = asked - 1 + n
      BY DEF Moved
    <2> QED BY <1>1, <1>4, <2>1
  <1>8. ~is_eob' => code' = [q \in R!Bit |-> IF q <= leftbits' THEN asked' + q - 1 ELSE 0]
    BY <1>4 DEF Moved, Holds
  <1> QED BY <1>5, <1>6, <1>7, <1>8 DEF Moved, ReadInv, R!EndIsTrue

\* The value of n bits of a register that holds them.
LEMMA TopBitsAre ==
  ASSUME NEW n \in 0..64, NEW c, NEW a \in Nat, NEW m \in 0..64, Holds(c, a, m), n <= m
  PROVE  R!TopBits(c, n, n) = [q \in 1..n |-> a + q - 1]
  <1>1. ASSUME NEW q \in 1..n PROVE q > n - n /\ q - (n - n) = q /\ c[q] = a + q - 1
    BY <1>1 DEF Holds, R!Bit, R!REG
  <1> QED BY <1>1 DEF R!TopBits

\* The value got is the next bits.
Next(n) == got' = [q \in 1..n |-> asked + q - 1]

\* In the words of the property NextBits.
LEMMA NextIsNext == ASSUME NEW n, Next(n) PROVE R!TheNextBits
  BY DEF Next, R!TheNextBits

\* What the invariant says, in one place and without operators.
ReadFacts ==
  /\ cur \in 0..ReaderSize /\ leftbits \in 0..64 /\ code \in [R!Bit -> Content]
  /\ leftbits <= 8 * cur /\ asked \in 1..(8 * ReaderSize + 1) /\ is_eob \in BOOLEAN
  /\ ~is_eob => 8 * cur - leftbits = asked - 1 /\ Holds(code, asked, leftbits)
  /\ R!Bits = 8 * ReaderSize /\ ReaderSize \in Nat \ {0} /\ R!REG = 64

\* The invariant gives these facts.
LEMMA FactsOf == ASSUME R!ReaderAssumption, ReadInv PROVE ReadFacts
  BY DEF ReadInv, R!EndIsTrue, R!TypeOK, R!REG, ReadFacts, Holds, Content, R!Bits, R!ReaderAssumption

\* A read or a skip of what the register holds.
Held(n) ==
  /\ code' = R!Shifted(code, n) /\ leftbits' = leftbits - n
  /\ R!Want(n) /\ UNCHANGED <<cur, is_eob>>

\* It moves the register on by n bits.
LEMMA HeldMoves ==
  ASSUME R!ReaderAssumption, ReadInv, NEW n \in 1..32, n <= leftbits, Held(n)
  PROVE  Moved(n)
  <1>1. ReadFacts
    BY FactsOf
  <1>2. code' \in [R!Bit -> Content]
    BY <1>1, ShiftedIs DEF Held, ReadFacts
  <1>3. ASSUME ~is_eob
        PROVE  8 * cur' - leftbits' = asked - 1 + n /\ Holds(code', asked + n, leftbits')
    <2>1. Holds(code, asked, leftbits) /\ asked \in Nat /\ 8 * cur - leftbits = asked - 1
      BY <1>1, <1>3 DEF ReadFacts
    <2>2. code \in [R!Bit -> Content] /\ leftbits \in 0..64 /\ n \in Nat
      BY <1>1 DEF ReadFacts
    <2>3. Holds(R!Shifted(code, n), asked + n, leftbits - n)
      BY <2>1, <2>2, ShiftedIs
    <2> QED BY <1>1, <2>1, <2>3 DEF Held, ReadFacts
  <1>4. leftbits' \in 0..64 /\ leftbits' <= 8 * cur'
    BY <1>1 DEF Held, ReadFacts
  <1> QED BY <1>1, <1>2, <1>3, <1>4 DEF Held, Moved, ReadFacts

\* oapv_bsr_read of what the register holds.
LEMMA ReadHeldStep ==
  ASSUME R!ReaderAssumption, ReadInv, NEW n \in 1..32, R!ReadHeld(n)
  PROVE  ReadInv' /\ (~is_eob' => Next(n))
  <1>1. ReadFacts
    BY FactsOf
  <1>2. n <= leftbits /\ Held(n)
    BY DEF R!ReadHeld, Held
  <1>3. ~is_eob' => Next(n)
    <2> SUFFICES ASSUME ~is_eob PROVE got' = [q \in 1..n |-> asked + q - 1]
      BY <1>2 DEF Held, Next
    <2>1. Holds(code, asked, leftbits) /\ asked \in Nat /\ n \in 0..64
      BY <1>1 DEF ReadFacts
    <2> QED BY <1>1, <1>2, <2>1, TopBitsAre DEF R!ReadHeld, ReadFacts
  <1> QED BY <1>2, <1>3, HeldMoves, MovedKeeps

\* Where a load takes the reader: what oapv_bsr_read and oapv_bsr_skip do
\* when n bits are more than the register holds.
Over(n) ==
  /\ n > leftbits
  /\ cur' = cur + R!Loaded
  /\ IF R!Loaded = 0 \/ R!Short(n)
     THEN is_eob' = TRUE /\ code' = R!Register /\ leftbits' = 8 * R!Loaded
     ELSE /\ code' = R!Shifted(R!Register, n - leftbits)
          /\ leftbits' = 8 * R!Loaded - (n - leftbits)
          /\ UNCHANGED is_eob
  /\ R!Want(n)

\* It moves the register on by n bits, across the load.
LEMMA OverMoves ==
  ASSUME R!ReaderAssumption, ReadInv, NEW n \in 1..32, Over(n)
  PROVE  Moved(n)
  <1>1. ReadFacts
    BY FactsOf
  <1>2. /\ R!Loaded \in 0..8 /\ cur + R!Loaded \in 0..ReaderSize
        /\ R!Loaded < 8 => cur + R!Loaded = ReaderSize
        /\ R!Register \in [R!Bit -> Content]
        /\ Holds(R!Register, 8 * cur + 1, 8 * R!Loaded)
    BY <1>1, RegisterIs DEF ReadFacts
  <1>3. CASE R!Loaded = 0 \/ R!Short(n)
    <2>1. is_eob' = TRUE /\ code' = R!Register /\ leftbits' = 8 * R!Loaded /\ cur' = cur + R!Loaded
      BY <1>3 DEF Over
    <2>2. leftbits + 8 * R!Loaded < n
      BY <1>1, <1>2, <1>3 DEF Over, R!Short, ReadFacts
    <2>3. ~is_eob => asked + n > R!Bits + 1
      BY <1>1, <1>2, <2>2 DEF ReadFacts
    <2>4. leftbits' \in 0..64 /\ leftbits' <= 8 * cur' /\ cur' \in 0..ReaderSize
      BY <1>1, <1>2, <2>1 DEF ReadFacts
    <2> QED BY <1>2, <2>1, <2>3, <2>4 DEF Moved, Over
  <1>4. CASE ~(R!Loaded = 0 \/ R!Short(n))
    <2>1. /\ code' = R!Shifted(R!Register, n - leftbits) /\ cur' = cur + R!Loaded
          /\ leftbits' = 8 * R!Loaded - (n - leftbits) /\ is_eob' = is_eob
      BY <1>4 DEF Over
    <2>2. n - leftbits \in Nat /\ n - leftbits <= 8 * R!Loaded /\ 8 * R!Loaded \in 0..64 /\ 8 * cur + 1 \in Nat
      BY <1>1, <1>2, <1>4 DEF Over, R!Short, ReadFacts
    <2>3. /\ code' \in [R!Bit -> Content]
          /\ Holds(code', 8 * cur + 1 + (n - leftbits), leftbits')
      BY <1>2, <2>1, <2>2, ShiftedIs
    <2>4. ~is_eob' => 8 * cur + 1 + (n - leftbits) = asked + n /\ 8 * cur' - leftbits' = asked - 1 + n
      BY <1>1, <1>2, <2>1 DEF ReadFacts
    <2>5. leftbits' \in 0..64 /\ leftbits' <= 8 * cur' /\ cur' \in 0..ReaderSize
      BY <1>1, <1>2, <2>1, <2>2 DEF ReadFacts
    <2>6. ~is_eob' => Holds(code', asked + n, leftbits')
      BY <2>3, <2>4
    <2> QED BY <1>1, <2>1, <2>3, <2>4, <2>5, <2>6 DEF Moved, Over, ReadFacts
  <1> QED BY <1>3, <1>4

\* The parts of a value from two loads do not meet, and make up the next bits.
LEMMA JoinedIs ==
  ASSUME R!ReaderAssumption, ReadInv, ~is_eob, NEW n \in 1..32, n > leftbits, ~R!Short(n)
  PROVE  R!Joined(n) = [q \in 1..n |-> asked + q - 1]
  <1>1. ReadFacts /\ Holds(code, asked, leftbits) /\ 8 * cur - leftbits = asked - 1
    BY FactsOf DEF ReadFacts
  <1>2. R!Loaded \in 0..8 /\ Holds(R!Register, 8 * cur + 1, 8 * R!Loaded)
    BY <1>1, RegisterIs DEF ReadFacts
  <1> DEFINE A == R!TopBits(code, n, n)
             B == R!TopBits(R!Register, n - leftbits, n)
  <1>3. A = [q \in 1..n |-> IF q <= leftbits THEN asked + q - 1 ELSE 0]
    <2>1. \A q \in 1..n : q > n - n /\ q - (n - n) = q /\ q \in R!Bit
      BY DEF R!Bit, R!REG
    <2> QED BY <1>1, <2>1 DEF R!TopBits, Holds
  <1>4. B = [q \in 1..n |-> IF q <= leftbits THEN 0 ELSE asked + q - 1]
    <2>1. n - (n - leftbits) = leftbits
      BY <1>1 DEF ReadFacts
    <2>2. ASSUME NEW q \in 1..n, q > leftbits PROVE R!Register[q - leftbits] = asked + q - 1
      <3>1. q - leftbits \in R!Bit /\ q - leftbits <= 8 * R!Loaded
        BY <1>1, <1>2, <2>2 DEF ReadFacts, R!Bit, R!REG, R!Short
      <3>2. R!Register[q - leftbits] = 8 * cur + 1 + (q - leftbits) - 1
        BY <1>2, <3>1 DEF Holds
      <3> QED BY <1>1, <2>2, <3>2 DEF ReadFacts
    <2>3. \A q \in 1..n : q > leftbits <=> ~(q <= leftbits)
      BY <1>1 DEF ReadFacts
    <2> QED BY <2>1, <2>2, <2>3 DEF R!TopBits
  <1>5. DOMAIN A = 1..n
    BY <1>3
  <1>6. ASSUME NEW q \in 1..n
        PROVE  (IF A[q] = 0 THEN B[q] ELSE IF B[q] = 0 THEN A[q] ELSE R!MIX) = asked + q - 1
    <2>1. asked + q - 1 # 0 /\ asked \in Nat
      BY <1>1 DEF ReadFacts
    <2> QED BY <1>3, <1>4, <2>1
  <1> HIDE DEF A, B
  <1>7. R!Or(A, B) = [q \in 1..n |-> asked + q - 1]
    BY <1>5, <1>6 DEF R!Or
  <1> QED BY <1>7 DEF R!Joined, A, B

\* oapv_bsr_read beyond what the register holds.
LEMMA ReadOverStep ==
  ASSUME R!ReaderAssumption, ReadInv, NEW n \in 1..32, R!ReadOver(n)
  PROVE  ReadInv' /\ (~is_eob' => Next(n))
  <1>1. Over(n)
    BY DEF R!ReadOver, Over
  <1>2. ReadInv'
    BY <1>1, OverMoves, MovedKeeps
  <1>3. ~is_eob' => Next(n)
    BY FactsOf, JoinedIs DEF R!ReadOver, Next, ReadFacts
  <1> QED BY <1>2, <1>3

\* oapv_bsr_skip.
LEMMA SkipStep ==
  ASSUME R!ReaderAssumption, ReadInv, NEW n \in 1..32, R!Skip(n)
  PROVE  ReadInv'
  <1>1. ReadFacts
    BY FactsOf
  <1>2. CASE n <= leftbits
    <2>1. Held(n)
      BY <1>2 DEF R!Skip, Held
    <2> QED BY <1>2, <2>1, HeldMoves, MovedKeeps
  <1>3. CASE ~(n <= leftbits)
    <2>1. Over(n)
      BY <1>1, <1>3 DEF R!Skip, Over, ReadFacts
    <2> QED BY <2>1, OverMoves, MovedKeeps
  <1> QED BY <1>2, <1>3

\* oapv_bsr_read1, which looks for one bit and returns without a load when
\* there are no more bytes.
LEMMA Read1Step ==
  ASSUME R!ReaderAssumption, ReadInv, R!Read1
  PROVE  ReadInv' /\ (~is_eob' /\ got' # << >> => Next(1))
  <1>1. ReadFacts
    BY FactsOf
  <1>2. CASE leftbits # 0
    <2>1. Held(1) /\ 1 <= leftbits /\ got' = <<code[1]>> /\ is_eob' = is_eob
      BY <1>1, <1>2 DEF R!Read1, Held, ReadFacts
    <2>2. ~is_eob => code[1] = asked
      <3>1. 1 \in R!Bit /\ 1 <= leftbits
        BY <2>1 DEF R!Bit, R!REG
      <3> QED BY <1>1, <3>1 DEF ReadFacts, Holds
    <2>3. ~is_eob => Next(1)
      BY <1>1, <2>1, <2>2 DEF Next, ReadFacts
    <2> QED BY <2>1, <2>3, HeldMoves, MovedKeeps
  <1>3. CASE leftbits = 0 /\ R!Loaded = 0
    <2>1. is_eob' = TRUE /\ got' = << >> /\ UNCHANGED <<cur, code, leftbits>> /\ R!Want(1)
      BY <1>3 DEF R!Read1
    <2>2. ~is_eob => asked + 1 > R!Bits + 1
      <3>1. cur = ReaderSize
        BY <1>1, <1>3, RegisterIs DEF ReadFacts
      <3> QED BY <1>1, <1>3, <3>1 DEF ReadFacts
    <2>3. Moved(1)
      BY <1>1, <2>1, <2>2 DEF Moved, ReadFacts
    <2> QED BY <2>1, <2>3, MovedKeeps
  <1>4. CASE leftbits = 0 /\ R!Loaded # 0
    <2>1. /\ cur' = cur + R!Loaded /\ got' = <<R!Register[1]>>
          /\ code' = R!Shifted(R!Register, 1) /\ leftbits' = 8 * R!Loaded - 1
          /\ is_eob' = is_eob /\ R!Want(1)
      BY <1>4 DEF R!Read1
    <2>2. R!Loaded \in 1..8 /\ Holds(R!Register, 8 * cur + 1, 8 * R!Loaded)
      BY <1>1, <1>4, RegisterIs DEF ReadFacts
    <2>3. Over(1)
      BY <1>1, <1>4, <2>1, <2>2 DEF Over, R!Short, ReadFacts
    <2>4. ~is_eob => R!Register[1] = asked
      <3>1. 1 \in R!Bit /\ 1 <= 8 * R!Loaded
        BY <2>2 DEF R!Bit, R!REG
      <3>2. R!Register[1] = 8 * cur + 1 + 1 - 1
        BY <2>2, <3>1 DEF Holds
      <3> QED BY <1>1, <1>4, <3>2 DEF ReadFacts
    <2>5. ~is_eob => Next(1)
      BY <1>1, <2>1, <2>4 DEF Next, ReadFacts
    <2> QED BY <2>1, <2>3, <2>5, OverMoves, MovedKeeps
  <1> QED BY <1>2, <1>3, <1>4

\* oapv_bsr_align8: the bits up to the next byte are passed over.
LEMMA Align8Step ==
  ASSUME R!ReaderAssumption, ReadInv, R!Align8 PROVE ReadInv'
  <1>1. ReadFacts
    BY FactsOf
  <1> DEFINE n == leftbits % 8
  <1>2. n \in 0..7 /\ n <= leftbits
    BY <1>1 DEF ReadFacts
  <1> HIDE DEF n
  <1>3. /\ code' = R!Shifted(code, n) /\ leftbits' = leftbits - n
        /\ asked' = IF is_eob THEN asked ELSE asked + n
        /\ UNCHANGED <<cur, is_eob, past>>
    BY DEF R!Align8, n
  <1>4. code' \in [R!Bit -> Content]
    BY <1>1, <1>2, <1>3, ShiftedIs DEF ReadFacts
  <1>5. leftbits' \in 0..64 /\ leftbits' <= 8 * cur'
    BY <1>1, <1>2, <1>3 DEF ReadFacts
  <1>6. ~is_eob => /\ 8 * cur' - leftbits' = asked' - 1 /\ asked' \in 1..(8 * ReaderSize + 1)
                   /\ Holds(code', asked', leftbits')
    <2> SUFFICES ASSUME ~is_eob
                 PROVE  /\ 8 * cur' - leftbits' = asked' - 1 /\ asked' \in 1..(8 * ReaderSize + 1)
                        /\ Holds(code', asked', leftbits')
      OBVIOUS
    <2>1. Holds(code, asked, leftbits) /\ asked \in Nat /\ 8 * cur - leftbits = asked - 1
      BY <1>1 DEF ReadFacts
    <2>2. Holds(R!Shifted(code, n), asked + n, leftbits - n)
      BY <1>1, <1>2, <2>1, ShiftedIs DEF ReadFacts
    <2>3. asked' = asked + n
      BY <1>3
    <2> QED BY <1>1, <1>2, <1>3, <2>1, <2>2, <2>3 DEF ReadFacts
  <1>7. R!TypeOK'
    BY <1>1, <1>3, <1>4, <1>5, <1>6 DEF R!TypeOK, ReadFacts, ReadInv, R!EndIsTrue, Content, R!REG
  <1> QED BY <1>3, <1>5, <1>6, <1>7 DEF ReadInv, R!EndIsTrue, Holds

\* oapv_bsr_sink gives the bytes in the register back to the buffer.
LEMMA ReaderSinkStep ==
  ASSUME R!ReaderAssumption, ReadInv, R!Sink PROVE ReadInv'
  <1>1. ReadFacts
    BY FactsOf
  <1>2. /\ cur' = cur - leftbits \div 8 /\ leftbits' = 0 /\ code' = R!Blank
        /\ leftbits % 8 = 0 /\ UNCHANGED <<is_eob, asked, past>>
    BY DEF R!Sink, R!HeldGivenBack
  <1> DEFINE m == leftbits \div 8
  <1>3. m \in Nat /\ leftbits = 8 * m
    BY <1>1, <1>2 DEF ReadFacts
  <1> HIDE DEF m
  <1>4. cur' = cur - m
    BY <1>2 DEF m
  <1>5. cur' \in 0..ReaderSize /\ leftbits' \in 0..64 /\ leftbits' <= 8 * cur'
    BY <1>1, <1>2, <1>3, <1>4 DEF ReadFacts
  <1>6. ~is_eob => 8 * cur' - leftbits' = asked' - 1
    BY <1>1, <1>2, <1>3, <1>4 DEF ReadFacts
  <1>7. Holds(code', asked', leftbits') /\ code' \in [R!Bit -> Content]
    <2>1. \A q \in R!Bit : ~(q <= 0)
      BY DEF R!Bit, R!REG
    <2>2. 0 \in Content
      BY <1>1 DEF Content, ReadFacts
    <2> QED BY <1>2, <2>1, <2>2 DEF R!Blank, Holds
  <1>8. R!TypeOK'
    BY <1>1, <1>2, <1>5, <1>7 DEF R!TypeOK, ReadFacts, ReadInv, R!EndIsTrue, Content, R!REG
  <1> QED BY <1>2, <1>5, <1>6, <1>7, <1>8 DEF ReadInv, R!EndIsTrue, Holds

\* BSR_TOPUP joins whole bytes to the valid bits, and nothing below them.
LEMMA TopUpStep ==
  ASSUME R!ReaderAssumption, ReadInv, R!TopUp PROVE ReadInv'
  <1>1. ReadFacts
    BY FactsOf
  <1>2. CASE leftbits >= 32
    <2>1. R!Filled = 0 /\ R!ToppedUp = code
      BY <1>2 DEF R!Filled, R!ToppedUp
    <2>2. UNCHANGED <<cur, code, leftbits, is_eob, asked, past>>
      BY <1>1, <2>1 DEF R!TopUp, ReadFacts
    <2> QED BY <2>2 DEF ReadInv, R!EndIsTrue, R!TypeOK
  <1>3. CASE ~(leftbits >= 32)
    <2> DEFINE b == R!Below
    <2>1. b \in 0..7 /\ leftbits + 8 * b <= 63 /\ cur + b \in 0..ReaderSize
      BY <1>1, <1>3 DEF R!Below, R!Least, ReadFacts
    <2>2. /\ cur' = cur + b /\ leftbits' = leftbits + 8 * b
          /\ code' = [q \in R!Bit |-> IF q \in (leftbits + 1)..(leftbits + 8 * b)
                                      THEN 8 * cur + q - leftbits ELSE code[q]]
          /\ UNCHANGED <<is_eob, asked, past>>
      BY <1>3 DEF R!TopUp, R!Filled, R!ToppedUp
    <2> HIDE DEF b
    <2>3. code' \in [R!Bit -> Content]
      <3>1. \A q \in R!Bit : q \in (leftbits + 1)..(leftbits + 8 * b) => 8 * cur + q - leftbits \in 0..R!Bits
        BY <1>1, <2>1 DEF ReadFacts, R!Bit
      <3> QED BY <1>1, <2>2, <3>1 DEF ReadFacts, Content
    <2>4. ~is_eob => Holds(code', asked', leftbits')
      <3> SUFFICES ASSUME ~is_eob, NEW q \in R!Bit
                   PROVE  (IF q \in (leftbits + 1)..(leftbits + 8 * b)
                           THEN 8 * cur + q - leftbits ELSE code[q])
                          = IF q <= leftbits + 8 * b THEN asked + q - 1 ELSE 0
        BY <2>2 DEF Holds
      <3>1. code[q] = (IF q <= leftbits THEN asked + q - 1 ELSE 0) /\ 8 * cur - leftbits = asked - 1
        BY <1>1 DEF ReadFacts, Holds
      <3> QED BY <1>1, <2>1, <3>1 DEF ReadFacts, R!Bit
    <2>5. ~is_eob => 8 * cur' - leftbits' = asked' - 1
      BY <1>1, <2>1, <2>2 DEF ReadFacts
    <2>6. leftbits' \in 0..64 /\ leftbits' <= 8 * cur' /\ cur' \in 0..ReaderSize
      BY <1>1, <2>1, <2>2 DEF ReadFacts
    <2>7. R!TypeOK'
      BY <1>1, <2>2, <2>3, <2>6 DEF R!TypeOK, ReadFacts, ReadInv, R!EndIsTrue, Content, R!REG
    <2> QED BY <2>2, <2>4, <2>5, <2>6, <2>7 DEF ReadInv, R!EndIsTrue, Holds
  <1> QED BY <1>2, <1>3

\* A byte, or ones at the end of the buffer (BSR_FLUSH_1BYTE).
LEMMA OneByteIs ==
  ASSUME R!ReaderAssumption, NEW c \in 0..ReaderSize
  PROVE  /\ R!OneByte(c) \in [R!Bit -> Content]
         /\ c < ReaderSize => Holds(R!OneByte(c), 8 * c + 1, 8)
         /\ R!Least(c + 1, ReaderSize) \in 1..ReaderSize
         /\ c < ReaderSize => R!Least(c + 1, ReaderSize) = c + 1
         /\ c >= ReaderSize <=> c = ReaderSize
  <1>1. ReaderSize \in Nat \ {0}
    BY DEF R!ReaderAssumption
  <1>2. /\ R!Least(c + 1, ReaderSize) \in 1..ReaderSize /\ (c >= ReaderSize <=> c = ReaderSize)
        /\ c < ReaderSize => R!Least(c + 1, ReaderSize) = c + 1
    BY <1>1 DEF R!Least
  <1>3. CASE c < ReaderSize
    <2>1. R!OneByte(c) = [q \in R!Bit |-> IF q <= 8 THEN 8 * c + q ELSE 0]
      BY <1>3 DEF R!OneByte
    <2>2. \A q \in R!Bit : q <= 8 => 8 * c + q \in 0..(8 * ReaderSize) /\ 8 * c + q = 8 * c + 1 + q - 1
      BY <1>1, <1>3 DEF R!Bit, R!REG
    <2> QED BY <1>1, <1>2, <2>1, <2>2 DEF Content, R!Bits, Holds
  <1>4. CASE ~(c < ReaderSize)
    BY <1>1, <1>2, <1>4 DEF R!OneByte, R!Ones, Content
  <1> QED BY <1>3, <1>4

\* BSR_READ_1BIT.
LEMMA FlagStep ==
  ASSUME R!ReaderAssumption, ReadInv, R!Flag
  PROVE  ReadInv' /\ (~is_eob' => Next(1))
  <1>1. ReadFacts
    BY FactsOf
  <1>2. CASE leftbits # 0
    <2>1. Held(1) /\ 1 <= leftbits /\ got' = <<code[1]>> /\ is_eob' = is_eob
      BY <1>1, <1>2 DEF R!Flag, Held, ReadFacts
    <2>2. ~is_eob => code[1] = asked
      <3>1. 1 \in R!Bit /\ 1 <= leftbits
        BY <2>1 DEF R!Bit, R!REG
      <3> QED BY <1>1, <3>1 DEF ReadFacts, Holds
    <2>3. ~is_eob => Next(1)
      BY <1>1, <2>1, <2>2 DEF Next, ReadFacts
    <2> QED BY <2>1, <2>3, HeldMoves, MovedKeeps
  <1>3. CASE leftbits = 0
    <2> DEFINE b == R!OneByte(cur)
    <2>1. /\ code' = R!Shifted(b, 1) /\ leftbits' = 7 /\ got' = <<b[1]>>
          /\ cur' = R!Least(cur + 1, ReaderSize) /\ is_eob' = (is_eob \/ cur >= ReaderSize) /\ R!Want(1)
      BY <1>3 DEF R!Flag, R!Eob
    <2>2. /\ b \in [R!Bit -> Content] /\ cur' \in 1..ReaderSize /\ (cur >= ReaderSize <=> cur = ReaderSize)
          /\ cur < ReaderSize => Holds(b, 8 * cur + 1, 8) /\ cur' = cur + 1
      BY <1>1, <2>1, OneByteIs DEF ReadFacts
    <2> HIDE DEF b
    <2>3. code' \in [R!Bit -> Content]
      BY <2>1, <2>2, ShiftedIs
    <2>4. ASSUME ~is_eob'
          PROVE  /\ 8 * cur' - leftbits' = asked - 1 + 1 /\ Holds(code', asked + 1, leftbits')
                 /\ b[1] = asked
      <3>0. ~is_eob /\ ~(cur >= ReaderSize)
        BY <2>1, <2>4
      <3>1. cur < ReaderSize /\ ~is_eob
        BY <1>1, <3>0 DEF ReadFacts
      <3>2. 8 * cur + 1 = asked /\ Holds(b, asked, 8) /\ asked \in Nat
        BY <1>1, <1>3, <2>2, <3>1 DEF ReadFacts
      <3>3. Holds(R!Shifted(b, 1), asked + 1, 8 - 1)
        BY <2>2, <3>2, ShiftedIs
      <3>4. b[1] = asked
        <4>1. 1 \in R!Bit
          BY DEF R!Bit, R!REG
        <4> QED BY <3>2, <4>1 DEF Holds
      <3>5. 8 * cur' - leftbits' = asked - 1 + 1
        BY <1>1, <2>1, <2>2, <3>1, <3>2 DEF ReadFacts
      <3> QED BY <2>1, <3>3, <3>4, <3>5
    <2>5. ~is_eob /\ is_eob' => asked + 1 > R!Bits + 1
      BY <1>1, <1>3, <2>1, <2>2 DEF ReadFacts
    <2>6. leftbits' \in 0..64 /\ leftbits' <= 8 * cur' /\ cur' \in 0..ReaderSize
      BY <1>1, <2>1, <2>2 DEF ReadFacts
    <2>7. Moved(1)
      BY <1>1, <2>1, <2>3, <2>4, <2>5, <2>6 DEF Moved, ReadFacts
    <2>8. ~is_eob' => Next(1)
      BY <1>1, <2>1, <2>4 DEF Next, ReadFacts
    <2> QED BY <2>7, <2>8, MovedKeeps
  <1> QED BY <1>2, <1>3

----------------------------------------------------------------------------
(* The suffix of a coefficient code: dec_vlc_read, byte after byte         *)

Ends(r) == r.left >= r.need
Sum(r) == R!Or(r.val, R!TopBits(r.code, r.need, Len(r.val)))
Done(r) == [r EXCEPT !.val = Sum(r), !.code = R!Shifted(@, r.need), !.left = @ - r.need]
Step(r) == [code |-> R!OneByte(r.cur), left |-> 8, cur |-> R!Least(r.cur + 1, ReaderSize),
            eob |-> r.eob \/ r.cur >= ReaderSize, need |-> r.need - r.left, val |-> Sum(r)]

\* The bits added to a value are bits of a register.
LEMMA SumIs ==
  ASSUME R!ReaderAssumption, NEW r \in R!Partial
  PROVE  Sum(r) \in Seq(Content) /\ Len(Sum(r)) = Len(r.val)
  <1> DEFINE m == Len(r.val)
             t == R!TopBits(r.code, r.need, m)
  <1>1. /\ m \in Nat /\ r.val \in [1..m -> Content] /\ DOMAIN r.val = 1..m
        /\ r.need \in 0..30 /\ r.code \in [R!Bit -> Content]
    BY DEF R!Partial, Content
  <1>2. 0 \in Content /\ R!MIX \in Content
    BY DEF Content, R!ReaderAssumption, R!Bits
  <1>3. \A q \in 1..m : q > m - r.need => q - (m - r.need) \in R!Bit
    <2> DEFINE n == r.need
    <2>1. n \in 0..30 /\ m \in Nat
      BY <1>1
    <2> HIDE DEF m, n
    <2>2. \A q \in 1..m : q > m - n => q - (m - n) \in 1..64
      BY <2>1
    <2> QED BY <2>2 DEF R!Bit, R!REG, n
  <1>4. t \in [1..m -> Content]
    <2> HIDE DEF m
    <2> QED BY <1>1, <1>2, <1>3 DEF R!TopBits
  <1> HIDE DEF t, m
  <1>5. R!Or(r.val, t) \in [1..m -> Content]
    BY <1>1, <1>2, <1>4 DEF R!Or
  <1> QED BY <1>1, <1>5 DEF Sum, t, m

\* After a byte less is needed, and in the end no more than one holds.
LEMMA StepIs ==
  ASSUME R!ReaderAssumption, NEW r \in R!Partial, ~Ends(r)
  PROVE  /\ Step(r) \in R!Partial /\ Step(r).left = 8
         /\ Step(r).need = r.need - r.left /\ Step(r).need \in 1..30
  <1>0. r.cur \in 0..ReaderSize /\ r.need \in 0..30 /\ r.left \in 0..64 /\ r.eob \in BOOLEAN
    BY DEF R!Partial, R!REG
  <1>1. /\ r.cur \in 0..ReaderSize /\ r.need \in 0..30 /\ r.left \in 0..64 /\ r.left < r.need /\ r.eob \in BOOLEAN
    BY <1>0 DEF Ends
  <1>2. /\ R!OneByte(r.cur) \in [R!Bit -> Content] /\ R!Least(r.cur + 1, ReaderSize) \in 0..ReaderSize
    BY <1>1, OneByteIs
  <1>3. Sum(r) \in Seq(Content)
    BY SumIs
  <1>4. r.need - r.left \in 1..30 /\ r.need - r.left \in 0..30 /\ 8 \in 0..R!REG
    BY <1>1 DEF R!REG
  <1>5. (r.eob \/ r.cur >= ReaderSize) \in BOOLEAN
    OBVIOUS
  <1> QED BY <1>1, <1>2, <1>3, <1>4, <1>5 DEF Step, R!Partial, Content

\* At most four bytes are loaded.
Read0(r) == Done(r)
Read1(r) == IF Ends(r) THEN Done(r) ELSE Read0(Step(r))
Read2(r) == IF Ends(r) THEN Done(r) ELSE Read1(Step(r))
Read3(r) == IF Ends(r) THEN Done(r) ELSE Read2(Step(r))
Read4(r) == IF Ends(r) THEN Done(r) ELSE Read3(Step(r))
Read5(r) == IF Ends(r) THEN Done(r) ELSE Read4(Step(r))

\* After the first byte, four more are enough for any element.
LEMMA FourBytes ==
  ASSUME R!ReaderAssumption, NEW r \in R!Partial, ~Ends(r)
  PROVE  Read5(Step(r)) = Read4(Step(r))
  <1> DEFINE a == Step(r)
             b == Step(a)
             c == Step(b)
             d == Step(c)
  <1>1. a \in R!Partial /\ a.left = 8 /\ a.need \in 1..30
    BY StepIs
  <1> HIDE DEF a
  <1>2. ~Ends(a) => b \in R!Partial /\ b.left = 8 /\ b.need \in 1..22
    BY <1>1, StepIs
  <1> HIDE DEF b
  <1>3. ~Ends(a) /\ ~Ends(b) => c \in R!Partial /\ c.left = 8 /\ c.need \in 1..14
    BY <1>2, StepIs
  <1> HIDE DEF c
  <1>4. ~Ends(a) /\ ~Ends(b) /\ ~Ends(c) => d \in R!Partial /\ d.left = 8 /\ d.need \in 1..6
    BY <1>3, StepIs
  <1> HIDE DEF d
  <1>5. ~Ends(a) /\ ~Ends(b) /\ ~Ends(c) => Ends(d)
    BY <1>4 DEF Ends
  <1>6. ~Ends(a) /\ ~Ends(b) /\ ~Ends(c) => Read2(d) = Read1(d)
    BY <1>5 DEF Read1, Read2
  <1>7. ~Ends(a) /\ ~Ends(b) => Read3(c) = Read2(c)
    BY <1>6 DEF Read2, Read3, d
  <1>8. ~Ends(a) => Read4(b) = Read3(b)
    BY <1>7 DEF Read3, Read4, c
  <1>9. Read5(a) = Read4(a)
    BY <1>8 DEF Read4, Read5, b
  <1> QED BY <1>9 DEF a

\* Summed is the function its recursive definition describes.
LEMMA SummedIs ==
  ASSUME R!ReaderAssumption
  PROVE  \A r \in R!Partial : R!Summed[r] = IF Ends(r) THEN Done(r) ELSE R!Summed[Step(r)]
  <1> DEFINE Is(f) == f = [r \in R!Partial |-> IF Ends(r) THEN Done(r) ELSE f[Step(r)]]
             f == [r \in R!Partial |-> Read5(r)]
  <1>1. Is(f)
    <2>1. ASSUME NEW r \in R!Partial
          PROVE  f[r] = IF Ends(r) THEN Done(r) ELSE f[Step(r)]
      <3>1. CASE Ends(r)
        BY <3>1 DEF Read5
      <3>2. CASE ~Ends(r)
        <4>1. f[r] = Read4(Step(r))
          BY <3>2 DEF Read5
        <4>2. f[Step(r)] = Read5(Step(r))
          BY <3>2, StepIs
        <4> QED BY <3>2, <4>1, <4>2, FourBytes
      <3> QED BY <3>1, <3>2
    <2> HIDE DEF f
    <2>2. f = [r \in R!Partial |-> f[r]]
      BY DEF f
    <2> QED BY <2>1, <2>2
  <1>2. R!Summed = CHOOSE g : Is(g)
    BY DEF R!Summed, Ends, Done, Step, Sum
  <1> HIDE DEF Is
  <1>3. Is(R!Summed)
    BY <1>1, <1>2
  <1> QED BY <1>3 DEF Is

\* The reader under way through a suffix of k bits: what it has is the next
\* bits, in their order, and the end is noticed when k bits reach past it.
Way(r, k) ==
  /\ r \in R!Partial /\ Len(r.val) = k /\ r.left <= 8 * r.cur
  /\ is_eob => r.eob
  /\ r.eob => is_eob \/ asked + k > R!Bits + 1
  /\ ~r.eob => /\ r.need <= k
               /\ 8 * r.cur - r.left = asked + k - r.need - 1
               /\ Holds(r.code, asked + k - r.need, r.left)
               /\ r.val = [q \in 1..k |-> IF q <= k - r.need THEN asked + q - 1 ELSE 0]

\* The bits added are the ones that follow.
LEMMA SumOnTheWay ==
  ASSUME R!ReaderAssumption, ReadInv, NEW k \in 1..30, NEW r, Way(r, k), ~r.eob,
         NEW n \in 0..30, n = IF r.left < r.need THEN r.left ELSE r.need
  PROVE  Sum(r) = [q \in 1..k |-> IF q <= k - r.need + n THEN asked + q - 1 ELSE 0]
  <1> DEFINE v == r.val
             u == r.need
             l == r.left
             c == r.code
  <1>1. /\ u \in 0..30 /\ l \in 0..64 /\ u <= k /\ Len(v) = k /\ asked \in Nat \ {0}
        /\ Holds(c, asked + k - u, l)
        /\ v = [q \in 1..k |-> IF q <= k - u THEN asked + q - 1 ELSE 0]
        /\ n = IF l < u THEN l ELSE u
    <2>1. r \in R!Partial
      BY DEF Way
    <2>2. u \in 0..30 /\ l \in 0..64
      BY <2>1 DEF R!Partial, R!REG
    <2> QED BY <2>2, FactsOf DEF Way, ReadFacts
  <1>2. Sum(r) = R!Or(v, R!TopBits(c, u, k))
    BY <1>1 DEF Sum
  <1> HIDE DEF v, u, l, c
  <1> DEFINE t == R!TopBits(c, u, k)
  <1>3. t = [q \in 1..k |-> IF q > k - u /\ q <= k - u + n THEN asked + q - 1 ELSE 0]
    <2> SUFFICES ASSUME NEW q \in 1..k
                 PROVE  (IF q > k - u THEN c[q - (k - u)] ELSE 0)
                        = IF q > k - u /\ q <= k - u + n THEN asked + q - 1 ELSE 0
      BY DEF R!TopBits
    <2>1. CASE q > k - u
      <3>1. q - (k - u) \in R!Bit
        BY <1>1, <2>1 DEF R!Bit, R!REG
      <3>2. c[q - (k - u)] = IF q - (k - u) <= l THEN asked + k - u + (q - (k - u)) - 1 ELSE 0
        BY <1>1, <3>1 DEF Holds
      <3> QED BY <1>1, <2>1, <3>2
    <2>2. CASE ~(q > k - u)
      BY <2>2
    <2> QED BY <2>1, <2>2
  <1>4. ASSUME NEW q \in 1..k
        PROVE  (IF v[q] = 0 THEN t[q] ELSE IF t[q] = 0 THEN v[q] ELSE R!MIX)
               = IF q <= k - u + n THEN asked + q - 1 ELSE 0
    <2>1. /\ v[q] = IF q <= k - u THEN asked + q - 1 ELSE 0
          /\ t[q] = IF q > k - u /\ q <= k - u + n THEN asked + q - 1 ELSE 0
      BY <1>1, <1>3
    <2>2. asked + q - 1 # 0 /\ (q <= k - u \/ q > k - u)
      BY <1>1
    <2>3. q <= k - u => q <= k - u + n /\ ~(q > k - u)
      BY <1>1
    <2> HIDE DEF t
    <2>4. CASE q <= k - u
      <3>1. v[q] = asked + q - 1 /\ t[q] = 0
        BY <2>1, <2>3, <2>4
      <3> QED BY <2>2, <2>3, <2>4, <3>1
    <2>5. CASE ~(q <= k - u)
      BY <2>1, <2>2, <2>5
    <2> QED BY <2>4, <2>5
  <1>5. DOMAIN v = 1..k
    BY <1>1
  <1> HIDE DEF t
  <1>6. R!Or(v, t) = [q \in 1..k |-> IF q <= k - u + n THEN asked + q - 1 ELSE 0]
    BY <1>4, <1>5 DEF R!Or
  <1> QED BY <1>2, <1>6 DEF t, u

\* One byte further.
LEMMA StepOnTheWay ==
  ASSUME R!ReaderAssumption, ReadInv, NEW k \in 1..30, NEW r, Way(r, k), ~Ends(r)
  PROVE  Way(Step(r), k)
  <1> DEFINE s == Step(r)
             x == r.cur
             u == r.need
             l == r.left
  <1>1. r \in R!Partial /\ Len(r.val) = k /\ ReadFacts
    BY FactsOf DEF Way
  <1>2. s \in R!Partial /\ s.left = 8 /\ s.need = u - l /\ u - l \in 1..30
    BY <1>1, StepIs
  <1>3. x \in 0..ReaderSize /\ u \in 0..30 /\ l \in 0..64 /\ r.eob \in BOOLEAN
    BY <1>1 DEF R!Partial, R!REG
  <1>4. /\ s.code = R!OneByte(x) /\ s.cur = R!Least(x + 1, ReaderSize)
        /\ s.eob = (r.eob \/ x >= ReaderSize) /\ s.val = Sum(r)
    BY DEF Step
  <1>5. Len(s.val) = k
    BY <1>1, <1>4, SumIs
  <1>6. /\ s.cur \in 1..ReaderSize /\ (x >= ReaderSize <=> x = ReaderSize)
        /\ x < ReaderSize => s.cur = x + 1 /\ Holds(s.code, 8 * x + 1, 8)
    BY <1>3, <1>4, OneByteIs
  <1>7. /\ is_eob => r.eob
        /\ r.eob => is_eob \/ asked + k > R!Bits + 1
        /\ ~r.eob => /\ u <= k /\ 8 * x - l = asked + k - u - 1
    BY DEF Way
  <1>8. ~r.eob => s.val = [q \in 1..k |-> IF q <= k - u + l THEN asked + q - 1 ELSE 0]
    <2> SUFFICES ASSUME ~r.eob
                 PROVE  Sum(r) = [q \in 1..k |-> IF q <= k - u + l THEN asked + q - 1 ELSE 0]
      BY <1>4
    <2>1. l \in 0..30 /\ l < u
      BY <1>2, <1>3
    <2> QED BY <2>1, SumOnTheWay
  <1> HIDE DEF s, x, u, l
  <1>9. s.left <= 8 * s.cur
    BY <1>2, <1>6
  <1>10. (is_eob => s.eob) /\ (s.eob => is_eob \/ asked + k > R!Bits + 1)
    <2>1. asked \in Nat /\ R!Bits = 8 * ReaderSize /\ ReaderSize \in Nat
      BY <1>1 DEF ReadFacts
    <2>2. ASSUME ~r.eob, x = ReaderSize PROVE asked + k > R!Bits + 1
      BY <1>2, <1>3, <1>7, <2>1, <2>2
    <2> QED BY <1>4, <1>6, <1>7, <2>2
  <1>11. ASSUME ~s.eob
         PROVE  /\ s.need <= k
                /\ 8 * s.cur - s.left = asked + k - s.need - 1
                /\ Holds(s.code, asked + k - s.need, s.left)
                /\ s.val = [q \in 1..k |-> IF q <= k - s.need THEN asked + q - 1 ELSE 0]
    <2>1. asked \in Nat
      BY <1>1 DEF ReadFacts
    <2>2. ~r.eob /\ ~(x >= ReaderSize)
      BY <1>4, <1>11
    <2>3. x < ReaderSize
      BY <1>3, <2>2, <1>1 DEF ReadFacts
    <2>4. u <= k /\ 8 * x - l = asked + k - u - 1
      BY <1>7, <2>2
    <2>5. 8 * x + 1 = asked + k - (u - l) /\ k - u + l = k - (u - l) /\ u - l <= k
      BY <1>2, <1>3, <2>1, <2>4
    <2>6. 8 * (x + 1) - 8 = asked + k - (u - l) - 1
      BY <1>2, <1>3, <2>1, <2>4
    <2> QED BY <1>2, <1>6, <1>8, <2>2, <2>3, <2>5, <2>6
  <1> QED BY <1>2, <1>5, <1>9, <1>10, <1>11 DEF Way, s

\* The last byte: the value is whole, and the register has moved on.
LEMMA DoneIs ==
  ASSUME R!ReaderAssumption, ReadInv, NEW k \in 1..30, NEW r, Way(r, k), Ends(r),
         R!Want(k), got' = Done(r).val, code' = Done(r).code, leftbits' = Done(r).left,
         cur' = Done(r).cur, is_eob' = Done(r).eob
  PROVE  Moved(k) /\ (~is_eob' => Next(k))
  <1>1. r \in R!Partial /\ Len(r.val) = k /\ ReadFacts
    BY FactsOf DEF Way
  <1>2. /\ r.cur \in 0..ReaderSize /\ r.need \in 0..30 /\ r.left \in 0..64 /\ r.eob \in BOOLEAN
        /\ r.code \in [R!Bit -> Content] /\ r.need <= r.left
    BY <1>1 DEF R!Partial, R!REG, Ends, Content
  <1>3. /\ got' = Sum(r) /\ code' = R!Shifted(r.code, r.need) /\ leftbits' = r.left - r.need
        /\ cur' = r.cur /\ is_eob' = r.eob
    BY <1>1 DEF Done, R!Partial
  <1>4. code' \in [R!Bit -> Content]
    BY <1>2, <1>3, ShiftedIs
  <1>5. leftbits' \in 0..64 /\ leftbits' <= 8 * cur' /\ cur' \in 0..ReaderSize
    <2>1. r.left - r.need \in 0..64 /\ r.left - r.need <= 8 * r.cur
      <3> DEFINE l == r.left
                 u == r.need
                 x == r.cur
      <3>1. l \in 0..64 /\ u \in 0..30 /\ x \in Nat /\ u <= l /\ l <= 8 * x
        BY <1>1, <1>2 DEF Way, ReadFacts
      <3> HIDE DEF l, u, x
      <3>2. l - u \in 0..64 /\ l - u <= 8 * x
        BY <3>1
      <3> QED BY <3>2 DEF l, u, x
    <2> QED BY <1>2, <1>3, <2>1
  <1>6. ASSUME ~r.eob
        PROVE  /\ 8 * cur' - leftbits' = asked - 1 + k /\ Holds(code', asked + k, leftbits')
               /\ Next(k)
    <2>1. /\ asked \in Nat /\ r.need <= k
          /\ 8 * r.cur - r.left = asked + k - r.need - 1
          /\ Holds(r.code, asked + k - r.need, r.left)
      BY <1>1, <1>6 DEF ReadFacts, Way
    <2> DEFINE u == r.need
               l == r.left
               x == r.cur
    <2>2. u \in 0..30 /\ l \in 0..64 /\ x \in 0..ReaderSize /\ u <= k /\ u <= l /\ 8 * x - l = asked + k - u - 1
          /\ ReaderSize \in Nat
      BY <1>1, <1>2, <2>1 DEF ReadFacts
    <2>3. asked + k - u \in Nat /\ (asked + k - u) + u = asked + k /\ u \in Nat
      BY <2>1, <2>2
    <2>4. Holds(R!Shifted(r.code, u), (asked + k - u) + u, l - u)
      <3> HIDE DEF u, l, x
      <3>1. Holds(r.code, asked + k - u, l)
        BY <2>1 DEF u, l
      <3> QED BY <1>2, <2>2, <2>3, <3>1, ShiftedIs
    <2>5. 8 * x - (l - u) = asked - 1 + k
      <3> HIDE DEF u, l, x
      <3> QED BY <2>1, <2>2
    <2>6. Sum(r) = [q \in 1..k |-> IF q <= k - u + u THEN asked + q - 1 ELSE 0]
      <3>1. ~(r.left < r.need)
        BY <1>2
      <3> QED BY <1>2, <1>6, <3>1, SumOnTheWay
    <2>7. Sum(r) = [q \in 1..k |-> asked + q - 1]
      <3> HIDE DEF u
      <3>1. \A q \in 1..k : q <= k - u + u
        BY <2>2
      <3> QED BY <2>6, <3>1
    <2> QED BY <1>3, <2>3, <2>4, <2>5, <2>7 DEF Next
  <1>7. /\ is_eob' \in BOOLEAN /\ (is_eob => is_eob')
        /\ ~is_eob /\ is_eob' => asked + k > R!Bits + 1
    BY <1>2, <1>3 DEF Way
  <1> QED BY <1>3, <1>4, <1>5, <1>6, <1>7 DEF Moved

\* dec_vlc_read.
LEMMA SuffixStep ==
  ASSUME R!ReaderAssumption, ReadInv, NEW k \in 1..30, R!Suffix(k)
  PROVE  ReadInv' /\ (~is_eob' => Next(k))
  <1> DEFINE a == [code |-> code, left |-> leftbits, cur |-> cur, eob |-> is_eob,
                   need |-> k, val |-> [q \in 1..k |-> 0]]
             Given(r) == /\ got' = r.val /\ code' = r.code /\ leftbits' = r.left
                         /\ cur' = r.cur /\ is_eob' = r.eob
             Goal == Moved(k) /\ (~is_eob' => Next(k))
  <1>1. Given(R!Summed[a]) /\ R!Want(k)
    BY DEF R!Suffix
  <1>2. Way(a, k)
    <2>1. ReadFacts
      BY FactsOf
    <2>2. 0 \in Content /\ [q \in 1..k |-> 0] \in [1..k -> {0}]
      BY DEF Content, R!ReaderAssumption, R!Bits
    <2>3. [q \in 1..k |-> 0] \in Seq(Content) /\ Len([q \in 1..k |-> 0]) = k
      BY <2>2
    <2>4. a \in R!Partial
      <3>1. k \in 0..30
        OBVIOUS
      <3> QED BY <2>1, <2>3, <3>1 DEF R!Partial, ReadFacts, Content, R!REG
    <2>5. ~is_eob => /\ k <= k /\ 8 * cur - leftbits = asked + k - k - 1
                     /\ asked + k - k = asked
                     /\ Holds(code, asked, leftbits)
                     /\ \A q \in 1..k : ~(q <= k - k)
      BY <2>1 DEF ReadFacts
    <2> QED BY <2>1, <2>3, <2>4, <2>5 DEF Way, ReadFacts
  <1> HIDE DEF a
  <1>3. ASSUME NEW r, Way(r, k), Ends(r), Given(R!Summed[r]) PROVE Goal
    <2>1. R!Summed[r] = Done(r)
      BY <1>3, SummedIs DEF Way
    <2> QED BY <1>1, <1>3, <2>1, DoneIs
  <1>4. ASSUME NEW r, Way(r, k), ~Ends(r), Given(R!Summed[r])
        PROVE  /\ Way(Step(r), k) /\ Given(R!Summed[Step(r)])
               /\ Step(r).need \in 1..30 /\ Step(r).need = r.need - r.left /\ Step(r).left = 8
    <2>1. R!Summed[r] = R!Summed[Step(r)]
      BY <1>4, SummedIs DEF Way
    <2> QED BY <1>4, <2>1, StepOnTheWay, StepIs DEF Way
  <1> DEFINE b == Step(a)
             c == Step(b)
             d == Step(c)
             e == Step(d)
  <1> HIDE DEF Given, Goal
  <1>5. ASSUME Ends(a) PROVE Goal
    BY <1>1, <1>2, <1>3, <1>5
  <1>6. ASSUME ~Ends(a) PROVE Goal
    <2>1. Way(b, k) /\ Given(R!Summed[b]) /\ b.need \in 1..30 /\ b.left = 8
      BY <1>1, <1>2, <1>4, <1>6
    <2> HIDE DEF b
    <2>2. ~Ends(b) => Way(c, k) /\ Given(R!Summed[c]) /\ c.need \in 1..22 /\ c.left = 8
      BY <1>4, <2>1
    <2> HIDE DEF c
    <2>3. ~Ends(b) /\ ~Ends(c) => Way(d, k) /\ Given(R!Summed[d]) /\ d.need \in 1..14 /\ d.left = 8
      BY <1>4, <2>2
    <2> HIDE DEF d
    <2>4. ~Ends(b) /\ ~Ends(c) /\ ~Ends(d) => Way(e, k) /\ Given(R!Summed[e]) /\ e.need \in 1..6 /\ e.left = 8
      BY <1>4, <2>3
    <2> HIDE DEF e
    <2>5. ~Ends(b) /\ ~Ends(c) /\ ~Ends(d) => Ends(e)
      BY <2>4 DEF Ends
    <2> QED BY <1>3, <2>1, <2>2, <2>3, <2>4, <2>5
  <1>7. Goal
    BY <1>5, <1>6
  <1> QED BY <1>7, MovedKeeps DEF Goal

----------------------------------------------------------------------------
\* A reader that has not begun.
LEMMA ReadInit == ASSUME R!ReaderAssumption, R!Init PROVE ReadInv
  <1>1. \A q \in R!Bit : ~(q <= 0)
    BY DEF R!Bit, R!REG
  <1>2. ReaderSize \in Nat \ {0}
    BY DEF R!ReaderAssumption
  <1>3. /\ cur = 0 /\ leftbits = 0 /\ is_eob = FALSE /\ asked = 1 /\ past = FALSE
        /\ code = [q \in R!Bit |-> 0]
    BY DEF R!Init, R!Blank
  <1>4. R!Bits \in Nat /\ 0 \in 0..ReaderSize /\ 0 \in 0..R!Bits /\ 1 \in 1..(R!Bits + 1)
    BY <1>2 DEF R!Bits
  <1>5. 0 \in 0..R!REG
    BY DEF R!REG
  <1>6. code \in [R!Bit -> {R!ONE, R!MIX} \cup 0..R!Bits]
    BY <1>3, <1>4
  <1>7. R!TypeOK
    BY <1>3, <1>4, <1>5, <1>6 DEF R!TypeOK
  <1>8. code = [q \in R!Bit |-> IF q <= leftbits THEN asked + q - 1 ELSE 0]
    BY <1>1, <1>3
  <1>9. leftbits <= 8 * cur /\ 8 * cur - leftbits = asked - 1
    BY <1>3
  <1>10. R!EndIsTrue
    BY <1>3, <1>7, <1>8, <1>9 DEF R!EndIsTrue
  <1> QED BY <1>9, <1>10 DEF ReadInv

\* Every operation keeps the invariant, and a value is made of the next bits.
LEMMA ReadStep ==
  ASSUME R!ReaderAssumption, ReadInv, R!Next
  PROVE  ReadInv' /\ (~is_eob' /\ got' # << >> => R!TheNextBits)
  <1>1. ElementLens \subseteq 1..32 /\ SuffixLens \subseteq 1..30
    BY DEF R!ReaderAssumption
  <1> DEFINE Goal == ReadInv' /\ (~is_eob' /\ got' # << >> => R!TheNextBits)
  <1>2. ASSUME NEW n \in ElementLens, R!Read(n) PROVE Goal
    BY <1>1, <1>2, ReadHeldStep, ReadOverStep, NextIsNext DEF R!Read
  <1>3. ASSUME NEW n \in ElementLens, R!Skip(n) PROVE Goal
    BY <1>1, <1>3, SkipStep DEF R!Skip
  <1>4. CASE R!Read1
    BY <1>4, Read1Step, NextIsNext
  <1>5. CASE R!Align8 \/ R!Sink \/ R!TopUp
    BY <1>5, Align8Step, ReaderSinkStep, TopUpStep DEF R!Align8, R!Sink, R!TopUp
  <1>6. CASE R!Flag
    BY <1>6, FlagStep, NextIsNext
  <1>7. ASSUME NEW k \in SuffixLens, R!Suffix(k) PROVE Goal
    BY <1>1, <1>7, SuffixStep, NextIsNext
  <1> QED BY <1>2, <1>3, <1>4, <1>5, <1>6, <1>7 DEF R!Next

\* Nothing changes.
LEMMA ReadStutter == ASSUME ReadInv, UNCHANGED R!vars PROVE ReadInv'
  BY DEF R!vars, ReadInv, R!EndIsTrue, R!TypeOK

\* For any buffer and any mix of reads, skips, alignments, top-ups, flags and
\* suffixes: is_eob is set exactly when a bit behind the end was asked for, and
\* until then position and register are those of the bits that were read.
THEOREM ReaderKnowsTheEnd ==
  ASSUME R!ReaderAssumption PROVE R!Spec => []R!EndIsTrue
  <1>1. R!Init => ReadInv
    BY ReadInit
  <1>2. ReadInv /\ [R!Next]_(R!vars) => ReadInv'
    BY ReadStep, ReadStutter
  <1>3. ReadInv => R!EndIsTrue
    BY DEF ReadInv
  <1> QED BY <1>1, <1>2, <1>3, PTL DEF R!Spec

\* For any buffer: until the end is hit, every value that is read is made of
\* the next bits of the buffer, in their order.
THEOREM ReaderGetsTheNextBits ==
  ASSUME R!ReaderAssumption PROVE R!Spec => R!NextBits
  <1>1. R!Init => ReadInv
    BY ReadInit
  <1>2. ReadInv /\ [R!Next]_(R!vars) => ReadInv'
    BY ReadStep, ReadStutter
  <1>3. ReadInv /\ [R!Next]_(R!vars) => [~is_eob' /\ got' # << >> => R!TheNextBits]_(R!vars)
    BY ReadStep
  <1> QED BY <1>1, <1>2, <1>3, PTL DEF R!Spec, R!NextBits

----------------------------------------------------------------------------
(* BsWriter                                                                *)

\* Which of the bits written a register holds: n of them from bit a + 1 on.
Filled(c, a, n) == c = [q \in W!Bit |-> IF q <= n THEN a + q ELSE 0]

\* Nothing was dropped: the bits written are in the buffer and, from its top
\* down, in the register.
Clean ==
  /\ leftbits >= 0 /\ cur <= WriterSize /\ W!Held <= w
  /\ mem = W!AllOf(w - W!Held)
  /\ Filled(code, w - W!Held, W!Held)

\* A register that is full stays so only at the end of the buffer, where no
\* flush fits any more; and the coefficient writer leaves cur behind the end.
WriteInv ==
  /\ W!TypeOK /\ Len(mem) <= 8 * cur
  /\ leftbits <= 0 => cur >= WriterSize
  /\ "coef" \in dropped => cur > WriterSize
  /\ dropped = {} => Clean
  /\ W!CoefOverflowSticks

\* The first k places of a register are places of it.
LEMMA BitsToK == ASSUME NEW k \in 0..W!REG PROVE \A q \in 1..k : q \in W!Bit
  BY DEF W!Bit, W!REG

\* A sequence of bits grows by the first bits of a register.
LEMMA AppendedType ==
  ASSUME W!WriterAssumption, mem \in Seq(0..MaxBits),
         NEW c \in [W!Bit -> 0..MaxBits], NEW k \in 0..W!REG
  PROVE  /\ mem \o SubSeq(c, 1, k) \in Seq(0..MaxBits)
         /\ Len(mem \o SubSeq(c, 1, k)) = Len(mem) + k
  <1>1. \A q \in 1..k : c[q] \in 0..MaxBits
    BY BitsToK
  <1>2. k \in Int /\ (IF 1 <= k THEN k - 1 + 1 ELSE 0) = k
    BY DEF W!REG
  <1>3. SubSeq(c, 1, k) \in Seq(0..MaxBits) /\ Len(SubSeq(c, 1, k)) = k
    BY <1>1, <1>2, SubSeqProperties
  <1> QED BY <1>3, ConcatProperties

\* The numbers to a, and the next k from a register, are the numbers to a + k.
LEMMA AppendedIs ==
  ASSUME W!WriterAssumption, NEW a \in Nat, NEW n \in 0..W!REG, NEW k \in 0..n,
         NEW c, Filled(c, a, n)
  PROVE  W!AllOf(a) \o SubSeq(c, 1, k) = W!AllOf(a + k)
  <1>1. k \in 0..64 /\ k <= n
    BY DEF W!REG
  <1>2. \A q \in 1..k : c[q] = a + q /\ c[q] \in Nat
    BY <1>1 DEF W!Bit, W!REG, Filled
  <1> DEFINE s == SubSeq(c, 1, k)
             t == W!AllOf(a)
             u == W!AllOf(a + k)
  <1>3. s \in Seq(Nat) /\ Len(s) = k /\ \A q \in 1..k : s[q] = a + q
    <2>1. k \in Int /\ (IF 1 <= k THEN k - 1 + 1 ELSE 0) = k /\ 1..(k - 1 + 1) = 1..k
          /\ \A q \in 1..k : 1 + q - 1 = q
      BY <1>1
    <2>2. /\ SubSeq(c, 1, k) \in Seq(Nat) /\ Len(SubSeq(c, 1, k)) = k
          /\ \A q \in 1..(k - 1 + 1) : SubSeq(c, 1, k)[q] = c[1 + q - 1]
      BY <1>2, <2>1, SubSeqProperties
    <2> QED BY <1>2, <2>1, <2>2
  <1>4. t \in Seq(Nat) /\ Len(t) = a /\ \A q \in 1..a : t[q] = q
    BY DEF W!AllOf
  <1>5. u \in Seq(Nat) /\ Len(u) = a + k /\ \A q \in 1..(a + k) : u[q] = q
    BY <1>1 DEF W!AllOf
  <1> HIDE DEF s, t, u
  <1>6. /\ t \o s \in Seq(Nat) /\ Len(t \o s) = a + k
        /\ \A q \in 1..(a + k) : (t \o s)[q] = IF q <= a THEN t[q] ELSE s[q - a]
    BY <1>3, <1>4, ConcatProperties
  <1>7. \A q \in 1..(a + k) : (t \o s)[q] = q
    <2> SUFFICES ASSUME NEW q \in 1..(a + k) PROVE (t \o s)[q] = q
      OBVIOUS
    <2>1. q <= a => q \in 1..a
      BY <1>1
    <2>2. ~(q <= a) => q - a \in 1..k /\ a + (q - a) = q
      BY <1>1
    <2> QED BY <1>3, <1>4, <1>6, <2>1, <2>2
  <1>8. t \o s = u
    BY <1>5, <1>6, <1>7, SeqEqual
  <1> QED BY <1>8 DEF s, t, u

\* A value against the valid bits of a register makes them longer, and what is
\* left of a value begins the next register (oapv_bsw_write).
LEMMA PlacedType ==
  ASSUME W!WriterAssumption, w \in 0..MaxBits, code \in [W!Bit -> 0..MaxBits],
         NEW n \in Nat, w + n <= MaxBits, NEW s \in Int
  PROVE  /\ W!Placed(n, s) \in [W!Bit -> 0..MaxBits]
         /\ W!Or(code, W!Placed(n, s)) \in [W!Bit -> 0..MaxBits]
  <1>1. \A q \in W!Bit : q - s \in 1..n => w + q - s \in 0..MaxBits
    BY DEF W!WriterAssumption, W!Bit, W!REG
  <1>2. 0 \in 0..MaxBits
    BY DEF W!WriterAssumption
  <1>3. W!Placed(n, s) \in [W!Bit -> 0..MaxBits]
    BY <1>1, <1>2 DEF W!Placed
  <1> QED BY <1>3 DEF W!Or

\* A value behind the bits held: in the register, or partly behind its end.
LEMMA PlacedIs ==
  ASSUME W!WriterAssumption, w \in Nat, leftbits \in 0..W!REG, W!Held <= w,
         Filled(code, w - W!Held, W!Held), NEW n \in 1..W!REG
  PROVE  /\ Filled(W!Or(code, W!Placed(n, W!Held)), w - W!Held, W!Held + n)
         /\ n >= leftbits => Filled(W!Placed(n, -leftbits), w + leftbits, n - leftbits)
  <1> DEFINE h == W!Held
  <1>1. h \in 0..64 /\ w - h \in Nat /\ n \in 1..64 /\ leftbits = 64 - h
    BY DEF W!Held, W!REG
  <1>2. code = [q \in W!Bit |-> IF q <= h THEN w - h + q ELSE 0]
    BY DEF Filled
  <1> HIDE DEF h
  <1>3. ASSUME NEW q \in W!Bit
        PROVE  W!Or(code, W!Placed(n, h))[q] = IF q <= h + n THEN w - h + q ELSE 0
    <2>1. q \in 1..64
      BY DEF W!Bit, W!REG
    <2>2. W!Placed(n, h)[q] = IF q - h \in 1..n THEN w + q - h ELSE 0
      BY DEF W!Placed
    <2>3. W!Or(code, W!Placed(n, h))[q]
            = IF W!Placed(n, h)[q] # 0 THEN W!Placed(n, h)[q] ELSE code[q]
      BY DEF W!Or
    <2>4. code[q] = IF q <= h THEN w - h + q ELSE 0
      BY <1>2
    <2>5. (q - h \in 1..n <=> ~(q <= h) /\ q <= h + n) /\ w + q - h = w - h + q /\ w - h + q # 0
      BY <1>1, <2>1
    <2> QED BY <1>1, <2>1, <2>2, <2>3, <2>4, <2>5
  <1>4. Filled(W!Or(code, W!Placed(n, h)), w - h, h + n)
    BY <1>3 DEF Filled, W!Or
  <1>5. ASSUME n >= leftbits PROVE Filled(W!Placed(n, -leftbits), w + leftbits, n - leftbits)
    <2>1. \A q \in W!Bit : /\ q - (-leftbits) \in 1..n <=> q <= n - leftbits
                           /\ w + q - (-leftbits) = w + leftbits + q
      BY <1>1, <1>5 DEF W!Bit, W!REG
    <2> QED BY <2>1 DEF Filled, W!Placed
  <1> QED BY <1>4, <1>5 DEF h

----------------------------------------------------------------------------
\* What a flush of some bytes does to the buffer (bsw_flush).
LEMMA AppendKeeps ==
  ASSUME W!WriterAssumption, WriteInv, NEW c \in [W!Bit -> 0..MaxBits],
         NEW k \in 0..W!REG, NEW bytes \in Nat, k <= 8 * bytes, W!Fits(bytes),
         W!Append8(c, k, bytes)
  PROVE  /\ mem' \in Seq(0..MaxBits) /\ Len(mem') <= 8 * WriterSize /\ Len(mem') <= 8 * cur'
         /\ cur' \in Nat /\ cur <= cur' /\ cur' <= WriterSize
         /\ cur' = cur + bytes /\ mem' = mem \o SubSeq(c, 1, k)
  <1>1. WriterSize \in Nat /\ cur \in Nat /\ Len(mem) <= 8 * cur /\ mem \in Seq(0..MaxBits)
    BY DEF W!WriterAssumption, WriteInv, W!TypeOK
  <1>2. Len(mem) \in Nat
    BY <1>1, LenProperties
  <1>3. k \in Nat
    BY DEF W!REG
  <1>4. W!Least(k, 8 * bytes) = k
    BY <1>3 DEF W!Least
  <1>5. mem' = mem \o SubSeq(c, 1, k) /\ cur' = cur + bytes
    BY <1>4 DEF W!Append8
  <1>6. mem' \in Seq(0..MaxBits) /\ Len(mem') = Len(mem) + k
    BY <1>1, <1>5, AppendedType
  <1> DEFINE m == Len(mem)
             m1 == Len(mem')
  <1> HIDE DEF m, m1
  <1>7. /\ m \in Nat /\ m <= 8 * cur /\ m1 = m + k
        /\ cur' = cur + bytes /\ cur + bytes <= WriterSize
    BY <1>1, <1>2, <1>5, <1>6 DEF W!Fits, m, m1
  <1>8. /\ m1 <= 8 * (cur + bytes) /\ 8 * (cur + bytes) <= 8 * WriterSize
        /\ cur + bytes \in Nat /\ cur <= cur + bytes
    BY <1>1, <1>3, <1>7
  <1>9. m1 <= 8 * WriterSize
    BY <1>1, <1>3, <1>7
  <1> QED BY <1>5, <1>6, <1>7, <1>8, <1>9 DEF m1

\* A full register, and what a sink takes from it, in the buffer.
LEMMA FullIs ==
  ASSUME W!WriterAssumption, w \in Nat, leftbits \in 0..W!REG, Clean, NEW n \in 1..W!REG,
         n >= leftbits
  PROVE  mem \o SubSeq(W!Or(code, W!Placed(n, W!Held)), 1, W!REG) = W!AllOf(w + leftbits)
  <1> DEFINE joined == W!Or(code, W!Placed(n, W!Held))
             a == w - W!Held
  <1>1. Filled(joined, a, W!Held + n)
    BY PlacedIs DEF Clean
  <1>2. a \in Nat /\ W!Held + n >= 64 /\ a + 64 = w + leftbits
    BY DEF W!Held, W!REG, Clean
  <1>3. joined = [q \in W!Bit |-> IF q <= W!Held + n THEN a + q ELSE 0]
    BY <1>1 DEF Filled
  <1>4. \A q \in W!Bit : q <= W!Held + n /\ q <= 64
    BY <1>2 DEF W!Bit, W!REG, W!Held
  <1>5. Filled(joined, a, 64)
    BY <1>3, <1>4 DEF Filled
  <1>6. 64 \in 0..W!REG /\ 64 \in 0..64 /\ W!REG = 64
    BY DEF W!REG
  <1> HIDE DEF joined, a
  <1>7. W!AllOf(a) \o SubSeq(joined, 1, 64) = W!AllOf(a + 64)
    BY <1>2, <1>5, <1>6, AppendedIs
  <1> QED BY <1>2, <1>6, <1>7 DEF Clean, joined, a

\* Buffer and register together are all the bits written.
LEMMA HeldIs ==
  ASSUME W!WriterAssumption, w \in Nat, leftbits \in 0..W!REG, Clean
  PROVE  mem \o SubSeq(code, 1, W!Held) = W!AllOf(w)
  <1> DEFINE a == w - W!Held
             h == W!Held
  <1>1. a \in Nat /\ a + h = w /\ h \in 0..W!REG /\ h \in 0..h
    BY DEF W!Held, W!REG, Clean
  <1>2. mem = W!AllOf(a) /\ Filled(code, a, h)
    BY DEF Clean
  <1> HIDE DEF a, h
  <1> QED BY <1>1, <1>2, AppendedIs DEF h

\* An empty register holds what it should.
LEMMA BlankIs ==
  ASSUME W!WriterAssumption, NEW a
  PROVE  Filled(W!Blank, a, 0) /\ W!Blank \in [W!Bit -> 0..MaxBits]
  <1>1. 0 \in 0..MaxBits /\ \A q \in W!Bit : ~(q <= 0)
    BY DEF W!WriterAssumption, W!Bit, W!REG
  <1> QED BY <1>1 DEF Filled, W!Blank

----------------------------------------------------------------------------
\* What has to be shown of a step that drops nothing.
LEMMA CleanLater ==
  ASSUME leftbits' >= 0, cur' <= WriterSize, W!Held' <= w', mem' = W!AllOf(w' - W!Held'),
         Filled(code', w' - W!Held', W!Held')
  PROVE  Clean'
  BY DEF Clean, Filled, W!AllOf, W!Bit, W!REG

\* A value that leaves the register short of full stays in it.
LEMMA StaysHeld ==
  ASSUME W!WriterAssumption, WriteInv, NEW n \in 1..W!REG, w + n <= MaxBits, n < leftbits,
         code' = W!Or(code, W!Placed(n, W!Held)), leftbits' = leftbits - n,
         w' = w + n, sunk' = "none", UNCHANGED <<mem, cur, dropped>>
  PROVE  WriteInv'
  <1>1. /\ WriterSize \in Nat /\ w \in 0..MaxBits /\ leftbits \in -1..64 /\ n \in 1..64
        /\ MaxBits \in Nat /\ w \in Nat
    BY DEF W!WriterAssumption, WriteInv, W!TypeOK, W!REG
  <1>2. leftbits \in 0..W!REG /\ n \in Nat /\ W!Held \in Int
    BY <1>1 DEF W!REG, W!Held
  <1>3. code' \in [W!Bit -> 0..MaxBits]
    BY <1>1, <1>2, PlacedType DEF WriteInv, W!TypeOK
  <1>4. leftbits - n \in -1..64 /\ leftbits - n > 0 /\ w + n \in 0..MaxBits
    BY <1>1
  <1>5. W!TypeOK'
    BY <1>3, <1>4 DEF WriteInv, W!TypeOK, W!REG
  <1>6. ASSUME dropped = {} PROVE Clean'
    <2>1. Clean
      BY <1>6 DEF WriteInv
    <2>2. Filled(code', w - W!Held, W!Held + n)
      BY <1>1, <1>2, <2>1, PlacedIs DEF Clean
    <2>3. 64 - (leftbits - n) = W!Held + n /\ (w + n) - (W!Held + n) = w - W!Held
          /\ W!Held + n <= w + n
      BY <1>1, <2>1 DEF W!Held, W!REG, Clean
    <2>4. W!Held' = W!Held + n
      BY <2>3 DEF W!Held, W!REG
    <2>5. w' - W!Held' = w - W!Held /\ W!Held' <= w' /\ leftbits' >= 0
      BY <1>4, <2>3, <2>4
    <2>6. cur' <= WriterSize /\ mem' = W!AllOf(w' - W!Held') /\ Filled(code', w' - W!Held', W!Held')
      BY <2>1, <2>2, <2>4, <2>5 DEF Clean
    <2> QED BY <2>5, <2>6, CleanLater
  <1> QED BY <1>4, <1>5, <1>6 DEF WriteInv, W!CoefOverflowSticks

\* A value that fills the register: it is flushed, and what is left of the
\* value begins the next one.
LEMMA FlushesFull ==
  ASSUME W!WriterAssumption, WriteInv, NEW n \in 1..W!REG, w + n <= MaxBits, n >= leftbits,
         W!Fits(8), W!Append8(W!Or(code, W!Placed(n, W!Held)), W!REG, 8),
         \/ code' = W!Placed(n, -leftbits)
         \/ n = leftbits /\ code' = W!Blank,
         leftbits' = W!REG - (n - leftbits), w' = w + n, sunk' = "none", UNCHANGED dropped
  PROVE  WriteInv'
  <1> DEFINE joined == W!Or(code, W!Placed(n, W!Held))
  <1>1. /\ WriterSize \in Nat /\ w \in 0..MaxBits /\ leftbits \in -1..64 /\ n \in 1..64
        /\ MaxBits \in Nat /\ w \in Nat /\ cur \in Nat
    BY DEF W!WriterAssumption, WriteInv, W!TypeOK, W!REG
  <1>2. ~(leftbits <= 0)
    BY <1>1 DEF W!Fits, WriteInv
  <1>3. leftbits \in 1..64 /\ leftbits \in 0..W!REG /\ n \in Nat /\ W!Held \in Int /\ -leftbits \in Int
    BY <1>1, <1>2 DEF W!REG, W!Held
  <1>4. joined \in [W!Bit -> 0..MaxBits] /\ W!Placed(n, -leftbits) \in [W!Bit -> 0..MaxBits]
    BY <1>1, <1>3, PlacedType DEF WriteInv, W!TypeOK
  <1>5. W!REG \in 0..W!REG /\ 8 \in Nat /\ W!REG <= 8 * 8
    BY DEF W!REG
  <1> HIDE DEF joined
  <1>6. /\ mem' \in Seq(0..MaxBits) /\ Len(mem') <= 8 * WriterSize /\ Len(mem') <= 8 * cur'
        /\ cur' \in Nat /\ cur <= cur' /\ cur' <= WriterSize
        /\ mem' = mem \o SubSeq(joined, 1, W!REG)
    BY <1>4, <1>5, AppendKeeps DEF joined
  <1>7. code' \in [W!Bit -> 0..MaxBits]
    BY <1>4, BlankIs
  <1>8. 64 - (n - leftbits) \in -1..64 /\ 64 - (n - leftbits) > 0 /\ w + n \in 0..MaxBits
    BY <1>1, <1>3
  <1>9. W!TypeOK'
    BY <1>6, <1>7, <1>8 DEF WriteInv, W!TypeOK, W!REG
  <1>10. ASSUME dropped = {} PROVE Clean'
    <2>1. Clean
      BY <1>10 DEF WriteInv
    <2>2. mem' = W!AllOf(w + leftbits)
      BY <1>1, <1>3, <1>6, <2>1, FullIs DEF joined
    <2>3. Filled(code', w + leftbits, n - leftbits)
      <3>1. n = leftbits => n - leftbits = 0
        BY <1>1
      <3> QED BY <1>1, <1>3, <2>1, <3>1, PlacedIs, BlankIs DEF Clean
    <2>4. 64 - (64 - (n - leftbits)) = n - leftbits /\ (w + n) - (n - leftbits) = w + leftbits
          /\ n - leftbits <= w + n
      BY <1>1, <1>3
    <2>5. W!Held' = n - leftbits
      BY <2>4 DEF W!Held, W!REG
    <2>6. w' - W!Held' = w + leftbits /\ W!Held' <= w' /\ leftbits' >= 0
      BY <1>8, <2>4, <2>5 DEF W!REG
    <2>7. mem' = W!AllOf(w' - W!Held') /\ Filled(code', w' - W!Held', W!Held')
      BY <2>2, <2>3, <2>5, <2>6
    <2> QED BY <1>6, <2>6, <2>7, CleanLater
  <1>11. "coef" \in dropped => FALSE
    BY <1>1 DEF W!Fits, WriteInv
  <1> QED BY <1>6, <1>8, <1>9, <1>10, <1>11 DEF WriteInv, W!CoefOverflowSticks, W!REG

\* A step that drops bits and remembers who did.
LEMMA Drops ==
  ASSUME W!WriterAssumption, WriteInv, mem' = mem, cur' \in Nat, cur <= cur',
         code' \in [W!Bit -> 0..MaxBits], leftbits' \in -1..W!REG,
         leftbits' <= 0 => cur' >= WriterSize,
         NEW who \in {"hls", "coef"}, dropped' = dropped \cup {who},
         who = "coef" => cur' > WriterSize,
         w' \in 0..MaxBits, sunk' = "none"
  PROVE  WriteInv'
  <1>1. /\ WriterSize \in Nat /\ cur \in Nat /\ mem \in Seq(0..MaxBits) /\ dropped \subseteq {"hls", "coef"}
    BY DEF W!WriterAssumption, WriteInv, W!TypeOK
  <1>2. Len(mem) \in Nat
    BY <1>1, LenProperties
  <1>3. Len(mem') <= 8 * WriterSize /\ Len(mem') <= 8 * cur'
    <2> DEFINE m == Len(mem)
    <2>1. m \in Nat /\ m <= 8 * WriterSize /\ m <= 8 * cur
      BY <1>2 DEF WriteInv, W!TypeOK
    <2> HIDE DEF m
    <2>2. \A c \in Nat : cur <= c => m <= 8 * c
      BY <1>1, <2>1
    <2>3. m <= 8 * cur'
      BY <2>2
    <2> QED BY <2>1, <2>3 DEF m
  <1>4. "coef" \in dropped' => cur' > WriterSize
    BY <1>1 DEF WriteInv
  <1>5. W!TypeOK'
    BY <1>1, <1>3 DEF W!TypeOK, W!REG, W!Bit
  <1> QED BY <1>3, <1>4, <1>5 DEF WriteInv, W!CoefOverflowSticks

\* What a write of the syntax or the coefficient writer may assume.
LEMMA WriteTypes ==
  ASSUME W!WriterAssumption, WriteInv, NEW n \in 1..W!REG, w + n <= MaxBits
  PROVE  /\ w + n \in 0..MaxBits /\ W!REG = 64 /\ cur \in Nat /\ WriterSize \in Nat
         /\ leftbits \in -1..64 /\ n \in 1..64 /\ w \in Nat
         /\ W!Or(code, W!Placed(n, W!Held)) \in [W!Bit -> 0..MaxBits]
         /\ W!Placed(n, -leftbits) \in [W!Bit -> 0..MaxBits]
         /\ W!Blank \in [W!Bit -> 0..MaxBits]
  <1>1. /\ WriterSize \in Nat /\ w \in 0..MaxBits /\ leftbits \in -1..64 /\ n \in 1..64
        /\ MaxBits \in Nat /\ w \in Nat /\ cur \in Nat /\ code \in [W!Bit -> 0..MaxBits]
    BY DEF W!WriterAssumption, WriteInv, W!TypeOK, W!REG
  <1>2. n \in Nat /\ W!Held \in Int /\ -leftbits \in Int /\ w + n \in 0..MaxBits
    BY <1>1 DEF W!Held, W!REG
  <1> QED BY <1>1, <1>2, PlacedType, BlankIs DEF W!REG

\* oapv_bsw_write.
LEMMA WriteStep ==
  ASSUME W!WriterAssumption, WriteInv, NEW n \in HlsLens, W!Write(n)
  PROVE  WriteInv'
  <1>1. n \in 1..32 /\ n \in 1..W!REG /\ w + n <= MaxBits
    BY DEF W!WriterAssumption, W!Write, W!REG
  <1>2. /\ w + n \in 0..MaxBits /\ W!REG = 64 /\ cur \in Nat /\ WriterSize \in Nat
        /\ leftbits \in -1..64 /\ n \in 1..64
        /\ W!Placed(n, -leftbits) \in [W!Bit -> 0..MaxBits]
        /\ W!Blank \in [W!Bit -> 0..MaxBits]
    BY <1>1, WriteTypes
  <1>3. CASE n < leftbits
    BY <1>1, <1>3, StaysHeld DEF W!Write
  <1>4. CASE n >= leftbits /\ W!Fits(8)
    <2>1. ~(n < leftbits) /\ ~(leftbits < 0)
      BY <1>2, <1>4 DEF W!Fits, WriteInv
    <2>2. code' = W!Placed(n, -leftbits)
      BY <2>1 DEF W!Write
    <2> QED BY <1>1, <1>4, <2>1, <2>2, FlushesFull DEF W!Write
  <1>5. CASE n >= leftbits /\ ~W!Fits(8)
    <2>1. ~(n < leftbits)
      BY <1>2, <1>5
    <2>2. /\ mem' = mem /\ cur' = cur /\ dropped' = dropped \cup {"hls"}
          /\ code' \in {W!Placed(n, -leftbits), W!Blank}
          /\ leftbits' = W!REG - (n - leftbits) /\ w' = w + n /\ sunk' = "none"
      BY <1>5, <2>1 DEF W!Write
    <2>3. 64 - (n - leftbits) \in -1..64 /\ ~(64 - (n - leftbits) <= 0)
      BY <1>1, <1>2, <2>1
    <2>4. cur <= cur' /\ code' \in [W!Bit -> 0..MaxBits]
      BY <1>2, <2>2
    <2> QED BY <1>2, <2>2, <2>3, <2>4, Drops
  <1> QED BY <1>2, <1>3, <1>4, <1>5

\* BSW_WRITE_64BITS
LEMMA WriteCoefStep ==
  ASSUME W!WriterAssumption, WriteInv, NEW n \in CodeLens, W!WriteCoef(n)
  PROVE  WriteInv'
  <1>1. n \in 1..W!REG /\ w + n <= MaxBits /\ leftbits >= 0
    BY DEF W!WriterAssumption, W!WriteCoef, W!REG
  <1>2. /\ w + n \in 0..MaxBits /\ W!REG = 64 /\ cur \in Nat /\ WriterSize \in Nat
        /\ leftbits \in -1..64 /\ n \in 1..64
        /\ W!Placed(n, -leftbits) \in [W!Bit -> 0..MaxBits]
        /\ W!Blank \in [W!Bit -> 0..MaxBits]
    BY <1>1, WriteTypes
  <1>3. CASE n < leftbits
    BY <1>1, <1>3, StaysHeld DEF W!WriteCoef
  <1>4. CASE n >= leftbits /\ W!Fits(8)
    <2>1. ~(n < leftbits) /\ (n - leftbits > 0 \/ n = leftbits)
      BY <1>2, <1>4
    <2>2. \/ code' = W!Placed(n, -leftbits)
          \/ n = leftbits /\ code' = W!Blank
      BY <2>1 DEF W!WriteCoef
    <2> QED BY <1>1, <1>4, <2>1, <2>2, FlushesFull DEF W!WriteCoef
  <1>5. CASE n >= leftbits /\ ~W!Fits(8)
    <2>1. ~(n < leftbits)
      BY <1>2, <1>5
    <2>2. /\ mem' = mem /\ cur' = cur + 8 /\ dropped' = dropped \cup {"coef"}
          /\ code' \in {W!Placed(n, -leftbits), W!Blank}
          /\ leftbits' = W!REG - (n - leftbits) /\ w' = w + n /\ sunk' = "none"
      BY <1>5, <2>1 DEF W!WriteCoef, W!CoefCur
    <2>3. 64 - (n - leftbits) \in -1..64
      BY <1>1, <1>2, <2>1
    <2>4. cur + 8 > WriterSize /\ cur + 8 \in Nat /\ cur <= cur + 8 /\ cur + 8 >= WriterSize
      BY <1>2, <1>5 DEF W!Fits
    <2>5. code' \in [W!Bit -> 0..MaxBits]
      BY <1>2, <2>2
    <2> QED BY <1>2, <2>2, <2>3, <2>4, <2>5, Drops
  <1> QED BY <1>2, <1>3, <1>4, <1>5

\* oapv_bsw_write1.  A full register that finds the end of the buffer stays
\* full; only the bit after that is lost.
LEMMA Write1Step ==
  ASSUME W!WriterAssumption, WriteInv, W!Write1
  PROVE  WriteInv'
  <1>1. 1 \in 1..W!REG /\ w + 1 <= MaxBits /\ leftbits >= 0
    BY DEF W!WriterAssumption, WriteInv, W!TypeOK, W!Write1, W!REG
  <1>2. /\ w + 1 \in 0..MaxBits /\ W!REG = 64 /\ cur \in Nat /\ WriterSize \in Nat
        /\ leftbits \in -1..64 /\ w \in Nat
        /\ W!Or(code, W!Placed(1, W!Held)) \in [W!Bit -> 0..MaxBits]
        /\ W!Placed(1, -leftbits) \in [W!Bit -> 0..MaxBits]
        /\ W!Blank \in [W!Bit -> 0..MaxBits]
    BY <1>1, WriteTypes
  <1> DEFINE joined == W!Or(code, W!Placed(1, W!Held))
  <1>3. CASE leftbits > 1
    <2>1. leftbits # 1 /\ leftbits # 0 /\ 1 < leftbits
      BY <1>2, <1>3
    <2>2. code' = joined /\ leftbits' = leftbits - 1 /\ UNCHANGED <<mem, cur, dropped>>
          /\ w' = w + 1 /\ sunk' = "none"
      BY <2>1 DEF W!Write1
    <2> QED BY <1>1, <2>1, <2>2, StaysHeld
  <1>4. CASE leftbits = 0
    <2>1. /\ mem' = mem /\ cur' = cur /\ dropped' = dropped \cup {"hls"}
          /\ code' \in {joined, W!Blank} /\ leftbits' = leftbits - 1 /\ w' = w + 1 /\ sunk' = "none"
      BY <1>4 DEF W!Write1
    <2>2. cur >= WriterSize /\ cur <= cur' /\ leftbits' \in -1..W!REG
      BY <1>2, <1>4, <2>1 DEF WriteInv
    <2>3. code' \in [W!Bit -> 0..MaxBits]
      BY <1>2, <2>1
    <2> HIDE DEF joined
    <2> QED BY <1>2, <2>1, <2>2, <2>3, Drops
  <1>5. CASE leftbits = 1 /\ cur >= WriterSize
    <2>1. /\ mem' = mem /\ cur' = cur /\ dropped' = dropped
          /\ code' = joined /\ leftbits' = 0 /\ w' = w + 1 /\ sunk' = "none"
      BY <1>5 DEF W!Write1
    <2>2. W!TypeOK'
      BY <1>2, <2>1 DEF WriteInv, W!TypeOK, W!REG
    <2>3. ASSUME dropped = {} PROVE Clean'
      <3>1. Clean
        BY <2>3 DEF WriteInv
      <3>2. leftbits \in 0..W!REG /\ W!Held = 63 /\ W!Held + 1 = 64
        BY <1>2, <1>5 DEF W!Held
      <3>3. Filled(joined, w - W!Held, W!Held + 1)
        BY <1>1, <1>2, <3>1, <3>2, PlacedIs DEF Clean
      <3>4. W!Held' = 64
        BY <1>2, <2>1 DEF W!Held
      <3>5. w - W!Held = (w + 1) - 64 /\ 64 <= w + 1
        BY <1>2, <3>1, <3>2 DEF Clean
      <3> QED BY <2>1, <3>1, <3>2, <3>3, <3>4, <3>5, CleanLater DEF Clean
    <2> QED BY <1>5, <2>1, <2>2, <2>3 DEF WriteInv, W!CoefOverflowSticks
  <1>6. CASE leftbits = 1 /\ ~(cur >= WriterSize) /\ W!Fits(8)
    <2>1. /\ W!Append8(joined, W!REG, 8) /\ dropped' = dropped
          /\ code' = W!Blank /\ leftbits' = W!REG /\ w' = w + 1 /\ sunk' = "none"
      BY <1>6 DEF W!Write1
    <2>2. 1 >= leftbits /\ 1 = leftbits /\ W!REG - (1 - leftbits) = W!REG
      BY <1>2, <1>6
    <2> QED BY <1>1, <1>6, <2>1, <2>2, FlushesFull
  <1>7. CASE leftbits = 1 /\ ~(cur >= WriterSize) /\ ~W!Fits(8)
    <2>1. /\ mem' = mem /\ cur' = cur /\ dropped' = dropped \cup {"hls"}
          /\ code' = W!Blank /\ leftbits' = W!REG /\ w' = w + 1 /\ sunk' = "none"
      BY <1>7 DEF W!Write1
    <2>2. cur <= cur' /\ leftbits' \in -1..W!REG /\ ~(leftbits' <= 0)
      BY <1>2, <2>1
    <2> QED BY <1>2, <2>1, <2>2, Drops
  <1> QED BY <1>1, <1>2, <1>3, <1>4, <1>5, <1>6, <1>7

\* What sink and deinit flush is all that the register holds.
LEMMA AllHeldGoes ==
  ASSUME W!WriterAssumption, WriteInv, W!Fits(W!SinkByte), leftbits > 0,
         W!Append8(code, W!Held, W!SinkByte), code' = W!Blank, leftbits' = W!REG,
         UNCHANGED <<w, dropped>>
  PROVE  /\ W!TypeOK' \/ ~(sunk' \in {"none", "NULL", "pos"})
         /\ Len(mem') <= 8 * cur' /\ cur <= cur'
         /\ dropped = {} => Clean' /\ mem' = W!AllOf(w)
  <1>1. /\ WriterSize \in Nat /\ w \in 0..MaxBits /\ leftbits \in -1..64
        /\ MaxBits \in Nat /\ w \in Nat /\ cur \in Nat /\ code \in [W!Bit -> 0..MaxBits]
    BY DEF W!WriterAssumption, WriteInv, W!TypeOK, W!REG
  <1>2. W!Held \in 0..W!REG /\ W!SinkByte \in Nat /\ W!Held <= 8 * W!SinkByte
    BY <1>1 DEF W!Held, W!SinkByte, W!REG
  <1>3. /\ mem' \in Seq(0..MaxBits) /\ Len(mem') <= 8 * WriterSize /\ Len(mem') <= 8 * cur'
        /\ cur' \in Nat /\ cur <= cur' /\ cur' <= WriterSize
        /\ mem' = mem \o SubSeq(code, 1, W!Held)
    BY <1>1, <1>2, AppendKeeps
  <1>4. W!Blank \in [W!Bit -> 0..MaxBits] /\ Filled(W!Blank, w, 0)
    BY BlankIs
  <1>5. ASSUME dropped = {} PROVE Clean' /\ mem' = W!AllOf(w)
    <2>1. leftbits \in 0..W!REG /\ Clean
      BY <1>1, <1>5 DEF WriteInv, W!REG
    <2>2. mem' = W!AllOf(w)
      BY <1>1, <1>3, <2>1, HeldIs
    <2>3. W!Held' = 0
      BY DEF W!Held, W!REG
    <2>4. w - 0 = w /\ 0 <= w /\ W!REG >= 0
      BY <1>1 DEF W!REG
    <2> QED BY <1>3, <1>4, <2>2, <2>3, <2>4, CleanLater
  <1>6. W!REG \in -1..W!REG
    BY DEF W!REG
  <1> QED BY <1>1, <1>3, <1>4, <1>5, <1>6 DEF WriteInv, W!TypeOK

\* oapv_bsw_sink, and the deinit at the end of a component.
LEMMA WriterSinkStep == ASSUME W!WriterAssumption, WriteInv, W!Sink PROVE WriteInv'
  <1>1. CASE cur + W!SinkByte < WriterSize
    <2>1. /\ cur \in Nat /\ WriterSize \in Nat /\ leftbits \in -1..64 /\ W!SinkByte \in Nat
          /\ dropped \subseteq {"hls", "coef"} /\ W!REG = 64
      BY DEF W!WriterAssumption, WriteInv, W!TypeOK, W!REG, W!SinkByte, W!Held
    <2>2. W!Fits(W!SinkByte) /\ ~(cur >= WriterSize) /\ ~(cur > WriterSize)
      BY <1>1, <2>1 DEF W!Fits
    <2>3. leftbits > 0 /\ "coef" \notin dropped
      BY <2>1, <2>2 DEF WriteInv
    <2>4. /\ W!Append8(code, W!Held, W!SinkByte) /\ code' = W!Blank /\ leftbits' = W!REG
          /\ UNCHANGED <<w, dropped>> /\ sunk' = "pos"
      BY <1>1 DEF W!Sink
    <2>5. /\ W!TypeOK' /\ Len(mem') <= 8 * cur' /\ cur <= cur'
          /\ dropped = {} => Clean' /\ mem' = W!AllOf(w)
      BY <2>2, <2>3, <2>4, AllHeldGoes
    <2>6. "hls" \notin dropped => dropped = {}
      BY <2>1, <2>3
    <2>7. ~(leftbits' <= 0)
      BY <2>1, <2>4
    <2> QED BY <2>3, <2>4, <2>5, <2>6, <2>7 DEF WriteInv, W!CoefOverflowSticks, W!AllOf
  <1>2. CASE ~(cur + W!SinkByte < WriterSize)
    BY <1>2 DEF W!Sink, WriteInv, W!CoefOverflowSticks, W!TypeOK, Clean, Filled, W!Held, W!AllOf
  <1> QED BY <1>1, <1>2

\* oapv_bsw_deinit keeps the invariant.
LEMMA DeinitStep == ASSUME W!WriterAssumption, WriteInv, W!Deinit PROVE WriteInv'
  <1>1. CASE W!Fits(W!SinkByte)
    <2>1. /\ cur \in Nat /\ WriterSize \in Nat /\ leftbits \in -1..64 /\ W!REG = 64
      BY DEF W!WriterAssumption, WriteInv, W!TypeOK, W!REG
    <2>2. W!SinkByte \in Nat /\ (leftbits <= 0 => W!SinkByte >= 8)
      BY <2>1 DEF W!SinkByte, W!Held
    <2>3. leftbits > 0
      BY <1>1, <2>1, <2>2 DEF W!Fits, WriteInv
    <2>4. /\ W!Append8(code, W!Held, W!SinkByte) /\ code' = W!Blank /\ leftbits' = W!REG
          /\ UNCHANGED <<w, dropped>> /\ sunk' = "none"
      BY <1>1 DEF W!Deinit
    <2>5. /\ W!TypeOK' /\ Len(mem') <= 8 * cur' /\ cur <= cur'
          /\ dropped = {} => Clean'
      BY <1>1, <2>3, <2>4, AllHeldGoes
    <2>6. "coef" \in dropped => cur' > WriterSize
      <3>1. ~(cur > WriterSize)
        BY <1>1, <2>1, <2>2 DEF W!Fits
      <3> QED BY <3>1 DEF WriteInv
    <2>7. ~(leftbits' <= 0)
      BY <2>1, <2>4
    <2> QED BY <2>4, <2>5, <2>6, <2>7 DEF WriteInv, W!CoefOverflowSticks
  <1>2. CASE ~W!Fits(W!SinkByte)
    BY <1>2 DEF W!Deinit, WriteInv, W!CoefOverflowSticks, W!TypeOK, Clean, Filled, W!Held, W!AllOf
  <1> QED BY <1>1, <1>2

\* A writer that has not begun.
LEMMA WriteInit == ASSUME W!WriterAssumption, W!Init PROVE WriteInv
  <1>1. /\ mem = << >> /\ cur = 0 /\ code = W!Blank /\ leftbits = W!REG
        /\ sunk = "none" /\ w = 0 /\ dropped = {}
    BY DEF W!Init
  <1>2. WriterSize \in Nat /\ MaxBits \in Nat /\ W!REG = 64
    BY DEF W!WriterAssumption, W!REG
  <1>3. mem \in Seq(0..MaxBits) /\ Len(mem) = 0
    BY <1>1
  <1>4. W!Blank \in [W!Bit -> 0..MaxBits] /\ Filled(W!Blank, 0, 0)
    BY BlankIs
  <1>5. W!TypeOK
    BY <1>1, <1>2, <1>3, <1>4 DEF W!TypeOK
  <1>6. W!Held = 0 /\ w - W!Held = 0
    BY <1>1, <1>2 DEF W!Held
  <1>7. W!AllOf(0) = << >>
    BY DEF W!AllOf
  <1>8. Clean
    BY <1>1, <1>2, <1>4, <1>6, <1>7 DEF Clean
  <1> QED BY <1>1, <1>2, <1>3, <1>5, <1>8 DEF WriteInv, W!CoefOverflowSticks

\* Nothing changes.
LEMMA WriteStutter == ASSUME WriteInv, UNCHANGED W!vars PROVE WriteInv'
  BY DEF W!vars, WriteInv, W!CoefOverflowSticks, W!TypeOK, Clean, Filled, W!Held, W!AllOf

\* A step of the writer keeps the invariant.
LEMMA WriteNext == ASSUME W!WriterAssumption, WriteInv, W!Next PROVE WriteInv'
  BY WriteStep, Write1Step, WriteCoefStep, WriterSinkStep, DeinitStep DEF W!Next

\* BsWriter keeps its invariant.
THEOREM WriterInvariance == ASSUME W!WriterAssumption PROVE W!Spec => []WriteInv
  <1>1. W!Init => WriteInv
    BY WriteInit
  <1>2. WriteInv /\ [W!Next]_(W!vars) => WriteInv'
    BY WriteNext, WriteStutter
  <1> QED BY <1>1, <1>2, PTL DEF W!Spec

\* The invariant gives the order of the bits.
LEMMA WriteInvOrders == ASSUME W!WriterAssumption, WriteInv PROVE W!BitsInOrder
  <1>1. ASSUME dropped = {}
        PROVE  /\ mem \o SubSeq(code, 1, W!Held) = W!AllOf(w)
               /\ \A q \in W!Bit : q > W!Held => code[q] = 0
               /\ Len(mem) <= 8 * cur /\ cur <= WriterSize
    <2>1. Clean /\ w \in Nat /\ leftbits \in 0..W!REG
      BY <1>1 DEF WriteInv, W!TypeOK, Clean, W!REG
    <2>2. \A q \in W!Bit : q > W!Held => ~(q <= W!Held)
      BY <2>1 DEF W!Bit, W!REG, W!Held
    <2> QED BY <2>1, <2>2, HeldIs DEF WriteInv, Clean, Filled
  <1> QED BY <1>1 DEF WriteInv, W!BitsInOrder

----------------------------------------------------------------------------
(* Params                                                                  *)

\* The smallest of a set of numbers, of two and of three.
LEMMA MinIs ==
  ASSUME NEW S, S \subseteq Nat, S # {}
  PROVE  P!Min(S) \in S /\ \A y \in S : P!Min(S) <= y
  BY LeastElement DEF P!Min

\* The smaller of two numbers.
LEMMA MinPair ==
  ASSUME NEW a \in Int, NEW b \in Int PROVE P!Min({a, b}) = IF a <= b THEN a ELSE b
  BY DEF P!Min

\* Rounding up to whole pieces and to whole macroblocks.
LEMMA RoundUpIs ==
  ASSUME NEW n \in Nat, NEW t \in Nat \ {0}
  PROVE  /\ P!RoundUp(n, t) \in Nat /\ n <= P!RoundUp(n, t) * t
         /\ n > 0 => P!RoundUp(n, t) > 0
         /\ \A k \in Nat : n <= k * t => P!RoundUp(n, t) <= k
  BY DEF P!RoundUp

\* A length rounded up to whole macroblocks.
LEMMA AlignedIs ==
  ASSUME NEW n \in Nat
  PROVE  P!Aligned(n) \in Nat /\ n <= P!Aligned(n) /\ P!Aligned(n) % 16 = 0
         /\ (n > 0 => P!Aligned(n) >= 16)
  BY DEF P!Aligned, P!RoundUp, P!MB

\* enc_update_param_tile, in one direction.
LEMMA SideIs ==
  ASSUME NEW n \in Nat \ {0}, NEW t \in Nat, t >= 16, t % 16 = 0,
         NEW least \in {128, 256}, NEW free \in BOOLEAN
  PROVE  /\ P!Side(n, t, least, free) \in Nat \ {0} /\ P!Side(n, t, least, free) % 16 = 0
         /\ ~free => /\ P!Side(n, t, least, free) >= least
                     /\ P!RoundUp(P!Aligned(n), P!Side(n, t, least, free)) <= 20
  <1> DEFINE m == P!Aligned(n)
             clamped == P!Min({t, m})
             raised == P!Max({clamped, least})
  <1>1. m \in Nat /\ m >= 16 /\ m % 16 = 0
    BY AlignedIs
  <1>2. clamped \in Nat /\ clamped >= 16 /\ clamped % 16 = 0
    BY <1>1, MinPair
  <1>3. raised \in Nat /\ raised >= least /\ raised >= 16 /\ raised % 16 = 0
    <2>1. \A a, b \in Int : P!Max({a, b}) = IF a >= b THEN a ELSE b
      BY DEF P!Max
    <2> QED BY <1>2, <2>1
  <1> DEFINE piece == P!RoundUp(m, 20)
             s == P!Fewer(m, raised)
  <1> HIDE DEF m, clamped, raised
  <1>4. piece \in Nat /\ m <= piece * 20
    BY <1>1, RoundUpIs
  <1>5. s \in Nat /\ s >= least /\ s % 16 = 0 /\ P!RoundUp(m, s) <= 20
    <2>1. CASE ~(P!RoundUp(m, raised) > 20)
      <3>1. s = raised
        BY <2>1 DEF P!Fewer, P!MAX_TILES
      <3>2. P!RoundUp(m, raised) \in Nat
        BY <1>1, <1>3, RoundUpIs
      <3> QED BY <1>3, <2>1, <3>1, <3>2
    <2>2. CASE P!RoundUp(m, raised) > 20
      <3>1. s = P!Aligned(piece)
        BY <2>2 DEF P!Fewer, P!MAX_TILES
      <3> HIDE DEF piece, s
      <3>2. s \in Nat /\ piece <= s /\ s % 16 = 0
        BY <1>4, <3>1, AlignedIs
      <3>3. m <= 20 * s
        BY <1>1, <1>4, <3>2
      <3>4. s > 0
        BY <1>1, <3>2, <3>3
      <3>5. P!RoundUp(m, s) <= 20
        BY <1>1, <3>2, <3>3, <3>4, RoundUpIs
      <3>6. m > 20 * raised
        <4>1. m <= 20 * raised => P!RoundUp(m, raised) <= 20
          BY <1>1, <1>3, RoundUpIs
        <4>2. P!RoundUp(m, raised) \in Nat
          BY <1>1, <1>3, RoundUpIs
        <4> QED BY <1>1, <1>3, <2>2, <4>1, <4>2
      <3>7. s >= raised
        BY <1>1, <1>3, <3>2, <3>3, <3>6
      <3> QED BY <1>3, <3>2, <3>5, <3>7
    <2> QED BY <2>1, <2>2
  <1>6. P!Side(n, t, least, free) = IF free THEN clamped ELSE s
    BY DEF P!Side, m, clamped, raised
  <1> HIDE DEF s
  <1> QED BY <1>2, <1>5, <1>6 DEF m

----------------------------------------------------------------------------
\* The tables.
LEMMA TablesAre ==
  /\ \A i \in P!Level, b \in P!Band : P!CodedRate(i, b) \in Nat \ {0}
  /\ \A i \in P!Level : P!MaxLuma[i] \in Nat
  <1>1. P!MaxLuma \in [1..14 -> Nat]
    BY DEF P!MaxLuma
  <1>2. P!MaxCoded \in [1..14 -> [1..4 -> Nat \ {0}]]
    BY DEF P!MaxCoded
  <1>3. \A b \in 0..3 : b + 1 \in 1..4
    OBVIOUS
  <1> QED BY <1>1, <1>2, <1>3 DEF P!CodedRate, P!Level, P!Band

\* The levels are in the order of the sample rates they admit,
LEMMA LumaGrows == \A i, j \in P!Level : i <= j => P!MaxLuma[i] <= P!MaxLuma[j]
  BY DEF P!MaxLuma, P!Level

\* each has a level_idc of its own,
LEMMA IdcTellsLevel == \A i, j \in P!Level : P!Idc(i) = P!Idc(j) => i = j
  BY DEF P!Idc, P!Level

\* and none is the 0 that stands for an automatic level.
LEMMA IdcIs == \A i \in P!Level : P!Idc(i) \in Nat \ {0}
  BY DEF P!Idc, P!Level

\* A picture that a level admits is admitted by every higher one.
LEMMA FitsHigher ==
  ASSUME NEW p \in P!Parameters, NEW i \in P!Level, NEW j \in P!Level, i <= j, P!LumaFits(p, i)
  PROVE  P!LumaFits(p, j)
  <1> DEFINE x == P!RoundUp(p.w, P!MB) * P!RoundUp(p.h, P!MB) * P!Fps(p)[1]
             d == P!Fps(p)[2]
  <1>1. P!MaxLuma[i] <= P!MaxLuma[j] /\ P!MaxLuma[i] \in Nat /\ P!MaxLuma[j] \in Nat
    BY LumaGrows, TablesAre
  <1>2. p.den > 0 => x \in Int /\ d \in Int /\ d > 0
    <2>1. /\ p.w \in Int /\ p.h \in Int /\ p.num \in Int /\ p.den \in Int
      BY DEF P!Parameters
    <2>2. P!RoundUp(p.w, P!MB) \in Int /\ P!RoundUp(p.h, P!MB) \in Int
      BY <2>1 DEF P!RoundUp, P!MB
    <2>3. P!Fps(p)[1] \in Int /\ (p.den > 0 => d \in Int /\ d > 0)
      BY <2>1 DEF P!Fps
    <2> QED BY <2>2, <2>3
  <1> DEFINE little == 256 * (x % d) < d
             q == x \div d
  <1>3. /\ P!LumaFits(p, i) <=> (p.den > 0 => q < P!MaxLuma[i] \/ (q = P!MaxLuma[i] /\ little))
        /\ P!LumaFits(p, j) <=> (p.den > 0 => q < P!MaxLuma[j] \/ (q = P!MaxLuma[j] /\ little))
    BY DEF P!LumaFits
  <1> HIDE DEF x, d
  <1>4. p.den > 0 => q \in Int
    BY <1>2
  <1> HIDE DEF q, little
  <1> QED BY <1>1, <1>3, <1>4

\* Where the search begins.
LEMMA FirstLevelIs ==
  ASSUME NEW p
  PROVE  /\ P!FirstLevel(p) \in P!Level
         /\ P!Carried(p) => /\ P!LumaFits(p, P!FirstLevel(p))
                            /\ \A i \in P!Level : P!LumaFits(p, i) => P!FirstLevel(p) <= i
  <1> DEFINE S == {i \in P!Level : P!LumaFits(p, i)}
  <1>1. S # {} => P!Min(S) \in S /\ \A i \in S : P!Min(S) <= i
    BY MinIs DEF P!Level
  <1>2. 1 \in P!Level
    BY DEF P!Level
  <1> QED BY <1>1, <1>2 DEF P!FirstLevel, P!Carried

\* The bands looked at are the one asked for, or all of them.
LEMMA BandsAre ==
  ASSUME NEW p, p.band \in P!Band \cup {P!AUTO_BAND}
  PROVE  P!Bands(p) \subseteq P!Band
  BY DEF P!Bands

\* What enc_update_param_level_band finds.
LEMMA SearchedIs ==
  ASSUME NEW p \in P!Parameters, p.band \in P!Band \cup {P!AUTO_BAND}, NEW f \in P!Level,
         NEW s, s = P!Searched(p, f), s # << >>
  PROVE  /\ s[1] \in P!Level /\ s[1] >= f /\ s[2] \in P!Band
         /\ p.bitrate <= 0 => s[1] = f /\ s[2] \in P!Bands(p)
         /\ p.bitrate > 0 /\ P!Admits(p, s[1], s[2]) =>
              /\ s[2] \in P!Bands(p)
              /\ \A j \in P!Level, b \in P!Bands(p) : j >= f /\ j < s[1] => ~P!Admits(p, j, b)
              /\ \A b \in P!Bands(p) : b < s[2] => ~P!Admits(p, s[1], b)
  <1>1. P!Bands(p) \subseteq P!Band /\ P!Bands(p) \subseteq Nat /\ P!Level \subseteq Nat /\ 2 \in P!Band
        /\ f..14 \subseteq P!Level /\ f \in Nat /\ p.bitrate \in Int
    BY BandsAre DEF P!Band, P!Level, P!Parameters
  <1> DEFINE levels == {i \in f..14 : \E b \in P!Bands(p) : P!Admits(p, i, b)}
             bands == {b \in P!Bands(p) : P!Admits(p, P!Min(levels), b)}
  <1>2. CASE p.bitrate <= 0
    <2>1. s = <<f, IF p.band = P!AUTO_BAND THEN 2 ELSE p.band>>
      BY <1>2 DEF P!Searched
    <2>2. (IF p.band = P!AUTO_BAND THEN 2 ELSE p.band) \in P!Band \cap P!Bands(p)
      BY <1>1 DEF P!Bands
    <2>3. s[1] = f /\ s[2] \in P!Band \cap P!Bands(p)
      BY <2>1, <2>2
    <2> QED BY <1>1, <1>2, <2>3
  <1>3. CASE ~(p.bitrate <= 0) /\ levels # {}
    <2>1. P!Min(levels) \in levels /\ \A j \in levels : P!Min(levels) <= j
      <3>1. levels \subseteq Nat
        BY <1>1
      <3> QED BY <1>3, <3>1, MinIs
    <2>2. bands # {} /\ bands \subseteq Nat
      BY <1>1, <2>1
    <2>3. P!Min(bands) \in bands /\ \A b \in bands : P!Min(bands) <= b
      BY <2>2, MinIs
    <2>4. s = <<P!Min(levels), P!Min(bands)>>
      BY <1>3 DEF P!Searched
    <2>5. s[1] = P!Min(levels) /\ s[2] = P!Min(bands)
      BY <2>4
    <2>6. s[1] \in f..14 /\ s[2] \in P!Bands(p) /\ bands = {b \in P!Bands(p) : P!Admits(p, s[1], b)}
      BY <2>1, <2>3, <2>5
    <2>7. ASSUME NEW j \in P!Level, NEW b \in P!Bands(p), j >= f, j < s[1] PROVE ~P!Admits(p, j, b)
      <3>1. j \in f..14
        BY <1>1, <2>7 DEF P!Level
      <3>2. j \notin levels
        BY <1>1, <2>1, <2>5, <2>6, <2>7
      <3> QED BY <3>1, <3>2
    <2>8. ASSUME NEW b \in P!Bands(p), b < s[2] PROVE ~P!Admits(p, s[1], b)
      <3>1. s[2] \in Nat /\ b \in Nat /\ ~(s[2] <= b)
        BY <1>1, <2>6, <2>8
      <3>2. b \notin bands
        BY <2>3, <2>5, <3>1
      <3> QED BY <2>6, <3>2
    <2> HIDE DEF levels, bands
    <2> QED BY <1>1, <1>3, <2>6, <2>7, <2>8
  <1>4. CASE ~(p.bitrate <= 0) /\ levels = {}
    <2>1. s = <<f, p.band>> /\ p.band # P!AUTO_BAND
      BY <1>4 DEF P!Searched
    <2>2. s[1] = f /\ s[2] = p.band /\ p.band \in P!Bands(p) /\ p.band \in P!Band
      BY <2>1 DEF P!Bands
    <2>3. f \in f..14
      BY DEF P!Level
    <2>4. ~P!Admits(p, f, p.band)
      BY <1>4, <2>2, <2>3
    <2> QED BY <1>1, <1>4, <2>2, <2>4
  <1> QED BY <1>2, <1>3, <1>4

----------------------------------------------------------------------------
\* The steps of oapve_param_update.
LEMMA TilesAre ==
  ASSUME NEW p \in P!Parameters, P!Tiles(p).ret = "OK"
  PROVE  LET q == P!Tiles(p).p
         IN  /\ q = [p EXCEPT !.tw = q.tw, !.th = q.th] /\ q \in P!Parameters
             /\ p.w \in Nat \ {0} /\ p.h \in Nat \ {0}
             /\ q.tw % 16 = 0 /\ q.th % 16 = 0 /\ q.tw > 0 /\ q.th > 0
             /\ ~P!Unconstrained(p.profile) =>
                  /\ q.tw >= 256 /\ q.th >= 128
                  /\ P!RoundUp(P!Aligned(p.w), q.tw) <= 20
                  /\ P!RoundUp(P!Aligned(p.h), q.th) <= 20
  <1> DEFINE free == P!Unconstrained(p.profile)
             a == P!Side(p.w, p.tw, 256, free)
             b == P!Side(p.h, p.th, 128, free)
  <1>1. /\ P!SizeOk(p.w) /\ P!SizeOk(p.h)
        /\ p.tw % P!MB = 0 /\ p.th % P!MB = 0 /\ p.tw >= P!MB /\ p.th >= P!MB
        /\ P!Tiles(p).p = [p EXCEPT !.tw = a, !.th = b]
    BY DEF P!Tiles, P!Err, P!Fine
  <1>2. p.w \in Int /\ p.h \in Int /\ p.tw \in Int /\ p.th \in Int
    BY DEF P!Parameters
  <1>3. /\ p.w \in Nat \ {0} /\ p.h \in Nat \ {0} /\ p.tw \in Nat /\ p.th \in Nat
        /\ p.tw >= 16 /\ p.th >= 16 /\ p.tw % 16 = 0 /\ p.th % 16 = 0
    BY <1>1, <1>2 DEF P!SizeOk, P!MB
  <1>4. free \in BOOLEAN
    BY DEF P!Unconstrained
  <1> HIDE DEF free
  <1> HIDE DEF a, b
  <1>5. /\ a \in Nat \ {0} /\ a % 16 = 0
        /\ ~free => a >= 256 /\ P!RoundUp(P!Aligned(p.w), a) <= 20
    <2> DEFINE n == p.w
               t == p.tw
    <2>1. n \in Nat \ {0} /\ t \in Nat /\ t >= 16 /\ t % 16 = 0
      BY <1>3
    <2> HIDE DEF n, t
    <2>2. /\ P!Side(n, t, 256, free) \in Nat \ {0} /\ P!Side(n, t, 256, free) % 16 = 0
          /\ ~free => /\ P!Side(n, t, 256, free) >= 256
                      /\ P!RoundUp(P!Aligned(n), P!Side(n, t, 256, free)) <= 20
      BY <1>4, <2>1, SideIs
    <2> QED BY <2>2 DEF a, n, t
  <1>6. /\ b \in Nat \ {0} /\ b % 16 = 0
        /\ ~free => b >= 128 /\ P!RoundUp(P!Aligned(p.h), b) <= 20
    <2> DEFINE n == p.h
               t == p.th
    <2>1. n \in Nat \ {0} /\ t \in Nat /\ t >= 16 /\ t % 16 = 0
      BY <1>3
    <2> HIDE DEF n, t
    <2>2. /\ P!Side(n, t, 128, free) \in Nat \ {0} /\ P!Side(n, t, 128, free) % 16 = 0
          /\ ~free => /\ P!Side(n, t, 128, free) >= 128
                      /\ P!RoundUp(P!Aligned(n), P!Side(n, t, 128, free)) <= 20
      BY <1>4, <2>1, SideIs
    <2> QED BY <2>2 DEF b, n, t
  <1>7. [p EXCEPT !.tw = a, !.th = b] \in P!Parameters
    <2>1. a \in Int /\ b \in Int
      BY <1>5, <1>6
    <2> QED BY <2>1 DEF P!Parameters
  <1>8. [p EXCEPT !.tw = a, !.th = b].tw = a /\ [p EXCEPT !.tw = a, !.th = b].th = b
    BY DEF P!Parameters
  <1> QED BY <1>1, <1>3, <1>5, <1>6, <1>7, <1>8 DEF free

\* What enc_update_param_rc settles.
LEMMA ControlledIs ==
  ASSUME NEW p \in P!Parameters
  PROVE  LET q == P!Controlled(p)
         IN  /\ q = [p EXCEPT !.rc = q.rc] /\ q \in P!Parameters
             /\ q.rc = "CQP" => p.qp # P!AUTO_QP
  BY DEF P!Controlled, P!Parameters

\* What enc_update_param_level_band leaves in the parameters.
LEMMA LevelBandIs ==
  ASSUME NEW p \in P!Parameters, P!LevelBand(p).ret = "OK"
  PROVE  LET q == P!LevelBand(p).p
             s == P!Searched(p, P!FirstLevel(p))
         IN  /\ q = [p EXCEPT !.band = s[2], !.level = q.level] /\ q \in P!Parameters
             /\ s # << >> /\ q.band = s[2] /\ q.band \in P!Band
             /\ s[1] \in P!Level
             /\ p.band \in P!Band \cup {P!AUTO_BAND}
             /\ p.level = P!AUTO_LEVEL => q.level = P!Idc(s[1])
             /\ p.rc = "ABR" => p.num > 0 /\ p.den > 0
  <1> DEFINE s == P!Searched(p, P!FirstLevel(p))
             q == P!LevelBand(p).p
  <1>1. /\ p.band \in P!Band \cup {P!AUTO_BAND}
        /\ p.rc = "ABR" => p.num > 0 /\ p.den > 0
        /\ P!LevelBand(p) = P!Chosen(p, s)
    BY DEF P!LevelBand, P!Err
  <1>2. s # << >> /\ q = [p EXCEPT !.band = s[2], !.level = IF p.level = P!AUTO_LEVEL THEN P!Idc(s[1]) ELSE p.level]
    BY <1>1 DEF P!Chosen, P!Err, P!Fine, P!Parameters
  <1>3. P!FirstLevel(p) \in P!Level
    BY FirstLevelIs
  <1>4. s[1] \in P!Level /\ s[2] \in P!Band
    BY <1>1, <1>2, <1>3, SearchedIs
  <1>5. P!Idc(s[1]) \in Int /\ s[2] \in Int /\ p.level \in Int
    BY <1>4, IdcIs DEF P!Band, P!Parameters
  <1> HIDE DEF s, q
  <1>6. q \in P!Parameters
    BY <1>2, <1>5 DEF P!Parameters
  <1>7. q.band = s[2] /\ q.level = (IF p.level = P!AUTO_LEVEL THEN P!Idc(s[1]) ELSE p.level)
    BY <1>2 DEF P!Parameters
  <1> QED BY <1>1, <1>2, <1>4, <1>6, <1>7 DEF s, q

\* What enc_update_param_bitrate admits.
LEMMA BitrateIs ==
  ASSUME NEW p \in P!Parameters, p.band \in P!Band, P!Bitrate(p).ret = "OK"
  PROVE  LET q == P!Bitrate(p).p
         IN  /\ q = [p EXCEPT !.bitrate = q.bitrate] /\ q \in P!Parameters
             /\ \E i \in P!Level :
                  /\ P!Idc(i) = p.level
                  /\ p.bitrate <= P!CodedRate(i, p.band) /\ q.bitrate <= P!CodedRate(i, p.band)
             /\ p.bitrate >= 0 /\ p.rc = "ABR" => q.bitrate > 0
  <1>1. \E i \in P!Level : P!Idc(i) = p.level
    BY DEF P!Bitrate, P!Err
  <1> DEFINE i == CHOOSE k \in P!Level : P!Idc(k) = p.level
             most == P!CodedRate(i, p.band)
             q == P!Bitrate(p).p
  <1>2. i \in P!Level /\ P!Idc(i) = p.level
    BY <1>1
  <1>3. most \in Nat \ {0} /\ p.bitrate \in Int
    BY <1>2, TablesAre DEF P!Parameters
  <1> HIDE DEF i
  <1>4. P!Bitrate(p) = IF p.bitrate = 0 /\ p.rc = "ABR" THEN P!Fine([p EXCEPT !.bitrate = most])
                       ELSE IF p.bitrate > most THEN P!Err(p, "INVALID_LEVEL") ELSE P!Fine(p)
    BY <1>1 DEF P!Bitrate, i
  <1> HIDE DEF most
  <1>5. CASE p.bitrate = 0 /\ p.rc = "ABR"
    <2>1. q = [p EXCEPT !.bitrate = most]
      BY <1>4, <1>5 DEF P!Fine
    <2>2. q \in P!Parameters /\ q.bitrate = most
      BY <1>3, <2>1 DEF P!Parameters
    <2>3. most <= most /\ 0 <= most /\ most > 0
      BY <1>3
    <2> QED BY <1>2, <1>5, <2>1, <2>2, <2>3 DEF most
  <1>6. CASE ~(p.bitrate = 0 /\ p.rc = "ABR")
    <2>1. q = p /\ ~(p.bitrate > most)
      BY <1>4, <1>6 DEF P!Fine, P!Err
    <2>2. p.bitrate <= most /\ (p.bitrate >= 0 /\ p.bitrate # 0 => p.bitrate > 0)
      BY <1>3, <2>1
    <2>3. p = [p EXCEPT !.bitrate = p.bitrate]
      BY DEF P!Parameters
    <2> QED BY <1>2, <1>6, <2>1, <2>2, <2>3 DEF most
  <1> QED BY <1>5, <1>6

----------------------------------------------------------------------------
\* oapve_param_update runs its steps one after the other.
LEMMA UpdatedIs ==
  ASSUME NEW p \in P!Parameters, P!Updated(p).ret = "OK",
         NEW q, q = P!Tiles(p).p, NEW r, r = P!Controlled(q),
         NEW s, s = P!LevelBand(r).p, NEW e, e = P!Updated(p).p
  PROVE  /\ P!Tiles(p).ret = "OK" /\ P!LevelBand(r).ret = "OK" /\ P!Bitrate(s).ret = "OK"
         /\ e = P!Bitrate(s).p
  <1>1. P!Updated(p) = IF P!Tiles(p).ret = "OK"
                       THEN IF P!LevelBand(r).ret = "OK" THEN P!Bitrate(s) ELSE P!LevelBand(r)
                       ELSE P!Tiles(p)
    BY DEF P!Updated, P!Then, P!Fine
  <1> QED BY <1>1

\* What an instance is created with, and what of it was given.
LEMMA CreatedIs ==
  ASSUME NEW p \in P!Parameters, P!Updated(p).ret = "OK",
         NEW e, e = P!Updated(p).p
  PROVE  /\ e \in P!Parameters
         /\ e.w = p.w /\ e.h = p.h /\ e.profile = p.profile
         /\ p.w \in Nat \ {0} /\ p.h \in Nat \ {0}
         /\ e.tw % 16 = 0 /\ e.th % 16 = 0 /\ e.tw > 0 /\ e.th > 0
         /\ ~P!Unconstrained(e.profile) =>
              /\ e.tw >= 256 /\ e.th >= 128
              /\ P!RoundUp(P!Aligned(e.w), e.tw) <= 20 /\ P!RoundUp(P!Aligned(e.h), e.th) <= 20
         /\ e.band \in P!Band
         /\ \E i \in P!Level : /\ P!Idc(i) = e.level
                               /\ p.bitrate <= P!CodedRate(i, e.band)
                               /\ e.bitrate <= P!CodedRate(i, e.band)
         /\ p.bitrate >= 0 /\ e.rc = "ABR" => e.bitrate > 0
         /\ e.rc = "ABR" => e.num > 0 /\ e.den > 0
         /\ e.rc = "CQP" => e.qp # P!AUTO_QP
  <1> DEFINE q == P!Tiles(p).p
             r == P!Controlled(q)
             s == P!LevelBand(r).p
  <1>1. /\ P!Tiles(p).ret = "OK" /\ P!LevelBand(r).ret = "OK" /\ P!Bitrate(s).ret = "OK"
        /\ e = P!Bitrate(s).p
    BY UpdatedIs
  <1>2. /\ q = [p EXCEPT !.tw = q.tw, !.th = q.th] /\ q \in P!Parameters
        /\ p.w \in Nat \ {0} /\ p.h \in Nat \ {0}
        /\ q.tw % 16 = 0 /\ q.th % 16 = 0 /\ q.tw > 0 /\ q.th > 0
        /\ ~P!Unconstrained(p.profile) =>
             /\ q.tw >= 256 /\ q.th >= 128
             /\ P!RoundUp(P!Aligned(p.w), q.tw) <= 20 /\ P!RoundUp(P!Aligned(p.h), q.th) <= 20
    BY <1>1, TilesAre
  <1> HIDE DEF q
  <1>3. /\ r = [q EXCEPT !.rc = r.rc] /\ r \in P!Parameters
        /\ r.rc = "CQP" => q.qp # P!AUTO_QP
    BY <1>2, ControlledIs
  <1> HIDE DEF r
  <1>4. /\ s = [r EXCEPT !.band = s.band, !.level = s.level] /\ s \in P!Parameters
        /\ s.band \in P!Band
        /\ r.rc = "ABR" => r.num > 0 /\ r.den > 0
    BY <1>1, <1>3, LevelBandIs
  <1> HIDE DEF s
  <1>5. /\ e = [s EXCEPT !.bitrate = e.bitrate] /\ e \in P!Parameters
        /\ \E i \in P!Level :
             /\ P!Idc(i) = s.level
             /\ s.bitrate <= P!CodedRate(i, s.band) /\ e.bitrate <= P!CodedRate(i, s.band)
        /\ s.bitrate >= 0 /\ s.rc = "ABR" => e.bitrate > 0
    BY <1>1, <1>4, BitrateIs
  <1>6. /\ q.w = p.w /\ q.h = p.h /\ q.profile = p.profile /\ q.qp = p.qp /\ q.num = p.num
        /\ q.den = p.den /\ q.bitrate = p.bitrate
    BY <1>2 DEF P!Parameters
  <1>7. /\ r.w = q.w /\ r.h = q.h /\ r.profile = q.profile /\ r.qp = q.qp /\ r.num = q.num
        /\ r.den = q.den /\ r.bitrate = q.bitrate /\ r.tw = q.tw /\ r.th = q.th
    BY <1>2, <1>3 DEF P!Parameters
  <1>8. /\ s.w = r.w /\ s.h = r.h /\ s.profile = r.profile /\ s.qp = r.qp /\ s.num = r.num
        /\ s.den = r.den /\ s.bitrate = r.bitrate /\ s.tw = r.tw /\ s.th = r.th /\ s.rc = r.rc
    BY <1>3, <1>4 DEF P!Parameters
  <1>9. /\ e.w = s.w /\ e.h = s.h /\ e.profile = s.profile /\ e.qp = s.qp /\ e.num = s.num
        /\ e.den = s.den /\ e.tw = s.tw /\ e.th = s.th /\ e.rc = s.rc
        /\ e.band = s.band /\ e.level = s.level
    BY <1>4, <1>5 DEF P!Parameters
  <1>10. /\ e.w = p.w /\ e.h = p.h /\ e.profile = p.profile /\ e.tw = q.tw /\ e.th = q.th
         /\ s.bitrate = p.bitrate /\ e.qp = q.qp /\ e.rc = r.rc /\ e.num = r.num /\ e.den = r.den
    BY <1>6, <1>7, <1>8, <1>9
  <1>11. \E i \in P!Level : /\ P!Idc(i) = e.level
                            /\ p.bitrate <= P!CodedRate(i, e.band)
                            /\ e.bitrate <= P!CodedRate(i, e.band)
    BY <1>5, <1>9, <1>10
  <1>12. /\ p.bitrate >= 0 /\ e.rc = "ABR" => e.bitrate > 0
         /\ e.rc = "ABR" => e.num > 0 /\ e.den > 0
         /\ e.rc = "CQP" => e.qp # P!AUTO_QP
         /\ e.band \in P!Band
    BY <1>3, <1>4, <1>5, <1>8, <1>9, <1>10
  <1> QED BY <1>2, <1>5, <1>10, <1>11, <1>12

\* The level and the band of an instance whose level was left to it.
LEMMA LevelIsLowest ==
  ASSUME NEW p \in P!Parameters, P!Updated(p).ret = "OK",
         NEW e, e = P!Updated(p).p, p.level = P!AUTO_LEVEL, P!Carried(p)
  PROVE  \E i \in P!Level :
           /\ P!Idc(i) = e.level /\ P!Suffices(p, i, e.band)
           /\ \A j \in 1..(i - 1), b \in P!Bands(p) : ~P!Suffices(p, j, b)
           /\ p.bitrate > 0 => \A b \in P!Bands(p) : b < e.band => ~P!Admits(p, i, b)
  <1> DEFINE q == P!Tiles(p).p
             r == P!Controlled(q)
             s == P!LevelBand(r).p
             f == P!FirstLevel(r)
             t == P!Searched(r, f)
  <1>1. /\ P!Tiles(p).ret = "OK" /\ P!LevelBand(r).ret = "OK" /\ P!Bitrate(s).ret = "OK"
        /\ e = P!Bitrate(s).p
    BY UpdatedIs
  <1>2. q = [p EXCEPT !.tw = q.tw, !.th = q.th] /\ q \in P!Parameters
    BY <1>1, TilesAre
  <1> HIDE DEF q
  <1>3. r = [q EXCEPT !.rc = r.rc] /\ r \in P!Parameters
    BY <1>2, ControlledIs
  <1> HIDE DEF r
  <1>4. /\ s = [r EXCEPT !.band = t[2], !.level = s.level] /\ s \in P!Parameters
        /\ t # << >> /\ s.band = t[2] /\ s.band \in P!Band
        /\ r.band \in P!Band \cup {P!AUTO_BAND}
        /\ r.level = P!AUTO_LEVEL => s.level = P!Idc(t[1])
    BY <1>1, <1>3, LevelBandIs
  <1>5. f \in P!Level
        /\ (P!Carried(r) => /\ P!LumaFits(r, f)
                            /\ \A i \in P!Level : P!LumaFits(r, i) => f <= i)
    BY FirstLevelIs
  <1> HIDE DEF s, f
  <1>6. /\ t[1] \in P!Level /\ t[1] >= f /\ t[2] \in P!Band
        /\ r.bitrate <= 0 => t[1] = f /\ t[2] \in P!Bands(r)
        /\ r.bitrate > 0 /\ P!Admits(r, t[1], t[2]) =>
             /\ t[2] \in P!Bands(r)
             /\ \A j \in P!Level, b \in P!Bands(r) : j >= f /\ j < t[1] => ~P!Admits(r, j, b)
             /\ \A b \in P!Bands(r) : b < t[2] => ~P!Admits(r, t[1], b)
    BY <1>3, <1>4, <1>5, SearchedIs
  <1> HIDE DEF t
  <1>7. /\ e = [s EXCEPT !.bitrate = e.bitrate]
        /\ \E i \in P!Level : P!Idc(i) = s.level /\ s.bitrate <= P!CodedRate(i, s.band)
    BY <1>1, <1>4, BitrateIs
  <1>8. /\ q.w = p.w /\ q.h = p.h /\ q.num = p.num /\ q.den = p.den /\ q.bitrate = p.bitrate
        /\ q.band = p.band /\ q.level = p.level
    BY <1>2 DEF P!Parameters
  <1>9. /\ r.w = p.w /\ r.h = p.h /\ r.num = p.num /\ r.den = p.den /\ r.bitrate = p.bitrate
        /\ r.band = p.band /\ r.level = p.level
    BY <1>2, <1>3, <1>8 DEF P!Parameters
  <1>10. s.bitrate = r.bitrate
    BY <1>3, <1>4 DEF P!Parameters
  <1>11. e.band = t[2] /\ e.level = P!Idc(t[1])
    BY <1>4, <1>7, <1>9 DEF P!Parameters
  <1>12. /\ \A i : P!LumaFits(r, i) <=> P!LumaFits(p, i)
         /\ \A i, b : P!Admits(r, i, b) <=> P!Admits(p, i, b)
         /\ P!Bands(r) = P!Bands(p)
    BY <1>9 DEF P!LumaFits, P!Fps, P!Admits, P!Bands
  <1>13. P!Carried(r)
    BY <1>12 DEF P!Carried
  <1>14. P!Admits(p, t[1], t[2])
    <2>1. PICK i \in P!Level : P!Idc(i) = s.level /\ s.bitrate <= P!CodedRate(i, s.band)
      BY <1>7
    <2>2. i = t[1]
      BY <1>4, <1>6, <1>9, <2>1, IdcTellsLevel
    <2> QED BY <1>4, <1>9, <1>10, <2>1, <2>2 DEF P!Admits
  <1>15. P!LumaFits(p, t[1])
    <2>1. f <= t[1]
      BY <1>5, <1>6 DEF P!Level
    <2> QED BY <1>3, <1>5, <1>6, <1>12, <1>13, <2>1, FitsHigher
  <1>16. ASSUME NEW j \in 1..(t[1] - 1), NEW b \in P!Bands(p) PROVE ~P!Suffices(p, j, b)
    <2>1. j \in P!Level /\ j < t[1] /\ j \in Nat /\ f \in Nat
      BY <1>5, <1>6, <1>16 DEF P!Level
    <2>2. CASE j < f
      <3>1. ~(f <= j)
        BY <2>1, <2>2
      <3> QED BY <1>5, <1>12, <1>13, <2>1, <3>1 DEF P!Suffices
    <2>3. CASE j >= f
      <3>1. p.bitrate \in Int
        BY DEF P!Parameters
      <3>2. p.bitrate > 0
        BY <1>6, <1>9, <2>1, <2>3, <3>1
      <3>3. ~P!Admits(p, j, b)
        BY <1>6, <1>9, <1>12, <1>14, <2>1, <2>3, <3>2
      <3> QED BY <3>2, <3>3 DEF P!Suffices
    <2> QED BY <2>1, <2>2, <2>3
  <1>17. p.bitrate > 0 => \A b \in P!Bands(p) : b < e.band => ~P!Admits(p, t[1], b)
    BY <1>6, <1>9, <1>11, <1>12, <1>14
  <1> QED BY <1>6, <1>11, <1>14, <1>15, <1>16, <1>17 DEF P!Suffices

----------------------------------------------------------------------------
\* The record of the application keeps its types, an instance that has not
\* been reconfigured is what oapve_param_update makes of that record, and no
\* configuration touches its tiles.
ParamsInv ==
  /\ param \in P!Parameters
  /\ enc # NoEncoder => enc \in P!Parameters
  /\ P!TileGrid
  /\ P!Fresh => P!Updated(param).ret = "OK" /\ enc = P!Updated(param).p

\* The values the options are given are numbers.
LEMMA WordsAre ==
  /\ \A x \in DOMAIN P!Presets : P!Presets[x] \in Int
  /\ \A x \in DOMAIN P!Colours : P!Colours[x] \in Int
  BY DEF P!Presets, P!Colours

\* A number with K, M or G behind it.
LEMMA KbpsIs ==
  ASSUME NEW v, v.kind \in {"int", "rate"} => v.a \in Int /\ v.b \in Int
  PROVE  P!Kbps(v) \in Int
  BY DEF P!Kbps

\* A scaled number is a number, and not negative when its parts are not.
LEMMA MulDivIs ==
  ASSUME NEW a \in Int, NEW b \in Int, NEW c \in Nat \ {0}
  PROVE  P!MulDiv(a, b, c) \in Int /\ (a >= 0 /\ b >= 0 => P!MulDiv(a, b, c) >= 0)
  <1>1. a \div c \in Int /\ a % c \in 0..(c - 1) /\ (a >= 0 => a \div c >= 0)
    OBVIOUS
  <1>2. \A x, y \in Int : x * y \in Int /\ (x >= 0 /\ y >= 0 => x * y >= 0)
    OBVIOUS
  <1> DEFINE x == (a \div c) * b
             y == (a % c) * b
  <1>3. /\ x \in Int /\ (a >= 0 /\ b >= 0 => x >= 0)
        /\ y \in Int /\ (a >= 0 /\ b >= 0 => y >= 0)
    BY <1>1, <1>2
  <1> HIDE DEF x, y
  <1>4. y \div c \in Int /\ (y >= 0 => y \div c >= 0)
    BY <1>3
  <1>5. P!MulDiv(a, b, c) = x + y \div c
    BY DEF P!MulDiv, x, y
  <1> QED BY <1>3, <1>4, <1>5

\* get_key_bitrate: a picture lies between two entries of the table.
LEMMA KeyIs == ASSUME NEW m \in Nat PROVE P!Key(m) \in Int
  <1>1. \A k \in 1..6 : P!Family[k][1] \in Nat /\ P!Family[k][2] \in Nat
    BY DEF P!Family
  <1>2. P!Family[1][1] = 0 /\ \A k \in 2..6 : P!Family[k][1] > P!Family[k - 1][1]
    BY DEF P!Family
  <1>3. CASE \E k \in 1..6 : m < P!Family[k][1]
    <2> DEFINE S == {k \in 1..6 : m < P!Family[k][1]}
               n == P!Min(S)
    <2>1. n \in S
      BY <1>3, MinIs
    <2> DEFINE hi == P!Family[n]
               lo == P!Family[n - 1]
    <2>2. P!Key(m) = 1000 * lo[2] + P!MulDiv((hi[2] - lo[2]) * (m - lo[1]), 1000, hi[1] - lo[1])
      BY <1>3 DEF P!Key
    <2> HIDE DEF n
    <2>3. n \in 2..6 /\ n - 1 \in 1..6
      BY <1>2, <2>1
    <2>4. /\ lo[1] \in Nat /\ lo[2] \in Nat /\ hi[1] \in Nat /\ hi[2] \in Nat /\ hi[1] > lo[1]
      BY <1>1, <1>2, <2>3
    <2> HIDE DEF hi, lo
    <2>5. hi[1] - lo[1] \in Nat \ {0} /\ (hi[2] - lo[2]) * (m - lo[1]) \in Int /\ 1000 * lo[2] \in Int
      BY <2>4
    <2>6. P!MulDiv((hi[2] - lo[2]) * (m - lo[1]), 1000, hi[1] - lo[1]) \in Int
      BY <2>5, MulDivIs
    <2> QED BY <2>2, <2>5, <2>6
  <1>4. CASE ~\E k \in 1..6 : m < P!Family[k][1]
    BY <1>4, MulDivIs DEF P!Key
  <1> QED BY <1>3, <1>4

\* oapve_family_bitrate
LEMMA FamilyIs ==
  ASSUME NEW p \in P!Parameters, p.w > 0, p.h > 0, p.num > 0, p.den > 0,
         NEW f \in DOMAIN P!Ratio
  PROVE  P!FamilyKbps(f, p) \in Int
  <1>1. p.w \in Nat /\ p.h \in Nat /\ p.num \in Nat /\ p.den \in Nat \ {0}
    BY DEF P!Parameters
  <1> DEFINE m == P!MulDiv(p.w, p.h, 256)
             a == P!Ratio[f][1]
             b == P!Ratio[f][2]
             x == P!MulDiv(P!Key(m), a, b)
  <1>2. m \in Nat
    <2>1. 256 \in Nat \ {0} /\ p.w \in Int /\ p.h \in Int /\ p.w >= 0 /\ p.h >= 0
      BY <1>1
    <2>2. m \in Int /\ m >= 0
      BY <2>1, MulDivIs
    <2> QED BY <2>2
  <1>3. a \in Int /\ b \in Nat \ {0}
    BY DEF P!Ratio
  <1> HIDE DEF m, a, b
  <1>4. x \in Int
    BY <1>2, <1>3, KeyIs, MulDivIs
  <1>5. P!Fps(p)[1] \in Int /\ 30 * P!Fps(p)[2] \in Nat \ {0}
    BY <1>1 DEF P!Fps
  <1>6. P!FamilyKbps(f, p) = P!MulDiv(x, P!Fps(p)[1], 30 * P!Fps(p)[2])
    BY DEF P!FamilyKbps, m, a, b
  <1> HIDE DEF x
  <1> QED BY <1>4, <1>5, <1>6, MulDivIs

----------------------------------------------------------------------------
\* oapve_param_parse keeps the types of the record.
LEMMA AssignedIs ==
  ASSUME NEW p \in P!Parameters, NEW name, NEW v,
         v.kind \in {"int", "real", "frac", "rate"} => v.a \in Int /\ v.b \in Int
  PROVE  /\ P!Accepted(name, v) => P!Assigned(p, name, v) \in P!Parameters
         /\ P!Refused(p, name, v) \in P!Parameters
  <1>1. P!Kbps(v) \in Int
    BY KbpsIs
  <1>2. P!Refused(p, name, v) \in P!Parameters
    BY <1>1 DEF P!Refused, P!Parameters
  <1> DEFINE Goal == P!Assigned(p, name, v) \in P!Parameters
  <1> SUFFICES ASSUME P!Accepted(name, v) PROVE Goal
    BY <1>2
  <1>3. CASE name = "profile"
    <2>1. v.a \in DOMAIN P!Profiles
      BY <1>3 DEF P!Accepted
    <2>2. P!Assigned(p, name, v) = [p EXCEPT !.profile = P!Profiles[v.a]]
      BY <1>3 DEF P!Assigned
    <2> QED BY <2>1, <2>2 DEF P!Parameters
  <1>4. CASE name = "level"
    <2>1. v.kind # "auto" => 3 * P!Tenths(v) \in Int
      BY <1>4 DEF P!Accepted, P!IsReal, P!Tenths
    <2>2. P!Assigned(p, name, v)
            = [p EXCEPT !.level = IF v.kind = "auto" THEN P!AUTO_LEVEL ELSE 3 * P!Tenths(v)]
      BY <1>4 DEF P!Assigned
    <2> QED BY <2>1, <2>2 DEF P!Parameters, P!AUTO_LEVEL
  <1>5. CASE name = "band"
    <2>1. v.kind # "auto" => v.a \in Int
      BY <1>5 DEF P!Accepted, P!IsInt
    <2>2. P!Assigned(p, name, v) = [p EXCEPT !.band = IF v.kind = "auto" THEN P!AUTO_BAND ELSE v.a]
      BY <1>5 DEF P!Assigned
    <2> QED BY <2>1, <2>2 DEF P!Parameters, P!AUTO_BAND
  <1>6. CASE name = "preset"
    <2>1. P!Presets[v.a] \in Int
      BY <1>6, WordsAre DEF P!Accepted
    <2>2. P!Assigned(p, name, v) = [p EXCEPT !.preset = P!Presets[v.a]]
      BY <1>6 DEF P!Assigned
    <2> QED BY <2>1, <2>2 DEF P!Parameters
  <1>7. CASE name \in {"width", "height"}
    <2>1. v.a \in Int
      BY <1>7 DEF P!Accepted, P!IsInt
    <2>2. \/ P!Assigned(p, name, v) = [p EXCEPT !.w = v.a]
          \/ P!Assigned(p, name, v) = [p EXCEPT !.h = v.a]
      BY <1>7 DEF P!Assigned
    <2> QED BY <2>1, <2>2 DEF P!Parameters
  <1>8. CASE name = "fps"
    <2>1. P!Rate(v)[1] \in Int /\ P!Rate(v)[2] \in Int
      BY <1>8 DEF P!Accepted, P!IsInt, P!Rate
    <2>2. P!Assigned(p, name, v) = [p EXCEPT !.num = P!Rate(v)[1], !.den = P!Rate(v)[2]]
      BY <1>8 DEF P!Assigned
    <2> QED BY <2>1, <2>2 DEF P!Parameters
  <1>9. CASE name = "qp"
    <2>1. v.kind # "auto" => v.a \in Int
      BY <1>9 DEF P!Accepted, P!IsInt
    <2>2. P!Assigned(p, name, v)
            = IF v.kind = "auto" THEN [p EXCEPT !.qp = P!AUTO_QP, !.rc = "ABR"]
              ELSE [p EXCEPT !.qp = v.a, !.rc = "CQP"]
      BY <1>9 DEF P!Assigned
    <2>3. [p EXCEPT !.qp = P!AUTO_QP, !.rc = "ABR"] \in P!Parameters
      <3>1. P!AUTO_QP \in Int
        BY DEF P!AUTO_QP
      <3> QED BY <3>1 DEF P!Parameters
    <2>4. v.a \in Int => [p EXCEPT !.qp = v.a, !.rc = "CQP"] \in P!Parameters
      BY DEF P!Parameters
    <2> QED BY <2>1, <2>2, <2>3, <2>4
  <1>10. CASE name = "qp-offset"
    <2>1. v.a \in Int
      BY <1>10 DEF P!Accepted, P!IsInt
    <2>2. P!Assigned(p, name, v) = [p EXCEPT !.offset = v.a]
      BY <1>10 DEF P!Assigned
    <2> QED BY <2>1, <2>2 DEF P!Parameters
  <1>11. CASE name = "bitrate"
    <2>1. P!Assigned(p, name, v) = [p EXCEPT !.bitrate = P!Kbps(v), !.rc = "ABR"]
      BY <1>11 DEF P!Assigned
    <2> QED BY <1>1, <2>1 DEF P!Parameters
  <1>12. CASE name = "q-matrix"
    <2>1. P!Assigned(p, name, v) = [p EXCEPT !.matrix = TRUE]
      BY <1>12 DEF P!Assigned
    <2> QED BY <2>1 DEF P!Parameters
  <1>13. CASE name \in {"tile-w", "tile-h"}
    <2>1. v.a \in Int
      BY <1>13 DEF P!Accepted, P!TileSide, P!IsInt
    <2>2. \/ P!Assigned(p, name, v) = [p EXCEPT !.tw = v.a]
          \/ P!Assigned(p, name, v) = [p EXCEPT !.th = v.a]
      BY <1>13 DEF P!Assigned
    <2> QED BY <2>1, <2>2 DEF P!Parameters
  <1>14. CASE name = "color"
    <2>1. P!Colours[v.a] \in Int
      BY <1>14, WordsAre DEF P!Accepted
    <2>2. P!Assigned(p, name, v) = [p EXCEPT !.colour = P!Colours[v.a], !.described = TRUE]
      BY <1>14 DEF P!Assigned
    <2> QED BY <2>1, <2>2 DEF P!Parameters
  <1>15. name \in {"profile", "level", "band", "preset", "width", "height", "fps", "qp", "qp-offset",
                  "bitrate", "q-matrix", "tile-w", "tile-h", "color"}
    BY DEF P!Accepted
  <1> QED BY <1>3, <1>4, <1>5, <1>6, <1>7, <1>8, <1>9, <1>10, <1>11, <1>12, <1>13, <1>14, <1>15

\* An application that has only asked for the defaults.
LEMMA InitIs == ASSUME P!ParamsAssumption, P!Init PROVE ParamsInv
  <1>1. PICK pic \in Pictures :
          param = [P!Default EXCEPT !.w = pic.w, !.h = pic.h, !.num = pic.num, !.den = pic.den]
    BY DEF P!Init
  <1>2. pic.w \in Int /\ pic.h \in Int /\ pic.num \in Int /\ pic.den \in Int
    BY DEF P!ParamsAssumption
  <1>3. P!Default \in P!Parameters
    BY DEF P!Default, P!Parameters, P!AUTO_LEVEL, P!AUTO_BAND, P!AUTO_QP, P!MB
  <1>4. param \in P!Parameters
    BY <1>1, <1>2, <1>3 DEF P!Parameters
  <1>5. enc = NoEncoder
    BY DEF P!Init
  <1> QED BY <1>4, <1>5 DEF ParamsInv, P!TileGrid, P!Fresh

\* oapve_param_parse keeps the invariant.
LEMMA ParseIs ==
  ASSUME P!ParamsAssumption, ParamsInv, NEW name \in DOMAIN Values, NEW v \in Values[name],
         P!Parse(name, v)
  PROVE  ParamsInv'
  <1>1. v.kind \in {"int", "real", "frac", "rate"} => v.a \in Int /\ v.b \in Int
    BY DEF P!ParamsAssumption
  <1>2. param' \in P!Parameters
    BY <1>1, AssignedIs DEF P!Parse, ParamsInv
  <1>3. enc' = NoEncoder
    BY DEF P!Parse
  <1> QED BY <1>2, <1>3 DEF ParamsInv, P!TileGrid, P!Fresh

\* oapve_family_bitrate keeps the invariant.
LEMMA SetFamilyIs ==
  ASSUME P!ParamsAssumption, ParamsInv, NEW f \in DOMAIN P!Ratio, P!SetFamily(f)
  PROVE  ParamsInv'
  <1>1. param \in P!Parameters /\ param.w \in 1..P!MaxSide /\ param.h \in 1..P!MaxSide
        /\ param.num > 0 /\ param.den > 0
    BY DEF P!SetFamily, ParamsInv
  <1>2. param.w > 0 /\ param.h > 0
    <2>1. \A n \in 1..P!MaxSide : n > 0
      BY DEF P!MaxSide
    <2> QED BY <1>1, <2>1
  <1>3. P!FamilyKbps(f, param) \in Int
    BY <1>1, <1>2, FamilyIs
  <1>4. param' = [param EXCEPT !.bitrate = P!FamilyKbps(f, param), !.rc = "ABR"]
    BY DEF P!SetFamily, P!Assigned, P!Kbps
  <1>5. param' \in P!Parameters
    BY <1>1, <1>3, <1>4 DEF P!Parameters
  <1>6. enc' = NoEncoder
    BY DEF P!SetFamily
  <1> QED BY <1>5, <1>6 DEF ParamsInv, P!TileGrid, P!Fresh

\* As many threads as there are tiles, cores and places for them.
LEMMA ThreadsAre ==
  ASSUME P!ParamsAssumption, NEW t \in 0..32, NEW e \in P!Parameters, e.w > 0, e.h > 0, e.tw > 0, e.th > 0
  PROVE  P!NumThreads(t, e) \in 1..32
  <1> DEFINE c == P!RoundUp(P!Aligned(e.w), e.tw)
             r == P!RoundUp(P!Aligned(e.h), e.th)
             n == c * r
             S == {32, Cores, n}
  <1>1. e.tw \in Nat \ {0} /\ e.th \in Nat \ {0}
    BY DEF P!Parameters
  <1>2. /\ P!Aligned(e.w) \in Nat /\ P!Aligned(e.w) > 0
        /\ P!Aligned(e.h) \in Nat /\ P!Aligned(e.h) > 0
    <2>1. e.w \in Nat \ {0} /\ e.h \in Nat \ {0}
      BY DEF P!Parameters
    <2> QED BY <2>1, AlignedIs
  <1>3. c \in Nat /\ c > 0 /\ r \in Nat /\ r > 0
    BY <1>1, <1>2, RoundUpIs
  <1>4. P!NumTiles(e) = n
    BY DEF P!NumTiles
  <1> HIDE DEF c, r
  <1>5. n \in Nat /\ n >= 1
    BY <1>3
  <1> HIDE DEF n
  <1>6. Cores \in Nat /\ Cores >= 1
    BY DEF P!ParamsAssumption
  <1>7. S \subseteq Nat /\ S # {} /\ 32 \in S
    BY <1>5, <1>6
  <1>8. P!Min(S) \in S /\ P!Min(S) <= 32
    BY <1>7, MinIs
  <1>9. P!Min(S) \in 1..32
    BY <1>5, <1>6, <1>8
  <1> QED BY <1>4, <1>9 DEF P!NumThreads

\* oapve_create
LEMMA CreateIs ==
  ASSUME P!ParamsAssumption, ParamsInv, NEW t \in Threads, P!Create(t)
  PROVE  ParamsInv'
  <1>1. CASE t \in 0..32 /\ P!Updated(param).ret = "OK"
    <2> DEFINE e == P!Updated(param).p
    <2>1. /\ enc' = e /\ param' = param /\ edited' = FALSE
          /\ grid' = [w |-> P!Aligned(e.w), h |-> P!Aligned(e.h), threads |-> P!NumThreads(t, e)]
      BY <1>1 DEF P!Create
    <2>2. /\ e \in P!Parameters /\ e.w = param.w /\ e.h = param.h
          /\ param.w \in Nat \ {0} /\ param.h \in Nat \ {0}
          /\ e.tw % 16 = 0 /\ e.th % 16 = 0 /\ e.tw > 0 /\ e.th > 0
          /\ ~P!Unconstrained(e.profile) =>
               /\ e.tw >= 256 /\ e.th >= 128
               /\ P!RoundUp(P!Aligned(e.w), e.tw) <= 20 /\ P!RoundUp(P!Aligned(e.h), e.th) <= 20
      BY <1>1, CreatedIs DEF ParamsInv
    <2> HIDE DEF e
    <2>3. P!NumThreads(t, e) \in 1..32
      BY <1>1, <2>2, ThreadsAre
    <2>4. P!TileGrid'
      BY <2>1, <2>2, <2>3 DEF P!TileGrid, P!MB, P!MAX_TILES, P!RoundUp, P!Unconstrained
    <2> QED BY <1>1, <2>1, <2>2, <2>4 DEF ParamsInv, P!Fresh, e
  <1>2. CASE ~(t \in 0..32 /\ P!Updated(param).ret = "OK")
    <2>1. enc = NoEncoder /\ enc' = NoEncoder /\ param' = param
      BY <1>2 DEF P!Create
    <2> QED BY <2>1 DEF ParamsInv, P!TileGrid, P!Fresh
  <1> QED BY <1>1, <1>2

\* oapve_config
LEMMA ConfigIs ==
  ASSUME P!ParamsAssumption, ParamsInv, NEW id \in DOMAIN Edits, NEW v \in Edits[id],
         P!Config(id, v)
  PROVE  ParamsInv'
  <1>1. id \in {"qp", "fps_num", "fps_den", "bps"} /\ v \in Int
    BY DEF P!ParamsAssumption
  <1>2. enc \in P!Parameters /\ enc # NoEncoder /\ param' = param /\ grid' = grid
    BY DEF P!Config, ParamsInv
  <1>3. CASE enc' # enc
    <2>1. /\ edited' = TRUE
          /\ enc' \in {[enc EXCEPT !.qp = v], [enc EXCEPT !.num = v], [enc EXCEPT !.den = v],
                       [enc EXCEPT !.bitrate = v]}
      BY <1>1, <1>3 DEF P!Config
    <2>2. /\ enc' \in P!Parameters /\ enc'.tw = enc.tw /\ enc'.th = enc.th
          /\ enc'.profile = enc.profile
      BY <1>1, <1>2, <2>1 DEF P!Parameters
    <2>3. P!TileGrid'
      BY <1>2, <2>2 DEF ParamsInv, P!TileGrid, P!RoundUp, P!Unconstrained
    <2> QED BY <1>2, <2>1, <2>2, <2>3 DEF ParamsInv, P!Fresh
  <1>4. CASE enc' = enc
    <2>1. edited' = edited \/ edited' = TRUE
      BY DEF P!Config
    <2> QED BY <1>2, <1>4, <2>1 DEF ParamsInv, P!Fresh, P!TileGrid
  <1> QED BY <1>3, <1>4

\* Every call keeps the invariant.
LEMMA ParamsStep == ASSUME P!ParamsAssumption, ParamsInv, P!Next PROVE ParamsInv'
  <1>1. ASSUME P!Delete PROVE ParamsInv'
    <2>1. enc' = NoEncoder /\ param' = param
      BY <1>1 DEF P!Delete
    <2> QED BY <2>1 DEF ParamsInv, P!TileGrid, P!Fresh
  <1> QED BY <1>1, ParseIs, SetFamilyIs, CreateIs, ConfigIs DEF P!Next

\* Between the calls the invariant stays.
LEMMA ParamsStutter == ASSUME ParamsInv, UNCHANGED P!vars PROVE ParamsInv'
  BY DEF P!vars, ParamsInv, P!TileGrid, P!Fresh

\* Params keeps its invariant.
THEOREM ParamsInvariance == ASSUME P!ParamsAssumption PROVE P!Spec => []ParamsInv
  <1>1. P!Init => ParamsInv
    BY InitIs
  <1>2. ParamsInv /\ [P!Next]_(P!vars) => ParamsInv'
    BY ParamsStep, ParamsStutter
  <1> QED BY <1>1, <1>2, PTL DEF P!Spec

\* The invariant gives every instance under rate control its target,
LEMMA InvHasTarget == ASSUME ParamsInv PROVE P!RateControlHasTarget
  BY CreatedIs DEF ParamsInv, P!RateControlHasTarget, P!Fresh

\* and every automatic level its place.
LEMMA InvHasLowest == ASSUME P!ParamsAssumption, ParamsInv PROVE P!LowestLevel
  BY LevelIsLowest DEF ParamsInv, P!LowestLevel, P!Fresh

----------------------------------------------------------------------------
(* Metadata: the sums over its groups (meta_get_num_mdp)                   *)

\* The sums over an array are what their recursive definition says: natural
\* numbers, each the one before and one group's count more
\* (meta_get_num_mdp).
LEMMA SumsAre ==
  ASSUME MaxMetas \in Nat, NEW a, \A s \in M!Slot : a[s].mdp_num \in Nat
  PROVE  /\ M!Sums(a)[0] = 0
         /\ \A k \in M!Slot : M!Sums(a)[k + 1] = M!Sums(a)[k] + a[k].mdp_num
         /\ \A k \in 0..MaxMetas : M!Sums(a)[k] \in Nat
  <1> DEFINE c == [s \in M!Slot |-> a[s].mdp_num]
             Are(f) == f = [s \in 0..MaxMetas |-> IF s = 0 THEN 0 ELSE f[s - 1] + a[s - 1].mdp_num]
  <1>1. PICK rule \in Rule(MaxMetas, Nat) :
          \A k \in 1..MaxMetas, v \in Nat : rule[k][v] = v + c[k - 1]
    <2>0. \A k \in 1..MaxMetas : k - 1 \in M!Slot /\ c[k - 1] \in Nat
      BY DEF M!Slot
    <2>1. [k \in 1..MaxMetas |-> [v \in Nat |-> v + c[k - 1]]] \in Rule(MaxMetas, Nat)
      BY <2>0 DEF Rule
    <2> QED BY <2>1
  <1>2. PICK f : Follows(f, MaxMetas, Nat, 0, rule)
    <2>1. 0 \in Nat
      OBVIOUS
    <2> QED BY <2>1, Recursion
  <1>3. \A k \in 1..MaxMetas : k - 1 \in 0..MaxMetas /\ f[k] = f[k - 1] + a[k - 1].mdp_num
    <2>1. \A k \in 1..MaxMetas : k - 1 \in 0..MaxMetas /\ k - 1 \in M!Slot
      BY DEF M!Slot
    <2>2. \A k \in 1..MaxMetas : f[k - 1] \in Nat
      BY <1>2, <2>1 DEF Follows
    <2> QED BY <1>1, <1>2, <2>1, <2>2 DEF Follows
  <1>4. Are(f)
    BY <1>2, <1>3 DEF Follows
  <1>5. M!Sums(a) = CHOOSE g : Are(g)
    BY DEF M!Sums
  <1> HIDE DEF Are
  <1>6. Are(M!Sums(a))
    BY <1>4, <1>5
  <1> DEFINE t == M!Sums(a)
             T == {k \in 0..MaxMetas : t[k] \in Nat}
  <1>7. t = [s \in 0..MaxMetas |-> IF s = 0 THEN 0 ELSE t[s - 1] + a[s - 1].mdp_num]
    BY <1>6 DEF Are
  <1> HIDE DEF t
  <1>8. t[0] = 0 /\ \A k \in M!Slot : t[k + 1] = t[k] + a[k].mdp_num
    <2>1. ASSUME NEW k \in M!Slot PROVE t[k + 1] = t[k] + a[k].mdp_num
      <3>1. k + 1 \in 0..MaxMetas /\ k + 1 # 0 /\ (k + 1) - 1 = k
        BY DEF M!Slot
      <3> QED BY <1>7, <3>1
    <2>2. 0 \in 0..MaxMetas
      OBVIOUS
    <2> QED BY <1>7, <2>1, <2>2
  <1>9. 0 \in T /\ \A k \in T : k \in 0..(MaxMetas - 1) => k + 1 \in T
    BY <1>8 DEF M!Slot
  <1> HIDE DEF T
  <1>10. \A k \in 0..MaxMetas : k \in T
    BY <1>9, UpTo
  <1> QED BY <1>8, <1>10 DEF t, T

\* Two arrays that agree in their first groups have the same sums over them.
LEMMA SumsSame ==
  ASSUME MaxMetas \in Nat, NEW a, NEW b, NEW n \in 0..MaxMetas,
         \A s \in M!Slot : a[s].mdp_num \in Nat /\ b[s].mdp_num \in Nat,
         \A s \in 0..(n - 1) : a[s].mdp_num = b[s].mdp_num
  PROVE  M!Sums(a)[n] = M!Sums(b)[n]
  <1> DEFINE T == {k \in 0..n : M!Sums(a)[k] = M!Sums(b)[k]}
  <1>1. 0 \in T
    BY SumsAre
  <1>2. ASSUME NEW k \in T, k \in 0..(n - 1) PROVE k + 1 \in T
    <2>1. k \in M!Slot /\ k + 1 \in 0..n /\ a[k].mdp_num = b[k].mdp_num
      BY <1>2 DEF M!Slot
    <2>2. M!Sums(a)[k + 1] = M!Sums(a)[k] + a[k].mdp_num
      BY <2>1, SumsAre
    <2>3. M!Sums(b)[k + 1] = M!Sums(b)[k] + b[k].mdp_num
      BY <2>1, SumsAre
    <2> QED BY <2>1, <2>2, <2>3
  <1> HIDE DEF T
  <1>3. n \in Nat /\ n \in 0..n
    OBVIOUS
  <1>4. n \in T
    BY <1>1, <1>2, <1>3, UpTo
  <1> QED BY <1>4 DEF T

\* One count differs: so do the sums that have it, by as much.
LEMMA SumsOneDiffers ==
  ASSUME MaxMetas \in Nat, NEW a, NEW b, NEW n \in 0..MaxMetas, NEW s \in 0..(n - 1), NEW d \in Int,
         \A t \in M!Slot : a[t].mdp_num \in Nat /\ b[t].mdp_num \in Nat,
         \A t \in 0..(n - 1) : t # s => a[t].mdp_num = b[t].mdp_num,
         b[s].mdp_num = a[s].mdp_num + d
  PROVE  M!Sums(b)[n] = M!Sums(a)[n] + d
  <1> DEFINE T == {k \in 0..n : M!Sums(b)[k] = M!Sums(a)[k] + (IF k <= s THEN 0 ELSE d)}
  <1>1. 0 \in T
    BY SumsAre
  <1>2. ASSUME NEW k \in T, k \in 0..(n - 1) PROVE k + 1 \in T
    <2>1. k \in M!Slot /\ k + 1 \in 0..n /\ k \in 0..MaxMetas
      BY <1>2 DEF M!Slot
    <2>2. M!Sums(a)[k + 1] = M!Sums(a)[k] + a[k].mdp_num /\ M!Sums(a)[k] \in Nat
      BY <2>1, SumsAre
    <2>3. M!Sums(b)[k + 1] = M!Sums(b)[k] + b[k].mdp_num
      BY <2>1, SumsAre
    <2>4. a[k].mdp_num \in Nat
      BY <2>1
    <2>5. CASE k = s
      BY <1>2, <2>1, <2>2, <2>3, <2>4, <2>5
    <2>6. CASE k # s
      <3>1. a[k].mdp_num = b[k].mdp_num
        BY <1>2, <2>6
      <3>2. k <= s <=> k + 1 <= s
        BY <1>2, <2>6
      <3> QED BY <1>2, <2>1, <2>2, <2>3, <2>4, <3>1, <3>2
    <2> QED BY <2>5, <2>6
  <1> HIDE DEF T
  <1>3. n \in Nat /\ n \in 0..n
    OBVIOUS
  <1>4. n \in T
    BY <1>1, <1>2, <1>3, UpTo
  <1> QED BY <1>4 DEF T

\* One group is left out and those behind it move up: so is its count.
LEMMA SumsClosedUp ==
  ASSUME MaxMetas \in Nat, NEW a, NEW b, NEW n \in 1..MaxMetas, NEW s \in 0..(n - 1),
         \A t \in M!Slot : a[t].mdp_num \in Nat /\ b[t].mdp_num \in Nat,
         \A t \in 0..(n - 2) : b[t].mdp_num = a[IF t < s THEN t ELSE t + 1].mdp_num
  PROVE  M!Sums(a)[n] = M!Sums(b)[n - 1] + a[s].mdp_num
  <1> DEFINE T == {k \in 0..(n - 1) :
                     IF k <= s THEN M!Sums(b)[k] = M!Sums(a)[k]
                     ELSE M!Sums(a)[k + 1] = M!Sums(b)[k] + a[s].mdp_num}
  <1>1. 0 \in T
    BY SumsAre
  <1>2. ASSUME NEW k \in T, k \in 0..((n - 1) - 1) PROVE k + 1 \in T
    <2>1. k \in M!Slot /\ k + 1 \in M!Slot /\ k + 1 \in 0..(n - 1) /\ k \in 0..MaxMetas /\ s \in M!Slot
      BY <1>2 DEF M!Slot
    <2>2. /\ M!Sums(a)[k + 1] = M!Sums(a)[k] + a[k].mdp_num
          /\ M!Sums(a)[k + 2] = M!Sums(a)[k + 1] + a[k + 1].mdp_num
          /\ M!Sums(a)[k] \in Nat
      <3>1. (k + 1) + 1 = k + 2
        BY <2>1 DEF M!Slot
      <3> QED BY <2>1, <3>1, SumsAre
    <2>3. M!Sums(b)[k + 1] = M!Sums(b)[k] + b[k].mdp_num /\ M!Sums(b)[k] \in Nat
      BY <2>1, SumsAre
    <2>4. a[k].mdp_num \in Nat /\ a[k + 1].mdp_num \in Nat /\ a[s].mdp_num \in Nat
      BY <2>1
    <2>5. CASE k < s
      <3>1. b[k].mdp_num = a[k].mdp_num /\ k <= s /\ k + 1 <= s
        BY <1>2, <2>5
      <3> QED BY <2>1, <2>2, <2>3, <3>1
    <2>6. CASE k = s
      <3>1. b[k].mdp_num = a[k + 1].mdp_num /\ k <= s /\ ~(k + 1 <= s)
        BY <1>2, <2>6
      <3>2. (k + 1) + 1 = k + 2
        BY <2>1 DEF M!Slot
      <3>3. M!Sums(b)[k] = M!Sums(a)[k]
        BY <3>1
      <3>4. M!Sums(a)[k + 2] = M!Sums(b)[k + 1] + a[s].mdp_num
        BY <2>2, <2>3, <2>4, <2>6, <3>1, <3>3
      <3> QED BY <2>1, <3>1, <3>2, <3>4
    <2>7. CASE k > s
      <3>1. b[k].mdp_num = a[k + 1].mdp_num /\ ~(k <= s) /\ ~(k + 1 <= s)
        BY <1>2, <2>7
      <3>2. (k + 1) + 1 = k + 2
        BY <2>1 DEF M!Slot
      <3>3. M!Sums(a)[k + 1] = M!Sums(b)[k] + a[s].mdp_num
        BY <3>1
      <3>4. M!Sums(a)[k + 2] = M!Sums(b)[k + 1] + a[s].mdp_num
        BY <2>2, <2>3, <2>4, <3>1, <3>3
      <3> QED BY <2>1, <3>1, <3>2, <3>4
    <2> QED BY <1>2, <2>5, <2>6, <2>7
  <1> HIDE DEF T
  <1>3. n - 1 \in Nat /\ n - 1 \in 0..(n - 1)
    OBVIOUS
  <1>4. n - 1 \in T
    BY <1>1, <1>2, <1>3, UpTo
  <1>5. CASE n - 1 > s
    BY <1>4, <1>5 DEF T
  <1>6. CASE n - 1 = s
    <2>1. M!Sums(b)[s] = M!Sums(a)[s]
      BY <1>4, <1>6 DEF T
    <2>2. s \in M!Slot /\ s + 1 = n
      BY <1>6 DEF M!Slot
    <2>3. M!Sums(a)[s + 1] = M!Sums(a)[s] + a[s].mdp_num
      BY <2>2, SumsAre
    <2> QED BY <1>6, <2>1, <2>2, <2>3
  <1> QED BY <1>5, <1>6

\* No group counts for more than all groups together.
LEMMA SumsBound ==
  ASSUME MaxMetas \in Nat, NEW a, NEW n \in 0..MaxMetas, NEW s \in 0..(n - 1),
         \A t \in M!Slot : a[t].mdp_num \in Nat
  PROVE  a[s].mdp_num <= M!Sums(a)[n]
  <1> DEFINE T == {k \in 0..n : k > s => a[s].mdp_num <= M!Sums(a)[k]}
  <1>1. 0 \in T
    OBVIOUS
  <1>2. ASSUME NEW k \in T, k \in 0..(n - 1) PROVE k + 1 \in T
    <2>1. k \in M!Slot /\ k + 1 \in 0..n /\ k \in 0..MaxMetas /\ s \in M!Slot
      BY <1>2 DEF M!Slot
    <2>2. M!Sums(a)[k + 1] = M!Sums(a)[k] + a[k].mdp_num /\ M!Sums(a)[k] \in Nat
      BY <2>1, SumsAre
    <2>3. a[k].mdp_num \in Nat /\ a[s].mdp_num \in Nat
      BY <2>1
    <2>4. CASE k > s
      BY <2>1, <2>2, <2>3, <2>4
    <2>5. CASE k <= s
      BY <2>1, <2>2, <2>3, <2>5
    <2> QED BY <1>2, <2>4, <2>5
  <1> HIDE DEF T
  <1>3. n \in Nat /\ n \in 0..n
    OBVIOUS
  <1>4. n \in T
    BY <1>1, <1>2, <1>3, UpTo
  <1> QED BY <1>4 DEF T

----------------------------------------------------------------------------
(* The heap's ends                                                         *)

\* A heap that is not full has a block at each end (oapv_ops_malloc).
LEMMA BlocksAreFree ==
  ASSUME M!MetaAssumption, NEW h, M!Vacant(h) # {}
  PROVE  /\ M!ForBytes(h) \in M!Cell /\ h[M!ForBytes(h)] = M!FREE
         /\ M!ForNode(h) \in M!Cell /\ h[M!ForNode(h)] = M!FREE
  <1> DEFINE T == M!Vacant(h)
             U == {Cells - c : c \in T}
  <1>1. Cells \in Nat /\ T \subseteq 1..Cells
    BY DEF M!MetaAssumption, M!Vacant, M!Cell
  <1>2. T \subseteq Nat /\ T # {} /\ U \subseteq Nat /\ U # {}
    BY <1>1
  <1>3. PICK x \in T : \A y \in T : x <= y
    BY <1>2, LeastElement
  <1>4. PICK z \in U : \A y \in U : z <= y
    BY <1>2, LeastElement
  <1>5. PICK u \in T : z = Cells - u
    BY <1>4
  <1>6. \A y \in T : u >= y
    <2>1. \A y \in T : Cells - y \in U
      OBVIOUS
    <2>2. \A y \in T : Cells - u <= Cells - y
      BY <1>4, <1>5, <2>1
    <2> QED BY <1>1, <1>5, <2>2
  <1>7. M!ForBytes(h) = (CHOOSE c \in T : \A y \in T : c <= y)
    BY DEF M!ForBytes, M!Min
  <1>8. M!ForNode(h) = (CHOOSE c \in T : \A y \in T : c >= y)
    BY DEF M!ForNode, M!Max
  <1>9. M!ForBytes(h) \in T /\ M!ForNode(h) \in T
    BY <1>3, <1>5, <1>6, <1>7, <1>8
  <1> QED BY <1>9 DEF M!Vacant

----------------------------------------------------------------------------
(* The array of groups and their lists                                     *)

\* A list node, and a place of md_arr.
MetaNode == [type : M!Types, size : Nat, data : M!Cell \cup {M!NULL}, cell : M!Cell]
MetaGroup == [group_id : 0..MaxGroupId, mdp_num : Nat, list : Seq(MetaNode)]

\* An array of n groups: each is there once and has payloads, which it counts,
\* each in a node of its own; the places behind them are cleared.
Arranged(a, n) ==
  /\ a \in [M!Slot -> MetaGroup] /\ n \in 0..MaxMetas
  /\ \A s \in M!Slot : s >= n => a[s] = M!NoGroup
  /\ \A s \in 0..(n - 1) : a[s].list # << >> /\ a[s].mdp_num = Len(a[s].list)
  /\ \A s, t \in 0..(n - 1) : a[s].group_id = a[t].group_id => s = t
  /\ \A s \in 0..(n - 1) : \A j, k \in DOMAIN a[s].list :
       a[s].list[j].cell = a[s].list[k].cell => j = k

\* What it holds, whatever the order: payloads with their groups.
Entries(a, n) ==
  {e \in (0..MaxGroupId) \X MetaNode :
     \E s \in 0..(n - 1) : \E k \in DOMAIN a[s].list : e = <<a[s].group_id, a[s].list[k]>>}

\* Each payload of an array is one of its entries.
LEMMA EntryAt ==
  ASSUME MaxMetas \in Nat, NEW a, NEW n, Arranged(a, n), NEW s \in 0..(n - 1), NEW k \in DOMAIN a[s].list
  PROVE  /\ s \in M!Slot /\ a[s].group_id \in 0..MaxGroupId /\ a[s].list \in Seq(MetaNode)
         /\ a[s].list[k] \in MetaNode
         /\ <<a[s].group_id, a[s].list[k]>> \in Entries(a, n)
  <1>1. n \in 0..MaxMetas /\ a \in [M!Slot -> MetaGroup]
    BY DEF Arranged
  <1>2. s \in M!Slot
    BY <1>1 DEF M!Slot
  <1>3. a[s] \in MetaGroup
    BY <1>1, <1>2
  <1>4. a[s].group_id \in 0..MaxGroupId /\ a[s].list \in Seq(MetaNode)
    BY <1>3 DEF MetaGroup
  <1>5. a[s].list[k] \in MetaNode
    BY <1>4
  <1> QED BY <1>2, <1>4, <1>5 DEF Entries

\* A payload in front of a list moves the others back by one.
LEMMA InFront ==
  ASSUME NEW S, NEW l \in Seq(S), NEW x \in S
  PROVE  /\ <<x>> \o l \in Seq(S) /\ Len(<<x>> \o l) = Len(l) + 1
         /\ DOMAIN (<<x>> \o l) = 1..(Len(l) + 1)
         /\ (<<x>> \o l)[1] = x
         /\ \A j \in 1..Len(l) : (<<x>> \o l)[j + 1] = l[j]
  <1>1. <<x>> \in Seq(S) /\ Len(<<x>>) = 1
    OBVIOUS
  <1> QED BY <1>1

\* A list without its k-th member.
LEMMA WithoutOne ==
  ASSUME NEW S, NEW l \in Seq(S), NEW k \in 1..Len(l)
  PROVE  /\ M!RemoveAt(l, k) \in Seq(S) /\ Len(M!RemoveAt(l, k)) = Len(l) - 1
         /\ DOMAIN M!RemoveAt(l, k) = 1..(Len(l) - 1)
         /\ \A j \in 1..(Len(l) - 1) : M!RemoveAt(l, k)[j] = l[IF j < k THEN j ELSE j + 1]
  <1> DEFINE b == SubSeq(l, 1, k - 1)
             c == SubSeq(l, k + 1, Len(l))
  <1>0. Len(l) \in Nat /\ k \in Nat
    OBVIOUS
  <1>1. b \in Seq(S) /\ Len(b) = k - 1 /\ \A j \in 1..(k - 1) : b[j] = l[j]
    BY <1>0
  <1>2. c \in Seq(S) /\ Len(c) = Len(l) - k /\ \A j \in 1..(Len(l) - k) : c[j] = l[k + j]
    BY <1>0
  <1>3. M!RemoveAt(l, k) = b \o c
    BY DEF M!RemoveAt
  <1> HIDE DEF b, c
  <1>4. /\ b \o c \in Seq(S) /\ Len(b \o c) = Len(l) - 1
        /\ \A j \in 1..(Len(l) - 1) : (b \o c)[j] = IF j < k THEN b[j] ELSE c[j - (k - 1)]
    <2>1. /\ b \o c \in Seq(S) /\ Len(b \o c) = Len(b) + Len(c)
          /\ \A j \in 1..(Len(b) + Len(c)) :
               (b \o c)[j] = IF j <= Len(b) THEN b[j] ELSE c[j - Len(b)]
      BY <1>1, <1>2, ConcatProperties
    <2>2. (k - 1) + (Len(l) - k) = Len(l) - 1 /\ \A j \in 1..(Len(l) - 1) : j <= k - 1 <=> j < k
      BY <1>0
    <2> QED BY <1>1, <1>2, <2>1, <2>2
  <1>5. ASSUME NEW j \in 1..(Len(l) - 1) PROVE (b \o c)[j] = l[IF j < k THEN j ELSE j + 1]
    <2>1. CASE j < k
      BY <1>0, <1>1, <1>4, <2>1
    <2>2. CASE ~(j < k)
      <3>1. j - (k - 1) \in 1..(Len(l) - k) /\ k + (j - (k - 1)) = j + 1
        BY <1>0, <2>2
      <3> QED BY <1>2, <1>4, <2>2, <3>1
    <2> QED BY <2>1, <2>2
  <1> QED BY <1>0, <1>3, <1>4, <1>5

\* The array of the operations: with a node at the head of a list, with another
\* payload in a node, and without a node.
AddedTo(a, s, g, node) ==
  [a EXCEPT ![s] = [group_id |-> g, mdp_num |-> a[s].mdp_num + 1, list |-> <<node>> \o a[s].list]]
Renewed(old, z, d) == [old EXCEPT !.size = z, !.data = d]
RenewedAt(a, s, k, z, d) == [a EXCEPT ![s].list[k] = [@ EXCEPT !.size = z, !.data = d]]
UnlinkedAt(a, s, k) == [a EXCEPT ![s].list = M!RemoveAt(@, k), ![s].mdp_num = @ - 1]

\* A new payload at the head of its group's list, the group being there or
\* opened behind the others (oapvm_set).
LEMMA Adding ==
  ASSUME MaxMetas \in Nat \ {0}, MaxGroupId \in Nat, NEW a, NEW n, Arranged(a, n),
         NEW g \in 0..MaxGroupId, NEW node \in MetaNode, NEW s, NEW m, NEW b,
         \A e \in Entries(a, n) : e[2].cell # node.cell,
         \A t \in 0..(n - 1) : a[t].group_id = g => t = s,
         \/ s = n /\ m = n + 1 /\ n < MaxMetas
         \/ s \in 0..(n - 1) /\ m = n /\ a[s].group_id = g,
         b = AddedTo(a, s, g, node)
  PROVE  /\ Arranged(b, m) /\ Entries(b, m) = Entries(a, n) \cup {<<g, node>>}
         /\ M!Sums(b)[m] = M!Sums(a)[n] + 1
  <1>1. /\ a \in [M!Slot -> MetaGroup] /\ n \in 0..MaxMetas /\ s \in M!Slot
        /\ m \in 0..MaxMetas /\ s \in 0..(m - 1) /\ n \in Nat
    BY DEF Arranged, M!Slot
  <1> DEFINE l == a[s].list
             L == <<node>> \o l
  <1>2. /\ l \in Seq(MetaNode) /\ a[s].mdp_num \in Nat
        /\ Len(l) \in Nat /\ DOMAIN l = 1..Len(l) /\ a[s] \in MetaGroup
    BY <1>1 DEF MetaGroup
  <1>3. /\ L \in Seq(MetaNode) /\ Len(L) = Len(l) + 1 /\ DOMAIN L = 1..(Len(l) + 1)
        /\ L[1] = node /\ \A j \in 1..Len(l) : L[j + 1] = l[j]
    BY <1>2, InFront
  <1>4. a[s].mdp_num = Len(l) /\ (s = n => l = << >>)
    <2>1. CASE s = n
      BY <1>1, <2>1 DEF Arranged, M!NoGroup
    <2>2. CASE s # n
      BY <2>2 DEF Arranged
    <2> QED BY <2>1, <2>2
  <1>5. /\ b \in [M!Slot -> MetaGroup]
        /\ b[s].group_id = g /\ b[s].mdp_num = Len(L) /\ b[s].list = L
        /\ \A t \in M!Slot \ {s} : b[t] = a[t]
    BY <1>1, <1>2, <1>3, <1>4 DEF MetaGroup, AddedTo
  <1> HIDE DEF l, L
  <1>6. \A t \in 0..(m - 1) : t \in M!Slot /\ (t # s => t \in 0..(n - 1) /\ b[t] = a[t])
    BY <1>1, <1>5 DEF M!Slot
  <1>7. \A t \in 0..(n - 1) : t \in 0..(m - 1) /\ t \in M!Slot
    BY <1>1 DEF M!Slot
  <1>8. \A k \in DOMAIN l : s # n /\ <<g, l[k]>> \in Entries(a, n)
    <2>1. SUFFICES ASSUME NEW k \in DOMAIN l PROVE s # n /\ <<g, l[k]>> \in Entries(a, n)
      OBVIOUS
    <2>2. s # n
      BY <1>2, <1>4, <2>1
    <2>3. s \in 0..(n - 1) /\ a[s].group_id = g
      BY <2>2
    <2> QED BY <2>2, <2>3, EntryAt DEF l
  <1>9. Arranged(b, m)
    <2>1. \A t \in M!Slot : t >= m => b[t] = M!NoGroup
      <3>1. \A t \in M!Slot : t >= m => t >= n /\ t \in M!Slot \ {s}
        BY <1>1 DEF M!Slot
      <3>2. \A t \in M!Slot : t >= n => a[t] = M!NoGroup
        BY DEF Arranged
      <3> QED BY <1>5, <3>1, <3>2
    <2>2. \A t \in 0..(m - 1) : b[t].list # << >> /\ b[t].mdp_num = Len(b[t].list)
      <3>1. L # << >>
        BY <1>2, <1>3
      <3> QED BY <1>5, <1>6, <3>1 DEF Arranged
    <2>3. \A t, u \in 0..(m - 1) : b[t].group_id = b[u].group_id => t = u
      <3>1. SUFFICES ASSUME NEW t \in 0..(m - 1), NEW u \in 0..(m - 1), b[t].group_id = b[u].group_id
                     PROVE t = u
        OBVIOUS
      <3>2. CASE t = s
        BY <1>5, <1>6, <3>1, <3>2
      <3>3. CASE u = s
        BY <1>5, <1>6, <3>1, <3>3
      <3>4. CASE t # s /\ u # s
        BY <1>6, <3>1, <3>4 DEF Arranged
      <3> QED BY <3>2, <3>3, <3>4
    <2>4. \A t \in 0..(m - 1) : \A j, k \in DOMAIN b[t].list :
            b[t].list[j].cell = b[t].list[k].cell => j = k
      <3>1. SUFFICES ASSUME NEW t \in 0..(m - 1), NEW j \in DOMAIN b[t].list, NEW k \in DOMAIN b[t].list,
                            b[t].list[j].cell = b[t].list[k].cell
                     PROVE j = k
        OBVIOUS
      <3>2. CASE t # s
        BY <1>6, <3>1, <3>2 DEF Arranged
      <3>3. CASE t = s
        <4>1. j \in 1..(Len(l) + 1) /\ k \in 1..(Len(l) + 1) /\ L[j].cell = L[k].cell
          BY <1>3, <1>5, <3>1, <3>3
        <4>2. \A i \in 1..(Len(l) + 1) : i # 1 => i - 1 \in 1..Len(l) /\ (i - 1) + 1 = i
          BY <1>2
        <4>3. \A i \in 1..(Len(l) + 1) : i # 1 =>
                 L[i] = l[i - 1] /\ L[i].cell # node.cell
          <5>1. ASSUME NEW i \in 1..(Len(l) + 1), i # 1
                PROVE L[i] = l[i - 1] /\ L[i].cell # node.cell
            <6>1. L[i] = l[i - 1] /\ i - 1 \in DOMAIN l
              BY <1>2, <1>3, <4>2, <5>1
            <6>2. <<g, l[i - 1]>> \in Entries(a, n)
              BY <1>8, <6>1
            <6> QED BY <6>1, <6>2
          <5> QED BY <5>1
        <4>4. CASE j = 1 \/ k = 1
          BY <1>3, <4>1, <4>3, <4>4
        <4>5. CASE j # 1 /\ k # 1
          <5>1. s # n /\ s \in 0..(n - 1)
            BY <1>2, <1>8, <4>1, <4>2, <4>5
          <5>2. l[j - 1].cell = l[k - 1].cell /\ j - 1 \in DOMAIN l /\ k - 1 \in DOMAIN l
            BY <1>2, <4>1, <4>2, <4>3, <4>5
          <5>3. j - 1 = k - 1
            BY <5>1, <5>2 DEF Arranged, l
          <5> QED BY <1>2, <4>1, <5>3
        <4> QED BY <4>4, <4>5
      <3> QED BY <3>2, <3>3
    <2> QED BY <1>1, <1>5, <2>1, <2>2, <2>3, <2>4 DEF Arranged
  <1>10. Entries(b, m) = Entries(a, n) \cup {<<g, node>>}
    <2>1. ASSUME NEW e \in Entries(b, m) PROVE e \in Entries(a, n) \cup {<<g, node>>}
      <3>1. PICK t \in 0..(m - 1) : \E k \in DOMAIN b[t].list : e = <<b[t].group_id, b[t].list[k]>>
        BY DEF Entries
      <3>2. PICK k \in DOMAIN b[t].list : e = <<b[t].group_id, b[t].list[k]>>
        BY <3>1
      <3>3. CASE t # s
        <4>1. t \in 0..(n - 1) /\ b[t] = a[t]
          BY <1>6, <3>3
        <4> QED BY <3>2, <4>1, EntryAt
      <3>4. CASE t = s
        <4>1. e = <<g, L[k]>> /\ k \in 1..(Len(l) + 1)
          BY <1>3, <1>5, <3>2, <3>4
        <4>2. CASE k = 1
          BY <1>3, <4>1, <4>2
        <4>3. CASE k # 1
          <5>1. k - 1 \in DOMAIN l /\ (k - 1) + 1 = k
            BY <1>2, <4>1, <4>3
          <5>2. L[k] = l[k - 1]
            BY <1>2, <1>3, <5>1
          <5> QED BY <1>8, <4>1, <5>1, <5>2
        <4> QED BY <4>2, <4>3
      <3> QED BY <3>3, <3>4
    <2>2. <<g, node>> \in Entries(b, m)
      <3>1. 1 \in DOMAIN b[s].list /\ b[s].list[1] = node /\ b[s].group_id = g
        BY <1>2, <1>3, <1>5
      <3> QED BY <1>1, <1>9, <3>1, EntryAt
    <2>3. ASSUME NEW e \in Entries(a, n) PROVE e \in Entries(b, m)
      <3>1. PICK t \in 0..(n - 1) : \E k \in DOMAIN a[t].list : e = <<a[t].group_id, a[t].list[k]>>
        BY DEF Entries
      <3>2. PICK k \in DOMAIN a[t].list : e = <<a[t].group_id, a[t].list[k]>>
        BY <3>1
      <3>3. t \in 0..(m - 1)
        BY <1>7
      <3>4. CASE t # s
        <4>1. b[t] = a[t]
          BY <1>6, <3>3, <3>4
        <4> QED BY <1>1, <1>9, <3>2, <3>3, <4>1, EntryAt
      <3>5. CASE t = s
        <4>1. s \in 0..(n - 1) /\ s # n
          BY <1>1, <3>5
        <4>2. k \in 1..Len(l) /\ e = <<g, l[k]>>
          BY <1>2, <3>2, <3>5, <4>1 DEF l
        <4>3. k + 1 \in DOMAIN b[s].list /\ b[s].list[k + 1] = l[k] /\ b[s].group_id = g
          <5>1. k + 1 \in 1..(Len(l) + 1)
            BY <1>2, <4>2
          <5> QED BY <1>3, <1>5, <4>2, <5>1
        <4> QED BY <1>1, <1>9, <4>2, <4>3, EntryAt
      <3> QED BY <3>4, <3>5
    <2> QED BY <2>1, <2>2, <2>3
  <1>11. M!Sums(b)[m] = M!Sums(a)[n] + 1
    <2>1. \A t \in M!Slot : a[t].mdp_num \in Nat /\ b[t].mdp_num \in Nat
      BY <1>1, <1>5 DEF MetaGroup
    <2>2. M!Sums(a)[m] = M!Sums(a)[n]
      <3>1. CASE s = n
        <4>1. a[n].mdp_num = 0 /\ n \in M!Slot /\ m = n + 1
          BY <1>1, <3>1 DEF Arranged, M!NoGroup
        <4>2. M!Sums(a)[n + 1] = M!Sums(a)[n] + 0 /\ M!Sums(a)[n] \in Nat
          BY <1>1, <2>1, <4>1, SumsAre
        <4> QED BY <4>1, <4>2
      <3>2. CASE s # n
        BY <3>2
      <3> QED BY <3>1, <3>2
    <2>3. b[s].mdp_num = a[s].mdp_num + 1
      BY <1>3, <1>4, <1>5
    <2>4. \A t \in 0..(m - 1) : t # s => a[t].mdp_num = b[t].mdp_num
      BY <1>6
    <2>5. 1 \in Int /\ MaxMetas \in Nat /\ m \in 0..MaxMetas /\ s \in 0..(m - 1)
      BY <1>1
    <2>6. M!Sums(b)[m] = M!Sums(a)[m] + 1
      BY ONLY <2>1, <2>3, <2>4, <2>5, SumsOneDiffers
    <2> QED BY <2>2, <2>6
  <1> QED BY <1>9, <1>10, <1>11

\* A group whose list is changed keeps its id and count.
LEMMA GroupKept ==
  ASSUME NEW x \in MetaGroup, NEW L
  PROVE  [x EXCEPT !.list = L] = [group_id |-> x.group_id, mdp_num |-> x.mdp_num, list |-> L]
  BY DEF MetaGroup

\* One place of an array is changed.
LEMMA PutInto ==
  ASSUME NEW S, NEW T, NEW a \in [S -> T], NEW s \in S, NEW v \in T, NEW b, b = [a EXCEPT ![s] = v]
  PROVE  b \in [S -> T] /\ b[s] = v /\ \A i \in S \ {s} : b[i] = a[i]
  OBVIOUS

\* A payload's data is replaced in its node (oapvm_set).
LEMMA Replacing ==
  ASSUME MaxMetas \in Nat \ {0}, MaxGroupId \in Nat, NEW a, NEW n, Arranged(a, n),
         NEW s \in 0..(n - 1), NEW k \in DOMAIN a[s].list, NEW z \in Nat, NEW d \in M!Cell \cup {M!NULL},
         NEW old, old = a[s].list[k], NEW new, new = Renewed(old, z, d),
         NEW b, b = RenewedAt(a, s, k, z, d)
  PROVE  /\ Arranged(b, n)
         /\ Entries(b, n) = (Entries(a, n) \ {<<a[s].group_id, old>>}) \cup {<<a[s].group_id, new>>}
         /\ M!Sums(b)[n] = M!Sums(a)[n]
  <1> DEFINE l == a[s].list
             g == a[s].group_id
             L == [l EXCEPT ![k] = new]
  <1>1. /\ a \in [M!Slot -> MetaGroup] /\ n \in 0..MaxMetas /\ s \in M!Slot
        /\ a[s] \in MetaGroup /\ l \in Seq(MetaNode) /\ old \in MetaNode /\ k \in DOMAIN l
        /\ g \in 0..MaxGroupId
    BY EntryAt DEF Arranged
  <1>2. new \in MetaNode /\ new.cell = old.cell
    BY <1>1 DEF MetaNode, Renewed
  <1>3. /\ L \in Seq(MetaNode) /\ Len(L) = Len(l) /\ DOMAIN L = DOMAIN l
        /\ L[k] = new /\ \A j \in DOMAIN l : j # k => L[j] = l[j]
    BY <1>1, <1>2
  <1> HIDE DEF L
  <1>4. b = [a EXCEPT ![s] = [group_id |-> g, mdp_num |-> a[s].mdp_num, list |-> L]]
    <2>1. [a[s] EXCEPT !.list = L] = [group_id |-> g, mdp_num |-> a[s].mdp_num, list |-> L]
      BY <1>1, GroupKept
    <2>2. b = [a EXCEPT ![s] = [a[s] EXCEPT !.list = L]]
      BY DEF L, RenewedAt, Renewed
    <2> QED BY <2>1, <2>2
  <1>5. /\ b \in [M!Slot -> MetaGroup]
        /\ b[s].group_id = g /\ b[s].mdp_num = a[s].mdp_num /\ b[s].list = L
        /\ \A t \in M!Slot \ {s} : b[t] = a[t]
    <2>1. L \in Seq(MetaNode) /\ a[s].mdp_num \in Nat /\ g \in 0..MaxGroupId
      BY <1>1, <1>3 DEF MetaGroup
    <2> DEFINE v == [group_id |-> g, mdp_num |-> a[s].mdp_num, list |-> L]
    <2>2. v \in MetaGroup
      BY <2>1 DEF MetaGroup
    <2>3. v.group_id = g /\ v.mdp_num = a[s].mdp_num /\ v.list = L
      OBVIOUS
    <2>4. b = [a EXCEPT ![s] = v] /\ a \in [M!Slot -> MetaGroup] /\ s \in M!Slot
      BY <1>1, <1>4
    <2> HIDE DEF v
    <2>5. b \in [M!Slot -> MetaGroup] /\ b[s] = v /\ \A t \in M!Slot \ {s} : b[t] = a[t]
      BY ONLY <2>2, <2>4, PutInto
    <2> QED BY <2>3, <2>5
  <1>6. \A t \in 0..(n - 1) : t \in M!Slot /\ b[t].group_id = a[t].group_id
    BY <1>1, <1>5 DEF M!Slot
  <1>7. \A j \in DOMAIN l : L[j].cell = l[j].cell
    BY <1>2, <1>3
  <1>8. \A t \in 0..(n - 1) : \A j, i \in DOMAIN a[t].list :
          a[t].list[j].cell = a[t].list[i].cell => j = i
    BY DEF Arranged
  <1>9. Arranged(b, n)
    <2>1. \A t \in M!Slot : t >= n => b[t] = M!NoGroup
      BY <1>1, <1>5 DEF Arranged, M!Slot
    <2>2. \A t \in 0..(n - 1) : b[t].list # << >> /\ b[t].mdp_num = Len(b[t].list)
      <3>1. l # << >> /\ a[s].mdp_num = Len(l)
        BY DEF Arranged
      <3>2. L # << >>
        BY <1>1, <1>3, <3>1
      <3> QED BY <1>3, <1>5, <1>6, <3>1, <3>2 DEF Arranged
    <2>3. \A t, u \in 0..(n - 1) : b[t].group_id = b[u].group_id => t = u
      BY <1>6 DEF Arranged
    <2>4. \A t \in 0..(n - 1) : \A j, i \in DOMAIN b[t].list :
            b[t].list[j].cell = b[t].list[i].cell => j = i
      <3>1. ASSUME NEW t \in 0..(n - 1), t # s
            PROVE \A j, i \in DOMAIN b[t].list : b[t].list[j].cell = b[t].list[i].cell => j = i
        <4>1. b[t] = a[t]
          BY <1>5, <1>6, <3>1
        <4> QED BY <1>8, <4>1
      <3>2. \A j, i \in DOMAIN L : L[j].cell = L[i].cell => j = i
        BY <1>3, <1>7, <1>8
      <3>3. \A j, i \in DOMAIN b[s].list : b[s].list[j].cell = b[s].list[i].cell => j = i
        BY <1>5, <3>2
      <3> QED BY <3>1, <3>3
    <2> QED BY <1>1, <1>5, <2>1, <2>2, <2>3, <2>4 DEF Arranged
  <1>10. Entries(b, n) = (Entries(a, n) \ {<<g, old>>}) \cup {<<g, new>>}
    <2>1. ASSUME NEW e \in Entries(b, n) PROVE e \in (Entries(a, n) \ {<<g, old>>}) \cup {<<g, new>>}
      <3>1. PICK t \in 0..(n - 1) : \E j \in DOMAIN b[t].list : e = <<b[t].group_id, b[t].list[j]>>
        BY DEF Entries
      <3>2. PICK j \in DOMAIN b[t].list : e = <<b[t].group_id, b[t].list[j]>>
        BY <3>1
      <3>3. CASE t # s
        <4>1. b[t] = a[t] /\ a[t].group_id # g
          BY <1>5, <1>6, <3>3 DEF Arranged
        <4> QED BY <3>2, <4>1, EntryAt
      <3>4. CASE t = s
        <4>1. j \in DOMAIN l /\ e = <<g, L[j]>>
          BY <1>3, <1>5, <3>2, <3>4
        <4>2. CASE j = k
          BY <1>3, <4>1, <4>2
        <4>3. CASE j # k
          <5>1. e = <<g, l[j]>> /\ l[j].cell # l[k].cell
            BY <1>1, <1>3, <1>8, <4>1, <4>3
          <5>2. <<g, l[j]>> \in Entries(a, n) /\ l[j] # old
            BY <4>1, <5>1, EntryAt
          <5> QED BY <5>1, <5>2
        <4> QED BY <4>2, <4>3
      <3> QED BY <3>3, <3>4
    <2>2. <<g, new>> \in Entries(b, n)
      <3>1. k \in DOMAIN b[s].list /\ b[s].list[k] = new /\ b[s].group_id = g
        BY <1>1, <1>3, <1>5
      <3> QED BY <1>9, <3>1, EntryAt
    <2>3. ASSUME NEW e \in Entries(a, n), e # <<g, old>> PROVE e \in Entries(b, n)
      <3>1. PICK t \in 0..(n - 1) : \E j \in DOMAIN a[t].list : e = <<a[t].group_id, a[t].list[j]>>
        BY DEF Entries
      <3>2. PICK j \in DOMAIN a[t].list : e = <<a[t].group_id, a[t].list[j]>>
        BY <3>1
      <3>3. CASE t # s
        <4>1. b[t] = a[t]
          BY <1>5, <1>6, <3>3
        <4> QED BY <1>9, <3>2, <4>1, EntryAt
      <3>4. CASE t = s
        <4>1. j # k /\ j \in DOMAIN l
          BY <2>3, <3>2, <3>4
        <4>2. j \in DOMAIN b[s].list /\ e = <<b[s].group_id, b[s].list[j]>>
          BY <1>3, <1>5, <3>2, <3>4, <4>1
        <4> QED BY <1>9, <4>2, EntryAt
      <3> QED BY <3>3, <3>4
    <2> QED BY <2>1, <2>2, <2>3
  <1>11. M!Sums(b)[n] = M!Sums(a)[n]
    <2>1. \A t \in M!Slot : a[t].mdp_num \in Nat /\ b[t].mdp_num \in Nat
      BY <1>1, <1>5 DEF MetaGroup
    <2>2. \A t \in 0..(n - 1) : a[t].mdp_num = b[t].mdp_num
      BY <1>5, <1>6
    <2>3. MaxMetas \in Nat /\ n \in 0..MaxMetas
      BY <1>1
    <2> QED BY ONLY <2>1, <2>2, <2>3, SumsSame
  <1> QED BY <1>9, <1>10, <1>11

\* One of several payloads of a group is unlinked (meta_rm_mdp).
LEMMA Unlinking ==
  ASSUME MaxMetas \in Nat \ {0}, MaxGroupId \in Nat, NEW a, NEW n, Arranged(a, n),
         NEW s \in 0..(n - 1), NEW k \in DOMAIN a[s].list, Len(a[s].list) # 1,
         NEW b, b = UnlinkedAt(a, s, k)
  PROVE  /\ Arranged(b, n)
         /\ Entries(b, n) = Entries(a, n) \ {<<a[s].group_id, a[s].list[k]>>}
         /\ M!Sums(b)[n] = M!Sums(a)[n] - 1
  <1> DEFINE l == a[s].list
             g == a[s].group_id
             L == M!RemoveAt(l, k)
             Was(j) == IF j < k THEN j ELSE j + 1
  <1>1. /\ a \in [M!Slot -> MetaGroup] /\ n \in 0..MaxMetas /\ s \in M!Slot
        /\ a[s] \in MetaGroup /\ l \in Seq(MetaNode) /\ k \in DOMAIN l
        /\ g \in 0..MaxGroupId
    BY EntryAt DEF Arranged
  <1>2. Len(l) \in Nat /\ DOMAIN l = 1..Len(l) /\ k \in 1..Len(l) /\ Len(l) > 1
    <2>1. Len(l) \in Nat /\ DOMAIN l = 1..Len(l)
      BY <1>1
    <2>2. k \in 1..Len(l) /\ Len(l) # 1
      BY <1>1, <2>1
    <2> DEFINE len == Len(l)
    <2>3. len \in Nat /\ k \in 1..len /\ len # 1
      BY <2>1, <2>2
    <2> HIDE DEF len
    <2>4. len > 1
      BY <2>3
    <2> QED BY <2>1, <2>2, <2>4 DEF len
  <1>3. /\ L \in Seq(MetaNode) /\ Len(L) = Len(l) - 1 /\ DOMAIN L = 1..(Len(l) - 1)
        /\ \A j \in 1..(Len(l) - 1) : L[j] = l[Was(j)]
    BY <1>1, <1>2, WithoutOne
  <1>4. /\ \A j \in 1..(Len(l) - 1) : Was(j) \in DOMAIN l /\ Was(j) # k
        /\ \A j, i \in 1..(Len(l) - 1) : Was(j) = Was(i) => j = i
        /\ \A j \in DOMAIN l : j # k => \E i \in 1..(Len(l) - 1) : Was(i) = j
    <2>1. \A j \in DOMAIN l : j # k => \E i \in 1..(Len(l) - 1) : Was(i) = j
      <3>1. ASSUME NEW j \in DOMAIN l, j # k PROVE \E i \in 1..(Len(l) - 1) : Was(i) = j
        <4>1. CASE j < k
          <5>1. j \in 1..(Len(l) - 1) /\ Was(j) = j
            BY <1>2, <3>1, <4>1
          <5> QED BY <5>1
        <4>2. CASE j > k
          <5>1. j - 1 \in 1..(Len(l) - 1) /\ Was(j - 1) = j
            BY <1>2, <3>1, <4>2
          <5> QED BY <5>1
        <4> QED BY <1>2, <3>1, <4>1, <4>2
      <3> QED BY <3>1
    <2> QED BY <1>2, <2>1
  <1>5. a[s].mdp_num = Len(l)
    BY DEF Arranged
  <1>12. \A t \in 0..(n - 1) : \A j, i \in DOMAIN a[t].list :
          a[t].list[j].cell = a[t].list[i].cell => j = i
    BY DEF Arranged
  <1> HIDE DEF L, Was
  <1>6. b = [a EXCEPT ![s] = [group_id |-> g, mdp_num |-> a[s].mdp_num - 1, list |-> L]]
    BY <1>1 DEF MetaGroup, L, UnlinkedAt
  <1>7. /\ b \in [M!Slot -> MetaGroup]
        /\ b[s].group_id = g /\ b[s].mdp_num = Len(l) - 1 /\ b[s].list = L
        /\ \A t \in M!Slot \ {s} : b[t] = a[t]
    BY <1>1, <1>2, <1>3, <1>5, <1>6 DEF MetaGroup
  <1>8. \A t \in 0..(n - 1) : t \in M!Slot /\ b[t].group_id = a[t].group_id
    BY <1>1, <1>7 DEF M!Slot
  <1>9. Arranged(b, n)
    <2>1. \A t \in M!Slot : t >= n => b[t] = M!NoGroup
      BY <1>1, <1>7 DEF Arranged, M!Slot
    <2>2. \A t \in 0..(n - 1) : b[t].list # << >> /\ b[t].mdp_num = Len(b[t].list)
      <3>1. L # << >>
        BY <1>2, <1>3
      <3> QED BY <1>3, <1>7, <1>8, <3>1 DEF Arranged
    <2>3. \A t, u \in 0..(n - 1) : b[t].group_id = b[u].group_id => t = u
      BY <1>8 DEF Arranged
    <2>4. \A t \in 0..(n - 1) : \A j, i \in DOMAIN b[t].list :
            b[t].list[j].cell = b[t].list[i].cell => j = i
      <3>1. ASSUME NEW t \in 0..(n - 1), t # s
            PROVE \A j, i \in DOMAIN b[t].list : b[t].list[j].cell = b[t].list[i].cell => j = i
        <4>1. b[t] = a[t]
          BY <1>7, <1>8, <3>1
        <4>2. \A j, i \in DOMAIN a[t].list : a[t].list[j].cell = a[t].list[i].cell => j = i
          BY <1>12
        <4> QED BY ONLY <4>1, <4>2
      <3>2. ASSUME NEW j \in DOMAIN L, NEW i \in DOMAIN L, L[j].cell = L[i].cell PROVE j = i
        <4>1. \A p, q \in DOMAIN l : l[p].cell = l[q].cell => p = q
          BY <1>12
        <4>2. /\ j \in 1..(Len(l) - 1) /\ L[j] = l[Was(j)] /\ Was(j) \in DOMAIN l
              /\ i \in 1..(Len(l) - 1) /\ L[i] = l[Was(i)] /\ Was(i) \in DOMAIN l
          BY <1>3, <1>4
        <4>3. Was(j) = Was(i)
          BY ONLY <3>2, <4>1, <4>2
        <4> QED BY ONLY <1>4, <4>2, <4>3
      <3>3. \A j, i \in DOMAIN b[s].list : b[s].list[j].cell = b[s].list[i].cell => j = i
        BY <1>7, <3>2
      <3> QED BY <3>1, <3>3
    <2> QED BY <1>1, <1>7, <2>1, <2>2, <2>3, <2>4 DEF Arranged
  <1>10. Entries(b, n) = Entries(a, n) \ {<<g, l[k]>>}
    <2>1. ASSUME NEW e \in Entries(b, n) PROVE e \in Entries(a, n) \ {<<g, l[k]>>}
      <3>1. PICK t \in 0..(n - 1) : \E j \in DOMAIN b[t].list : e = <<b[t].group_id, b[t].list[j]>>
        BY DEF Entries
      <3>2. PICK j \in DOMAIN b[t].list : e = <<b[t].group_id, b[t].list[j]>>
        BY <3>1
      <3>3. CASE t # s
        <4>1. b[t] = a[t] /\ a[t].group_id # g
          BY <1>7, <1>8, <3>3 DEF Arranged
        <4> QED BY <3>2, <4>1, EntryAt
      <3>4. CASE t = s
        <4>1. Was(j) \in DOMAIN l /\ Was(j) # k /\ e = <<g, l[Was(j)]>>
          BY <1>3, <1>4, <1>7, <3>2, <3>4
        <4>2. l[Was(j)].cell # l[k].cell
          BY <1>1, <1>12, <4>1
        <4> QED BY <4>1, <4>2, EntryAt
      <3> QED BY <3>3, <3>4
    <2>2. ASSUME NEW e \in Entries(a, n), e # <<g, l[k]>> PROVE e \in Entries(b, n)
      <3>1. PICK t \in 0..(n - 1) : \E j \in DOMAIN a[t].list : e = <<a[t].group_id, a[t].list[j]>>
        BY DEF Entries
      <3>2. PICK j \in DOMAIN a[t].list : e = <<a[t].group_id, a[t].list[j]>>
        BY <3>1
      <3>3. CASE t # s
        <4>1. b[t] = a[t]
          BY <1>7, <1>8, <3>3
        <4> QED BY <1>9, <3>2, <4>1, EntryAt
      <3>4. CASE t = s
        <4>1. j # k /\ j \in DOMAIN l
          BY <2>2, <3>2, <3>4
        <4>2. PICK i \in 1..(Len(l) - 1) : Was(i) = j
          BY <1>4, <4>1
        <4>3. i \in DOMAIN b[s].list /\ e = <<b[s].group_id, b[s].list[i]>>
          BY <1>3, <1>7, <3>2, <3>4, <4>2
        <4> QED BY <1>9, <4>3, EntryAt
      <3> QED BY <3>3, <3>4
    <2> QED BY <2>1, <2>2
  <1>11. M!Sums(b)[n] = M!Sums(a)[n] - 1
    <2>1. \A t \in M!Slot : a[t].mdp_num \in Nat /\ b[t].mdp_num \in Nat
      BY <1>1, <1>7 DEF MetaGroup
    <2>2. \A t \in 0..(n - 1) : t # s => a[t].mdp_num = b[t].mdp_num
      BY <1>7, <1>8
    <2>3. b[s].mdp_num = a[s].mdp_num + (-1)
      BY <1>2, <1>5, <1>7
    <2>4. -1 \in Int /\ MaxMetas \in Nat /\ n \in 0..MaxMetas
      BY <1>1
    <2>5. M!Sums(b)[n] = M!Sums(a)[n] + (-1)
      BY ONLY <2>1, <2>2, <2>3, <2>4, SumsOneDiffers, s \in 0..(n - 1)
    <2>6. M!Sums(a)[n] \in Nat
      BY <2>1, <2>4, SumsAre
    <2> QED BY <2>5, <2>6
  <1> QED BY <1>9, <1>10, <1>11

\* A group loses its only payload: the groups behind it move up (oapvm_rem).
LEMMA ClosingUp ==
  ASSUME MaxMetas \in Nat \ {0}, MaxGroupId \in Nat, NEW a, NEW n, Arranged(a, n),
         NEW s \in 0..(n - 1), Len(a[s].list) = 1,
         NEW b, b \in [M!Slot -> MetaGroup],
         \A t \in M!Slot : b[t] = IF t < n - 1 THEN a[IF t < s THEN t ELSE t + 1] ELSE M!NoGroup
  PROVE  /\ Arranged(b, n - 1)
         /\ Entries(b, n - 1) = Entries(a, n) \ {<<a[s].group_id, a[s].list[1]>>}
         /\ M!Sums(b)[n - 1] = M!Sums(a)[n] - 1
  <1> DEFINE Was(t) == IF t < s THEN t ELSE t + 1
  <1>1. /\ a \in [M!Slot -> MetaGroup] /\ n \in 1..MaxMetas /\ s \in M!Slot /\ n - 1 \in 0..MaxMetas
        /\ a[s] \in MetaGroup /\ a[s].list \in Seq(MetaNode) /\ DOMAIN a[s].list = {1}
    <2>1. a \in [M!Slot -> MetaGroup] /\ n \in 0..MaxMetas
      BY DEF Arranged
    <2>2. n \in 1..MaxMetas /\ s \in M!Slot /\ n - 1 \in 0..MaxMetas
      BY <2>1 DEF M!Slot
    <2>3. a[s] \in MetaGroup
      BY <2>1, <2>2
    <2>4. a[s].list \in Seq(MetaNode)
      BY <2>3 DEF MetaGroup
    <2>5. DOMAIN a[s].list = {1}
      BY <2>4
    <2> QED BY <2>1, <2>2, <2>3, <2>4, <2>5
  <1>2. /\ \A t \in 0..(n - 2) : t \in M!Slot /\ b[t] = a[Was(t)] /\ Was(t) \in 0..(n - 1) /\ Was(t) # s
        /\ \A t, u \in 0..(n - 2) : Was(t) = Was(u) => t = u
        /\ \A t \in 0..(n - 1) : t # s => \E u \in 0..(n - 2) : Was(u) = t
    <2>1. \A t \in 0..(n - 1) : t # s => \E u \in 0..(n - 2) : Was(u) = t
      <3>1. ASSUME NEW t \in 0..(n - 1), t # s PROVE \E u \in 0..(n - 2) : Was(u) = t
        <4>1. CASE t < s
          <5>1. t \in 0..(n - 2) /\ Was(t) = t
            BY <1>1, <3>1, <4>1
          <5> QED BY <5>1
        <4>2. CASE t > s
          <5>a. n \in Int /\ s \in 0..(n - 1) /\ t \in 0..(n - 1)
            BY <1>1
          <5>b. t - 1 \in 0..(n - 2) /\ ~(t - 1 < s) /\ (t - 1) + 1 = t
            BY ONLY <4>2, <5>a
          <5>1. t - 1 \in 0..(n - 2) /\ Was(t - 1) = t
            BY <5>b
          <5> QED BY <5>1
        <4> QED BY <1>1, <3>1, <4>1, <4>2
      <3> QED BY <3>1
    <2>2. \A t \in 0..(n - 2) : t \in M!Slot /\ t < n - 1 /\ Was(t) \in 0..(n - 1) /\ Was(t) # s
      BY <1>1 DEF M!Slot
    <2> QED BY <1>1, <2>1, <2>2
  <1> HIDE DEF Was
  <1>3. (n - 1) - 1 = n - 2
    BY <1>1
  <1>4. Arranged(b, n - 1)
    <2>1. \A t \in M!Slot : t >= n - 1 => b[t] = M!NoGroup
      BY <1>1 DEF M!Slot
    <2>2. \A t \in 0..(n - 2) : b[t].list # << >> /\ b[t].mdp_num = Len(b[t].list)
      BY <1>2 DEF Arranged
    <2>3. \A t, u \in 0..(n - 2) : b[t].group_id = b[u].group_id => t = u
      <3>1. \A t, u \in 0..(n - 1) : a[t].group_id = a[u].group_id => t = u
        BY DEF Arranged
      <3> QED BY <1>2, <3>1
    <2>4. \A t \in 0..(n - 2) : \A j, i \in DOMAIN b[t].list :
            b[t].list[j].cell = b[t].list[i].cell => j = i
      <3>1. \A t \in 0..(n - 1) : \A j, i \in DOMAIN a[t].list :
              a[t].list[j].cell = a[t].list[i].cell => j = i
        BY DEF Arranged
      <3> QED BY <1>2, <3>1
    <2> QED BY <1>1, <1>3, <2>1, <2>2, <2>3, <2>4 DEF Arranged
  <1>5. Entries(b, n - 1) = Entries(a, n) \ {<<a[s].group_id, a[s].list[1]>>}
    <2>1. ASSUME NEW e \in Entries(b, n - 1) PROVE e \in Entries(a, n) \ {<<a[s].group_id, a[s].list[1]>>}
      <3>1. PICK t \in 0..(n - 2) : \E j \in DOMAIN b[t].list : e = <<b[t].group_id, b[t].list[j]>>
        BY <1>3 DEF Entries
      <3>2. PICK j \in DOMAIN b[t].list : e = <<b[t].group_id, b[t].list[j]>>
        BY <3>1
      <3>3. b[t] = a[Was(t)] /\ Was(t) \in 0..(n - 1) /\ a[Was(t)].group_id # a[s].group_id
        BY <1>2 DEF Arranged
      <3> QED BY <3>2, <3>3, EntryAt
    <2>2. ASSUME NEW e \in Entries(a, n), e # <<a[s].group_id, a[s].list[1]>> PROVE e \in Entries(b, n - 1)
      <3>1. PICK t \in 0..(n - 1) : \E j \in DOMAIN a[t].list : e = <<a[t].group_id, a[t].list[j]>>
        BY DEF Entries
      <3>2. PICK j \in DOMAIN a[t].list : e = <<a[t].group_id, a[t].list[j]>>
        BY <3>1
      <3>3. t # s
        BY <1>1, <2>2, <3>2
      <3>4. PICK u \in 0..(n - 2) : Was(u) = t
        BY <1>2, <3>3
      <3>5. b[u] = a[t]
        BY <1>2, <3>4
      <3> QED BY <1>3, <1>4, <3>2, <3>5, EntryAt
    <2> QED BY <2>1, <2>2
  <1>6. M!Sums(b)[n - 1] = M!Sums(a)[n] - 1
    <2>1. \A t \in M!Slot : a[t].mdp_num \in Nat /\ b[t].mdp_num \in Nat
      BY <1>1 DEF MetaGroup
    <2>2. \A t \in 0..(n - 2) : b[t].mdp_num = a[IF t < s THEN t ELSE t + 1].mdp_num
      BY <1>2 DEF Was
    <2>3. M!Sums(a)[n] = M!Sums(b)[n - 1] + a[s].mdp_num
      <3>1. MaxMetas \in Nat /\ n \in 1..MaxMetas
        BY <1>1
      <3> QED BY ONLY <2>1, <2>2, <3>1, SumsClosedUp, s \in 0..(n - 1)
    <2>4. a[s].mdp_num = 1
      BY DEF Arranged
    <2>5. M!Sums(b)[n - 1] \in Nat
      BY <1>1, <2>1, SumsAre
    <2> QED BY <2>3, <2>4, <2>5
  <1> QED BY <1>4, <1>5, <1>6

\* Nothing is in an array of no groups.
LEMMA NoEntries ==
  ASSUME MaxMetas \in Nat \ {0}, MaxGroupId \in Nat
  PROVE  LET a == [s \in M!Slot |-> M!NoGroup]
         IN  Arranged(a, 0) /\ Entries(a, 0) = {} /\ M!Sums(a)[0] = 0
  <1> DEFINE a == [s \in M!Slot |-> M!NoGroup]
  <1>1. << >> \in Seq(MetaNode) /\ 0 \in Nat /\ 0 \in 0..MaxGroupId /\ 0 \in 0..MaxMetas
    OBVIOUS
  <1>2. a \in [M!Slot -> MetaGroup] /\ \A s \in M!Slot : a[s] = M!NoGroup /\ a[s].mdp_num \in Nat
    BY <1>1 DEF M!NoGroup, MetaGroup
  <1> HIDE DEF a
  <1>3. 0..(0 - 1) = {}
    OBVIOUS
  <1>4. Arranged(a, 0) /\ Entries(a, 0) = {}
    BY <1>1, <1>2, <1>3 DEF Arranged, Entries
  <1>5. M!Sums(a)[0] = 0
    BY <1>2, SumsAre
  <1> QED BY <1>4, <1>5 DEF a

----------------------------------------------------------------------------
(* The entries and the heap                                                *)

MetaContent == {M!FREE, M!NODE} \cup {M!Bytes(p) : p \in Payloads}

\* A node has the bytes of a payload of its type and size; an empty one none.
HoldsBytes(n, h) ==
  \/ n.data = M!NULL /\ n.size = 0 /\ n.type # "USER"
  \/ /\ n.data \in M!Cell /\ n.size > 0 /\ (n.type = "USER" => n.size >= 16)
     /\ \E p \in Payloads : h[n.data] = M!Bytes(p) /\ p.type = n.type /\ p.size = n.size

\* M!Uuid and M!Is in a heap h.
UuidIn(n, h) == {p.uuid : p \in h[n.data].of}
IsIn(n, h, type, uuid) == n.type = type /\ (type = "USER" => n.size >= 16 /\ UuidIn(n, h) = {uuid})

\* Two entries share a block; two entries are one kind of payload of a group.
Share(x, y) == x.cell = y.cell \/ (x.data = y.data /\ x.data # M!NULL)
Alike(e, f, h) == /\ e[1] = f[1] /\ e[2].type = f[2].type
                  /\ e[2].type = "USER" => UuidIn(e[2], h) = UuidIn(f[2], h)

\* The heap h is what the entries H need, no two of which share or are alike.
Kept(H, h) ==
  /\ H \subseteq (0..MaxGroupId) \X MetaNode
  /\ h \in [M!Cell -> MetaContent]
  /\ \A e \in H : h[e[2].cell] = M!NODE /\ HoldsBytes(e[2], h)
  /\ \A e, f \in H : Share(e[2], f[2]) \/ Alike(e, f, h) => e = f
  /\ \A c \in M!Cell : h[c] # M!FREE => \E e \in H : c \in {e[2].cell, e[2].data}

\* What a block can hold tells the uses apart, and the payloads.
LEMMA ContentsDiffer ==
  /\ M!FREE # M!NODE
  /\ \A p : M!Bytes(p) # M!FREE /\ M!Bytes(p) # M!NODE /\ M!Bytes(p).of = {p} /\ M!Bytes(p).use = "bytes"
  /\ \A p, q : M!Bytes(p) = M!Bytes(q) => p = q
  <1>1. \A p : M!Bytes(p).of = {p} /\ M!Bytes(p).use = "bytes"
    BY DEF M!Bytes
  <1>2. M!FREE.use = "none" /\ M!NODE.use = "node"
    BY DEF M!FREE, M!NODE
  <1>3. \A p, q : M!Bytes(p) = M!Bytes(q) => p = q
    <2>1. ASSUME NEW p, NEW q, M!Bytes(p) = M!Bytes(q) PROVE p = q
      <3>1. {p} = {q}
        BY <1>1, <2>1
      <3> QED BY <3>1
    <2> QED BY <2>1
  <1> QED BY <1>1, <1>2, <1>3

\* NULL is no block of the heap.
LEMMA NullIsNoCell == M!NULL \notin M!Cell
  BY DEF M!NULL, M!Cell

\* An entry's blocks are blocks that are in use.
LEMMA EntryBlocks ==
  ASSUME NEW H, NEW h, Kept(H, h), NEW e \in H
  PROVE  /\ e[1] \in 0..MaxGroupId /\ e[2] \in MetaNode /\ e = <<e[1], e[2]>>
         /\ e[2].cell \in M!Cell /\ h[e[2].cell] = M!NODE /\ h[e[2].cell] # M!FREE
         /\ e[2].type \in M!Types /\ e[2].size \in Nat
         /\ \/ e[2].data = M!NULL
            \/ /\ e[2].data \in M!Cell /\ h[e[2].data] # M!FREE /\ e[2].data # e[2].cell
               /\ \E p \in Payloads : h[e[2].data] = M!Bytes(p)
         /\ \A f \in H : e[2].cell # f[2].data
  <1>1. e \in (0..MaxGroupId) \X MetaNode /\ h[e[2].cell] = M!NODE /\ HoldsBytes(e[2], h)
    BY DEF Kept
  <1>2. e[1] \in 0..MaxGroupId /\ e[2] \in MetaNode /\ e = <<e[1], e[2]>>
    BY <1>1
  <1>3. e[2].cell \in M!Cell /\ e[2].type \in M!Types /\ e[2].size \in Nat
    BY <1>2 DEF MetaNode
  <1>4. ASSUME NEW f \in H
        PROVE \/ f[2].data = M!NULL
              \/ /\ f[2].data \in M!Cell /\ h[f[2].data] # M!FREE /\ h[f[2].data] # M!NODE
                 /\ \E p \in Payloads : h[f[2].data] = M!Bytes(p)
    <2>1. HoldsBytes(f[2], h)
      BY DEF Kept
    <2> QED BY <2>1, ContentsDiffer DEF HoldsBytes
  <1>5. \A f \in H : e[2].cell # f[2].data
    BY <1>1, <1>3, <1>4, NullIsNoCell
  <1>6. h[e[2].cell] # M!FREE
    BY <1>1, ContentsDiffer
  <1> QED BY <1>1, <1>2, <1>3, <1>4, <1>5, <1>6

\* What does not change an entry's data does not change what it is.
LEMMA SameData ==
  ASSUME NEW H, NEW h, NEW h2, Kept(H, h), NEW e \in H,
         e[2].data \in M!Cell => h2[e[2].data] = h[e[2].data]
  PROVE  /\ HoldsBytes(e[2], h2)
         /\ e[2].type = "USER" => UuidIn(e[2], h2) = UuidIn(e[2], h) /\ e[2].data \in M!Cell /\ e[2].size >= 16
  <1>1. HoldsBytes(e[2], h)
    BY DEF Kept
  <1>2. HoldsBytes(e[2], h2)
    BY <1>1 DEF HoldsBytes
  <1>3. e[2].type = "USER" => e[2].data \in M!Cell /\ e[2].size >= 16
    BY <1>1 DEF HoldsBytes
  <1> QED BY <1>2, <1>3 DEF UuidIn

\* A payload of a kind that is not there yet is added.
LEMMA KeptAdded ==
  ASSUME NEW H, NEW h, NEW h2, Kept(H, h), NEW g \in 0..MaxGroupId, NEW p \in Payloads, p.size \in Nat,
         p.type = "USER" => p.size >= 16,
         NEW node \in MetaNode, node.type = p.type, node.size = p.size,
         IF p.size > 0 THEN node.data \in M!Cell /\ h[node.data] = M!FREE ELSE node.data = M!NULL,
         h[node.cell] = M!FREE, node.cell # node.data,
         h2 \in [M!Cell -> MetaContent],
         \A c \in M!Cell : h2[c] = IF c = node.cell THEN M!NODE
                                   ELSE IF c = node.data THEN M!Bytes(p) ELSE h[c],
         \A e \in H : e[1] = g => ~IsIn(e[2], h, p.type, p.uuid)
  PROVE  Kept(H \cup {<<g, node>>}, h2)
  <1> DEFINE x == <<g, node>>
  <1>1. x[1] = g /\ x[2] = node /\ x \in (0..MaxGroupId) \X MetaNode /\ node.cell \in M!Cell
    BY DEF MetaNode
  <1>2. ASSUME NEW e \in H
        PROVE /\ e[2].cell # node.cell /\ e[2].data # node.cell /\ e[2].cell # node.data
              /\ e[2].data = node.data => e[2].data = M!NULL
              /\ h2[e[2].cell] = M!NODE /\ (e[2].data \in M!Cell => h2[e[2].data] = h[e[2].data])
    <2>1. /\ e[2].cell # node.cell /\ e[2].data # node.cell /\ e[2].cell # node.data
          /\ e[2].data = node.data => e[2].data = M!NULL
          /\ e[2].cell \in M!Cell /\ h[e[2].cell] = M!NODE
      BY <1>1, EntryBlocks, NullIsNoCell
    <2> QED BY <2>1, NullIsNoCell
  <1>3. \A e \in H : h2[e[2].cell] = M!NODE /\ HoldsBytes(e[2], h2)
    BY <1>2, SameData
  <1>4. h2[node.cell] = M!NODE /\ (p.size > 0 => h2[node.data] = M!Bytes(p) /\ node.data \in M!Cell)
    BY <1>1
  <1>5. HoldsBytes(node, h2)
    <2>1. CASE p.size > 0
      BY <1>4, <2>1 DEF HoldsBytes
    <2>2. CASE ~(p.size > 0)
      <3>1. p.size = 0 /\ p.type # "USER" /\ node.data = M!NULL
        BY <2>2
      <3> QED BY <3>1 DEF HoldsBytes
    <2> QED BY <2>1, <2>2
  <1>6. p.type = "USER" => UuidIn(node, h2) = {p.uuid}
    <2>1. ASSUME p.type = "USER" PROVE UuidIn(node, h2) = {p.uuid}
      <3>1. h2[node.data].of = {p}
        BY <1>4, <2>1, ContentsDiffer
      <3> QED BY <3>1 DEF UuidIn
    <2> QED BY <2>1
  <1>7. ASSUME NEW e \in H PROVE ~Share(e[2], node) /\ ~Share(node, e[2]) /\ ~Alike(e, x, h2) /\ ~Alike(x, e, h2)
    <2>1. ~Share(e[2], node) /\ ~Share(node, e[2])
      BY <1>2 DEF Share
    <2>2. ASSUME e[1] = g, e[2].type = p.type, p.type = "USER" => UuidIn(e[2], h2) = {p.uuid} PROVE FALSE
      <3>1. p.type = "USER" => UuidIn(e[2], h) = {p.uuid} /\ e[2].size >= 16
        BY <1>2, <2>2, SameData
      <3> QED BY <2>2, <3>1 DEF IsIn
    <2> QED BY <1>1, <1>6, <2>1, <2>2 DEF Alike
  <1>8. ASSUME NEW e \in H, NEW f \in H, Share(e[2], f[2]) \/ Alike(e, f, h2) PROVE e = f
    <2>1. Alike(e, f, h2) => Alike(e, f, h)
      BY <1>2, SameData DEF Alike
    <2> QED BY <1>8, <2>1 DEF Kept
  <1>9. ASSUME NEW c \in M!Cell, h2[c] # M!FREE PROVE \E e \in H \cup {x} : c \in {e[2].cell, e[2].data}
    <2>1. CASE c = node.cell \/ c = node.data
      BY <1>1, <2>1
    <2>2. CASE ~(c = node.cell \/ c = node.data)
      BY <1>9, <2>2 DEF Kept
    <2> QED BY <2>1, <2>2
  <1>10. H \cup {x} \subseteq (0..MaxGroupId) \X MetaNode
    BY <1>1 DEF Kept
  <1> HIDE DEF x
  <1>11. \A e \in H \cup {x} : h2[e[2].cell] = M!NODE /\ HoldsBytes(e[2], h2)
    BY <1>1, <1>3, <1>4, <1>5
  <1>12. \A e, f \in H \cup {x} : Share(e[2], f[2]) \/ Alike(e, f, h2) => e = f
    BY <1>1, <1>7, <1>8
  <1> QED BY <1>9, <1>10, <1>11, <1>12 DEF Kept, x

\* An entry goes, and its blocks are freed.
LEMMA KeptRemoved ==
  ASSUME NEW H, NEW h, NEW h2, Kept(H, h), NEW x \in H,
         h2 \in [M!Cell -> MetaContent],
         \A c \in M!Cell : h2[c] = IF c \in {x[2].data, x[2].cell} THEN M!FREE ELSE h[c]
  PROVE  Kept(H \ {x}, h2)
  <1>1. ASSUME NEW e \in H, e # x
        PROVE /\ h2[e[2].cell] = M!NODE /\ (e[2].data \in M!Cell => h2[e[2].data] = h[e[2].data])
              /\ HoldsBytes(e[2], h2)
    <2>1. ~Share(e[2], x[2])
      BY <1>1 DEF Kept
    <2>2. /\ e[2].cell \in M!Cell /\ e[2].cell \notin {x[2].data, x[2].cell}
          /\ e[2].data \in M!Cell => e[2].data \notin {x[2].data, x[2].cell}
      BY <2>1, EntryBlocks, NullIsNoCell DEF Share
    <2>3. h[e[2].cell] = M!NODE
      BY DEF Kept
    <2>4. h2[e[2].cell] = M!NODE /\ (e[2].data \in M!Cell => h2[e[2].data] = h[e[2].data])
      BY <2>2, <2>3
    <2> QED BY <2>4, SameData
  <1>2. ASSUME NEW e \in H \ {x}, NEW f \in H \ {x}, Share(e[2], f[2]) \/ Alike(e, f, h2) PROVE e = f
    <2>1. Alike(e, f, h2) => Alike(e, f, h)
      BY <1>1, SameData DEF Alike
    <2> QED BY <1>2, <2>1 DEF Kept
  <1>3. ASSUME NEW c \in M!Cell, h2[c] # M!FREE PROVE \E e \in H \ {x} : c \in {e[2].cell, e[2].data}
    BY <1>3 DEF Kept
  <1>4. H \ {x} \subseteq (0..MaxGroupId) \X MetaNode
    BY DEF Kept
  <1> QED BY <1>1, <1>2, <1>3, <1>4 DEF Kept

\* An empty container has no block.
LEMMA KeptNone ==
  ASSUME NEW h, h = [c \in M!Cell |-> M!FREE]
  PROVE  Kept({}, h)
  BY DEF Kept, MetaContent

\* The blocks of an entry come free, and no others do, before it gets new
\* bytes: a payload is replaced by one of its kind.
LEMMA KeptReplaced ==
  ASSUME NEW H, NEW h, NEW h2, Kept(H, h), NEW g \in 0..MaxGroupId, NEW p \in Payloads, p.size \in Nat,
         p.type = "USER" => p.size >= 16,
         NEW old, <<g, old>> \in H, IsIn(old, h, p.type, p.uuid),
         NEW new \in MetaNode, new.type = old.type, new.cell = old.cell, new.size = p.size,
         IF p.size > 0 THEN new.data \in M!Cell /\ h[new.data] = M!FREE ELSE new.data = M!NULL,
         h2 \in [M!Cell -> MetaContent],
         \A c \in M!Cell : h2[c] = IF c = old.data THEN M!FREE
                                   ELSE IF c = new.data THEN M!Bytes(p) ELSE h[c]
  PROVE  Kept((H \ {<<g, old>>}) \cup {<<g, new>>}, h2)
  <1> DEFINE h1 == [c \in M!Cell |-> IF c \in {old.data, old.cell} THEN M!FREE ELSE h[c]]
             F == H \ {<<g, old>>}
  <1>1. h1 \in [M!Cell -> MetaContent]
    BY DEF Kept, MetaContent
  <1>2. /\ old \in MetaNode /\ old.cell \in M!Cell /\ h[old.cell] = M!NODE
        /\ old.data = M!NULL \/ (old.data \in M!Cell /\ h[old.data] # M!FREE)
        /\ old.cell # old.data
    <2>1. <<g, old>>[2] = old
      OBVIOUS
    <2> QED BY <2>1, EntryBlocks
  <1>3. Kept(F, h1)
    <2>1. <<g, old>>[2] = old
      OBVIOUS
    <2>2. \A c \in M!Cell : h1[c] = IF c \in {<<g, old>>[2].data, <<g, old>>[2].cell} THEN M!FREE ELSE h[c]
      BY <2>1
    <2> HIDE DEF h1
    <2> QED BY <1>1, <2>2, KeptRemoved
  <1>4. old.type = p.type
    BY DEF IsIn
  <1>5. ASSUME NEW e \in F, e[1] = g PROVE ~IsIn(e[2], h1, p.type, p.uuid)
    <2> DEFINE x == <<g, old>>
    <2>1. SUFFICES ASSUME IsIn(e[2], h1, p.type, p.uuid) PROVE FALSE
      OBVIOUS
    <2>2. x \in H /\ x[1] = g /\ x[2] = old /\ e \in H /\ e # x
      OBVIOUS
    <2> HIDE DEF x
    <2>3. ~Share(e[2], x[2]) /\ ~Alike(e, x, h)
      BY <2>2 DEF Kept
    <2>4. e[2].data \in M!Cell => h1[e[2].data] = h[e[2].data]
      BY <2>2, <2>3, EntryBlocks, NullIsNoCell DEF Share
    <2>5. e[2].type = "USER" => UuidIn(e[2], h1) = UuidIn(e[2], h)
      <3> HIDE DEF h1
      <3> QED BY <2>2, <2>4, SameData
    <2> HIDE DEF h1
    <2>6. e[2].type = p.type /\ (p.type = "USER" => UuidIn(e[2], h) = {p.uuid} /\ UuidIn(old, h) = {p.uuid})
      BY <2>1, <2>5 DEF IsIn
    <2> QED BY <1>4, <1>5, <2>2, <2>3, <2>6 DEF Alike
  <1>6. h1[new.cell] = M!FREE /\ new.cell # new.data
    BY <1>2, NullIsNoCell, ContentsDiffer
  <1>7. IF p.size > 0 THEN new.data \in M!Cell /\ h1[new.data] = M!FREE ELSE new.data = M!NULL
    OBVIOUS
  <1>8. \A c \in M!Cell : h2[c] = IF c = new.cell THEN M!NODE
                                  ELSE IF c = new.data THEN M!Bytes(p) ELSE h1[c]
    <2>1. \A c \in M!Cell : c = new.data => c # old.data /\ c # old.cell
      BY <1>2, NullIsNoCell, ContentsDiffer
    <2> QED BY <1>2, <2>1
  <1> HIDE DEF h1, F
  <1>9. new.type = p.type
    BY <1>4
  <1>10. Kept(F \cup {<<g, new>>}, h2)
    BY <1>3, <1>5, <1>6, <1>7, <1>8, <1>9, KeptAdded
  <1> QED BY <1>10 DEF F

----------------------------------------------------------------------------
(* Lookups                                                                 *)

GroupIn(a, n, g) == M!First({s \in 0..(n - 1) : a[s].group_id = g}, -1)
FindIn(l, h, type, uuid) == M!First({k \in DOMAIN l : IsIn(l[k], h, type, uuid)}, 0)
BytesIn(n, h) == UNION {h[c].of : c \in {n.data} \ {M!NULL}}
Found(n, h) == [found |-> TRUE, bytes |-> BytesIn(n, h)]
GetIn(a, n, h, name) ==
  LET s == GroupIn(a, n, name[1])
      k == IF s = -1 THEN 0 ELSE FindIn(a[s].list, h, name[2], name[3])
  IN  IF k = 0 THEN M!Nothing ELSE Found(a[s].list[k], h)

\* The operators of the model are these, of its variables.
LEMMA LookupsAre ==
  /\ \A n : M!Uuid(n) = UuidIn(n, heap)
  /\ \A n, type, uuid : M!Is(n, type, uuid) = IsIn(n, heap, type, uuid)
  /\ \A l, type, uuid : M!Find(l, type, uuid) = FindIn(l, heap, type, uuid)
  /\ \A g : M!Group(g) = GroupIn(md_arr, num, g)
  /\ \A name : M!Get(name) = GetIn(md_arr, num, heap, name)
  <1>1. \A n : M!Uuid(n) = UuidIn(n, heap)
    BY DEF M!Uuid, UuidIn
  <1>2. \A n, type, uuid : M!Is(n, type, uuid) = IsIn(n, heap, type, uuid)
    BY DEF M!Is, IsIn, M!Uuid, UuidIn
  <1>3. \A l, type, uuid : M!Find(l, type, uuid) = FindIn(l, heap, type, uuid)
    BY DEF M!Find, FindIn, M!Is, IsIn, M!Uuid, UuidIn
  <1>4. \A g : M!Group(g) = GroupIn(md_arr, num, g)
    BY DEF M!Group, GroupIn
  <1>5. \A name : M!Get(name) = GetIn(md_arr, num, heap, name)
    BY DEF M!Get, GetIn, Found, BytesIn, M!Find, FindIn, M!Is, IsIn, M!Uuid, UuidIn, M!Group, GroupIn
  <1> QED BY <1>1, <1>2, <1>3, <1>4, <1>5

\* The first of one place is that place, of none it is what stands for none.
LEMMA FirstIs ==
  /\ \A none : M!First({}, none) = none
  /\ \A none : \A k \in Int : M!First({k}, none) = k
  <1>1. \A k \in Int : M!Min({k}) = k
    BY DEF M!Min
  <1> QED BY <1>1 DEF M!First

\* A group's slot is found when it has one (meta_find_md).
LEMMA GroupFound ==
  ASSUME MaxMetas \in Nat, NEW a, NEW n, Arranged(a, n), NEW g
  PROVE  \/ /\ GroupIn(a, n, g) \in 0..(n - 1) /\ GroupIn(a, n, g) # -1
            /\ a[GroupIn(a, n, g)].group_id = g
            /\ \A t \in 0..(n - 1) : a[t].group_id = g => t = GroupIn(a, n, g)
         \/ GroupIn(a, n, g) = -1 /\ \A t \in 0..(n - 1) : a[t].group_id # g
  <1> DEFINE places == {s \in 0..(n - 1) : a[s].group_id = g}
  <1>1. CASE places = {}
    BY <1>1, FirstIs DEF GroupIn
  <1>2. CASE places # {}
    <2>1. PICK s \in 0..(n - 1) : a[s].group_id = g
      BY <1>2
    <2>2. \A t \in 0..(n - 1) : a[t].group_id = g => t = s
      BY <2>1 DEF Arranged
    <2>3. places = {s} /\ s \in Int /\ s # -1
      BY <2>1, <2>2 DEF Arranged
    <2>4. GroupIn(a, n, g) = s
      BY <2>3, FirstIs DEF GroupIn
    <2> QED BY <2>1, <2>2, <2>3, <2>4
  <1> QED BY <1>1, <1>2

\* A payload's place is found when it has one, and then is the only one of
\* its kind (meta_find_mdp).
LEMMA PayloadFound ==
  ASSUME MaxMetas \in Nat, NEW a, NEW n, NEW h, Arranged(a, n), Kept(Entries(a, n), h),
         NEW s \in 0..(n - 1), NEW type, NEW uuid
  PROVE  LET k == FindIn(a[s].list, h, type, uuid)
         IN  \/ k \in DOMAIN a[s].list /\ k # 0 /\ IsIn(a[s].list[k], h, type, uuid)
             \/ k = 0 /\ \A j \in DOMAIN a[s].list : ~IsIn(a[s].list[j], h, type, uuid)
  <1> DEFINE l == a[s].list
             g == a[s].group_id
             places == {k \in DOMAIN l : IsIn(l[k], h, type, uuid)}
  <1>1. CASE places = {}
    BY <1>1, FirstIs DEF FindIn
  <1>2. CASE places # {}
    <2>1. PICK k \in DOMAIN l : IsIn(l[k], h, type, uuid)
      BY <1>2
    <2>2. ASSUME NEW j \in DOMAIN l, IsIn(l[j], h, type, uuid) PROVE j = k
      <3> DEFINE e == <<g, l[j]>>
                 f == <<g, l[k]>>
      <3>1. e \in Entries(a, n) /\ f \in Entries(a, n)
        BY EntryAt
      <3>2. e[1] = g /\ e[2] = l[j] /\ f[1] = g /\ f[2] = l[k]
        OBVIOUS
      <3> HIDE DEF e, f
      <3>3. Alike(e, f, h)
        BY <2>1, <2>2, <3>2 DEF Alike, IsIn
      <3>4. l[j].cell = l[k].cell
        BY <3>1, <3>2, <3>3 DEF Kept
      <3> QED BY <3>4 DEF Arranged
    <2>3. l \in Seq(MetaNode)
      BY EntryAt, <2>1
    <2>4. k \in Int /\ k # 0
      BY <2>1, <2>3
    <2>5. places = {k}
      BY <2>1, <2>2
    <2>6. FindIn(l, h, type, uuid) = k
      BY <2>4, <2>5, FirstIs DEF FindIn
    <2> QED BY <2>1, <2>4, <2>6
  <1> QED BY <1>1, <1>2

\* An entry is what a name asks for.
Matches(e, h, name) == e[1] = name[1] /\ IsIn(e[2], h, name[2], name[3])

\* What a lookup of a name answers, in terms of the entries.
IsAnswer(H, h, name, v) ==
  \/ \E e \in H : Matches(e, h, name) /\ v = Found(e[2], h)
  \/ (\A e \in H : ~Matches(e, h, name)) /\ v = M!Nothing

\* oapvm_get looks an entry up.
LEMMA GetAnswers ==
  ASSUME MaxMetas \in Nat, NEW a, NEW n, NEW h, Arranged(a, n), Kept(Entries(a, n), h), NEW name
  PROVE  IsAnswer(Entries(a, n), h, name, GetIn(a, n, h, name))
  <1> DEFINE s == GroupIn(a, n, name[1])
             k == FindIn(a[s].list, h, name[2], name[3])
  <1>1. \A e \in Entries(a, n) : \E t \in 0..(n - 1) : \E j \in DOMAIN a[t].list :
           e[1] = a[t].group_id /\ e[2] = a[t].list[j]
    BY DEF Entries
  <1>2. CASE s = -1
    <2>1. \A t \in 0..(n - 1) : a[t].group_id # name[1]
      BY <1>2, GroupFound
    <2>2. \A e \in Entries(a, n) : ~Matches(e, h, name)
      BY <1>1, <2>1 DEF Matches
    <2> QED BY <1>2, <2>2 DEF IsAnswer, GetIn
  <1>3. CASE s # -1
    <2>1. /\ s \in 0..(n - 1) /\ a[s].group_id = name[1]
          /\ \A t \in 0..(n - 1) : a[t].group_id = name[1] => t = s
      BY <1>3, GroupFound
    <2> HIDE DEF s
    <2>2. CASE k = 0
      <3>1. \A j \in DOMAIN a[s].list : ~IsIn(a[s].list[j], h, name[2], name[3])
        BY <2>1, <2>2, PayloadFound
      <3>2. \A e \in Entries(a, n) : ~Matches(e, h, name)
        BY <1>1, <2>1, <3>1 DEF Matches
      <3> QED BY <1>3, <2>2, <3>2 DEF IsAnswer, GetIn, s
    <2>3. CASE k # 0
      <3>1. k \in DOMAIN a[s].list /\ IsIn(a[s].list[k], h, name[2], name[3])
        BY <2>1, <2>3, PayloadFound
      <3> DEFINE e == <<a[s].group_id, a[s].list[k]>>
      <3>2. e \in Entries(a, n)
        BY <2>1, <3>1, EntryAt
      <3>3. e[1] = name[1] /\ e[2] = a[s].list[k]
        BY <2>1
      <3>4. GetIn(a, n, h, name) = Found(a[s].list[k], h)
        BY <1>3, <2>3 DEF GetIn, s
      <3> HIDE DEF e, k
      <3> QED BY <3>1, <3>2, <3>3, <3>4 DEF IsAnswer, Matches
    <2> QED BY <2>2, <2>3
  <1> QED BY <1>2, <1>3

\* An entry answers to one name.
LEMMA OneName ==
  ASSUME M!MetaAssumption, NEW e, NEW h, NEW m \in M!Name, NEW n \in M!Name,
         Matches(e, h, m), Matches(e, h, n)
  PROVE  m = n
  <1>1. PICK g \in GroupIds, p \in Payloads : m = <<g, p.type, p.uuid>>
    BY DEF M!Name
  <1>2. PICK i \in GroupIds, q \in Payloads : n = <<i, q.type, q.uuid>>
    BY DEF M!Name
  <1>3. g = i /\ p.type = q.type
    BY <1>1, <1>2 DEF Matches, IsIn
  <1>4. CASE p.type = "USER"
    <2>1. {p.uuid} = {q.uuid}
      BY <1>1, <1>2, <1>3, <1>4 DEF Matches, IsIn
    <2> QED BY <1>1, <1>2, <1>3, <2>1
  <1>5. CASE p.type # "USER"
    BY <1>1, <1>2, <1>3, <1>5 DEF M!MetaAssumption
  <1> QED BY <1>4, <1>5

\* A name that the same entry, with the same bytes, answers to before and
\* after a step, or none, has the same answer.
LEMMA SameAnswer ==
  ASSUME NEW H, NEW h, NEW F, NEW i, Kept(H, h), Kept(F, i), NEW name, NEW v, NEW u,
         IsAnswer(H, h, name, v), IsAnswer(F, i, name, u),
         \A e \in H : Matches(e, h, name) =>
            e \in F /\ (e[2].data \in M!Cell => i[e[2].data] = h[e[2].data]),
         \A e \in F : Matches(e, i, name) =>
            e \in H /\ (e[2].data \in M!Cell => i[e[2].data] = h[e[2].data])
  PROVE  v = u
  <1>1. ASSUME NEW e \in H, e \in F, e[2].data \in M!Cell => i[e[2].data] = h[e[2].data]
        PROVE (Matches(e, h, name) <=> Matches(e, i, name)) /\ Found(e[2], h) = Found(e[2], i)
    <2>1. e[2].type = "USER" => UuidIn(e[2], i) = UuidIn(e[2], h)
      BY <1>1, SameData
    <2>2. e[2].data = M!NULL \/ e[2].data \in M!Cell
      BY <1>1, EntryBlocks
    <2>3. BytesIn(e[2], h) = BytesIn(e[2], i)
      <3>1. CASE e[2].data = M!NULL
        <4>1. {e[2].data} \ {M!NULL} = {}
          BY <3>1
        <4> QED BY <4>1 DEF BytesIn
      <3>2. CASE e[2].data \in M!Cell
        BY <1>1, <3>2 DEF BytesIn
      <3> QED BY <2>2, <3>1, <3>2
    <2> QED BY <2>1, <2>3 DEF Matches, IsIn, Found
  <1>2. ASSUME NEW e \in H, NEW f \in H, Matches(e, h, name), Matches(f, h, name) PROVE e = f
    <2>1. Alike(e, f, h)
      BY <1>2 DEF Matches, IsIn, Alike
    <2> QED BY <2>1 DEF Kept
  <1>3. CASE \E e \in H : Matches(e, h, name)
    <2>1. PICK e \in H : Matches(e, h, name)
      BY <1>3
    <2>2. v = Found(e[2], h)
      BY <1>2, <2>1 DEF IsAnswer
    <2>3. e \in F /\ Matches(e, i, name) /\ Found(e[2], h) = Found(e[2], i)
      BY <1>1, <2>1
    <2>4. PICK f \in F : Matches(f, i, name) /\ u = Found(f[2], i)
      BY <2>3 DEF IsAnswer
    <2>5. f \in H /\ (f[2].data \in M!Cell => i[f[2].data] = h[f[2].data])
      BY <2>4
    <2>6. Matches(f, h, name)
      BY <1>1, <2>4, <2>5
    <2>7. e = f
      BY <1>2, <2>1, <2>5, <2>6
    <2> QED BY <2>2, <2>3, <2>4, <2>7
  <1>4. CASE ~\E e \in H : Matches(e, h, name)
    <2>1. ASSUME NEW f \in F, Matches(f, i, name) PROVE FALSE
      BY <1>1, <1>4, <2>1
    <2> QED BY <1>4, <2>1 DEF IsAnswer
  <1> QED BY <1>3, <1>4

\* An entry's data are as they were when only free blocks, and those of
\* another entry, have changed.
LEMMA DataStays ==
  ASSUME NEW H, NEW h, NEW h2, Kept(H, h), NEW e \in H,
         \A c \in M!Cell : \/ h2[c] = h[c] \/ h[c] = M!FREE
                           \/ \E x \in H : x # e /\ c \in {x[2].cell, x[2].data}
  PROVE  e[2].data \in M!Cell => h2[e[2].data] = h[e[2].data]
  <1> SUFFICES ASSUME e[2].data \in M!Cell PROVE h2[e[2].data] = h[e[2].data]
    OBVIOUS
  <1>1. h[e[2].data] # M!FREE
    BY EntryBlocks, NullIsNoCell
  <1>2. ASSUME NEW x \in H, x # e PROVE e[2].data \notin {x[2].cell, x[2].data}
    <2>1. ~Share(e[2], x[2])
      BY <1>2 DEF Kept
    <2>2. x[2].cell # e[2].data
      BY EntryBlocks
    <2> QED BY <2>1, <2>2, NullIsNoCell DEF Share
  <1> QED BY <1>1, <1>2

----------------------------------------------------------------------------
(* What the operations do to the entries                                   *)

\* A node is new, with a copy of p.
Adds(H, h, F, i, g, p, node) ==
  /\ g \in 0..MaxGroupId /\ p \in Payloads /\ p.size \in Nat /\ (p.type = "USER" => p.size >= 16)
  /\ node \in MetaNode /\ node.type = p.type /\ node.size = p.size
  /\ IF p.size > 0 THEN node.data \in M!Cell /\ h[node.data] = M!FREE ELSE node.data = M!NULL
  /\ h[node.cell] = M!FREE /\ node.cell # node.data
  /\ i \in [M!Cell -> MetaContent]
  /\ \A c \in M!Cell : i[c] = IF c = node.cell THEN M!NODE
                              ELSE IF c = node.data THEN M!Bytes(p) ELSE h[c]
  /\ \A e \in H : e[1] = g => ~IsIn(e[2], h, p.type, p.uuid)
  /\ F = H \cup {<<g, node>>}

\* A node gets a copy of p for what it had.
Replaces(H, h, F, i, g, p, old, new) ==
  /\ g \in 0..MaxGroupId /\ p \in Payloads /\ p.size \in Nat /\ (p.type = "USER" => p.size >= 16)
  /\ <<g, old>> \in H /\ IsIn(old, h, p.type, p.uuid)
  /\ new \in MetaNode /\ new.type = old.type /\ new.cell = old.cell /\ new.size = p.size
  /\ IF p.size > 0 THEN new.data \in M!Cell /\ h[new.data] = M!FREE ELSE new.data = M!NULL
  /\ i \in [M!Cell -> MetaContent]
  /\ \A c \in M!Cell : i[c] = IF c = old.data THEN M!FREE
                              ELSE IF c = new.data THEN M!Bytes(p) ELSE h[c]
  /\ F = (H \ {<<g, old>>}) \cup {<<g, new>>}

\* A node goes.
Removes(H, h, F, i, x) ==
  /\ x \in H
  /\ i \in [M!Cell -> MetaContent]
  /\ \A c \in M!Cell : i[c] = IF c \in {x[2].data, x[2].cell} THEN M!FREE ELSE h[c]
  /\ F = H \ {x}

\* What a set stores is found.
MetaValue == {[found |-> TRUE, bytes |-> b] : b \in {{}} \cup {{p} : p \in Payloads}}

\* What is found of an entry is a value: the bytes of one payload, or none.
LEMMA FoundIsValue ==
  ASSUME NEW H, NEW h, Kept(H, h), NEW e \in H
  PROVE  Found(e[2], h) \in MetaValue /\ Found(e[2], h) # M!Nothing
  <1>1. BytesIn(e[2], h) \in {{}} \cup {{p} : p \in Payloads}
    <2>1. CASE e[2].data = M!NULL
      <3>1. {e[2].data} \ {M!NULL} = {}
        BY <2>1
      <3>2. BytesIn(e[2], h) = {}
        BY <3>1 DEF BytesIn
      <3> QED BY <3>2
    <2>2. CASE e[2].data # M!NULL
      <3>1. PICK p \in Payloads : h[e[2].data] = M!Bytes(p)
        BY <2>2, EntryBlocks
      <3>2. {e[2].data} \ {M!NULL} = {e[2].data}
        BY <2>2
      <3>3. BytesIn(e[2], h) = {p}
        BY <3>1, <3>2, ContentsDiffer DEF BytesIn
      <3> QED BY <3>3
    <2> QED BY <2>1, <2>2
  <1>2. Found(e[2], h).found = TRUE /\ M!Nothing.found = FALSE
    BY DEF Found, M!Nothing
  <1> QED BY <1>1, <1>2 DEF Found, MetaValue

\* A payload that is added is what its name then answers; no other name's
\* answer changes.
LEMMA AddsAnswers ==
  ASSUME M!MetaAssumption, NEW H, NEW h, NEW F, NEW i, NEW g, NEW p, NEW node,
         Kept(H, h), Adds(H, h, F, i, g, p, node),
         NEW it \in M!Name, it = <<g, p.type, p.uuid>>
  PROVE  /\ Kept(F, i)
         /\ \A u : IsAnswer(F, i, it, u) => u \in MetaValue
         /\ \A v, u : \A name \in M!Name :
              name # it /\ IsAnswer(H, h, name, v) /\ IsAnswer(F, i, name, u) => v = u
  <1> DEFINE x == <<g, node>>
  <1>1. Kept(F, i)
    BY KeptAdded DEF Adds
  <1>2. x \in F /\ x[1] = g /\ x[2] = node /\ it[1] = g /\ it[2] = p.type /\ it[3] = p.uuid
    BY DEF Adds
  <1>3. Matches(x, i, it)
    <2>1. p.type = "USER" => UuidIn(node, i) = {p.uuid}
      <3>1. ASSUME p.type = "USER" PROVE UuidIn(node, i) = {p.uuid}
        <4>1. node.data \in M!Cell /\ node.data # node.cell
          BY <3>1 DEF Adds
        <4>2. i[node.data] = M!Bytes(p)
          BY <4>1 DEF Adds
        <4> QED BY <4>2, ContentsDiffer DEF UuidIn
      <3> QED BY <3>1
    <2> QED BY <1>2, <2>1 DEF Matches, IsIn, Adds
  <1>4. ASSUME NEW e \in H PROVE e \in F /\ (e[2].data \in M!Cell => i[e[2].data] = h[e[2].data])
    <2>1. \A c \in M!Cell : i[c] = h[c] \/ h[c] = M!FREE
      BY NullIsNoCell DEF Adds
    <2> QED BY <2>1, DataStays DEF Adds
  <1> HIDE DEF x
  <1>5. ASSUME NEW u, IsAnswer(F, i, it, u) PROVE u \in MetaValue
    BY <1>1, <1>2, <1>3, <1>5, FoundIsValue DEF IsAnswer
  <1>6. ASSUME NEW name \in M!Name, NEW v, NEW u, name # it, IsAnswer(H, h, name, v), IsAnswer(F, i, name, u)
        PROVE v = u
    <2>1. it \in M!Name
      OBVIOUS
    <2>2. ~Matches(x, i, name)
      BY <1>3, <1>6, <2>1, OneName
    <2>3. \A e \in F : Matches(e, i, name) => e \in H /\ (e[2].data \in M!Cell => i[e[2].data] = h[e[2].data])
      BY <1>4, <2>2 DEF Adds, x
    <2> QED BY <1>1, <1>4, <1>6, <2>3, SameAnswer
  <1> QED BY <1>1, <1>5, <1>6

\* So with a payload that replaces one of its kind.
LEMMA ReplacesAnswers ==
  ASSUME M!MetaAssumption, NEW H, NEW h, NEW F, NEW i, NEW g, NEW p, NEW old, NEW new,
         Kept(H, h), Replaces(H, h, F, i, g, p, old, new),
         NEW it \in M!Name, it = <<g, p.type, p.uuid>>
  PROVE  /\ Kept(F, i)
         /\ \A u : IsAnswer(F, i, it, u) => u \in MetaValue
         /\ \A v, u : \A name \in M!Name :
              name # it /\ IsAnswer(H, h, name, v) /\ IsAnswer(F, i, name, u) => v = u
  <1> DEFINE x == <<g, old>>
             y == <<g, new>>
  <1>1. Kept(F, i)
    BY KeptReplaced DEF Replaces
  <1>2. /\ x \in H /\ x[1] = g /\ x[2] = old /\ it[1] = g /\ it[2] = p.type /\ it[3] = p.uuid
        /\ y \in F /\ y[1] = g /\ y[2] = new
    BY DEF Replaces
  <1>3. Matches(x, h, it) /\ Matches(y, i, it)
    <2>1. p.type = "USER" => UuidIn(new, i) = {p.uuid}
      <3>1. ASSUME p.type = "USER" PROVE UuidIn(new, i) = {p.uuid}
        <4>1. new.data \in M!Cell /\ h[new.data] = M!FREE
          BY <3>1 DEF Replaces
        <4>2. new.data # old.data
          BY <1>2, <4>1, EntryBlocks, NullIsNoCell
        <4>3. i[new.data] = M!Bytes(p)
          BY <4>1, <4>2 DEF Replaces
        <4> QED BY <4>3, ContentsDiffer DEF UuidIn
      <3> QED BY <3>1
    <2> QED BY <1>2, <2>1 DEF Matches, IsIn, Replaces
  <1> HIDE DEF x, y
  <1>4. ASSUME NEW e \in H, e # x
        PROVE e \in F /\ (e[2].data \in M!Cell => i[e[2].data] = h[e[2].data])
    <2>1. \A c \in M!Cell : i[c] = h[c] \/ h[c] = M!FREE \/ c \in {x[2].cell, x[2].data}
      BY <1>2, NullIsNoCell DEF Replaces
    <2>2. e \in F
      BY <1>4 DEF Replaces, x
    <2> QED BY <1>2, <1>4, <2>1, <2>2, DataStays
  <1>5. ASSUME NEW u, IsAnswer(F, i, it, u) PROVE u \in MetaValue
    BY <1>1, <1>2, <1>3, <1>5, FoundIsValue DEF IsAnswer
  <1>6. ASSUME NEW name \in M!Name, NEW v, NEW u, name # it, IsAnswer(H, h, name, v), IsAnswer(F, i, name, u)
        PROVE v = u
    <2>1. it \in M!Name
      OBVIOUS
    <2>2. ~Matches(x, h, name) /\ ~Matches(y, i, name)
      BY <1>3, <1>6, <2>1, OneName
    <2>3. \A e \in F : Matches(e, i, name) => e \in H /\ (e[2].data \in M!Cell => i[e[2].data] = h[e[2].data])
      BY <1>4, <2>2 DEF Replaces, x, y
    <2>4. \A e \in H : Matches(e, h, name) => e \in F /\ (e[2].data \in M!Cell => i[e[2].data] = h[e[2].data])
      BY <1>4, <2>2
    <2> QED BY <1>1, <1>6, <2>3, <2>4, SameAnswer
  <1> QED BY <1>1, <1>5, <1>6

\* And a payload that is removed is not found any more.
LEMMA RemovesAnswers ==
  ASSUME M!MetaAssumption, NEW H, NEW h, NEW F, NEW i, NEW x, NEW it \in M!Name,
         Kept(H, h), Removes(H, h, F, i, x), Matches(x, h, it)
  PROVE  /\ Kept(F, i)
         /\ \A v : IsAnswer(H, h, it, v) => v # M!Nothing
         /\ \A u : IsAnswer(F, i, it, u) => u = M!Nothing
         /\ \A v, u : \A name \in M!Name :
              name # it /\ IsAnswer(H, h, name, v) /\ IsAnswer(F, i, name, u) => v = u
  <1>1. Kept(F, i) /\ x \in H
    BY KeptRemoved DEF Removes
  <1>2. ASSUME NEW e \in H, e # x
        PROVE e \in F /\ (e[2].data \in M!Cell => i[e[2].data] = h[e[2].data])
    <2>1. \A c \in M!Cell : i[c] = h[c] \/ h[c] = M!FREE \/ c \in {x[2].cell, x[2].data}
      BY DEF Removes
    <2>2. e \in F
      BY <1>2 DEF Removes
    <2> QED BY <1>1, <1>2, <2>1, <2>2, DataStays
  <1>3. ASSUME NEW v, IsAnswer(H, h, it, v) PROVE v # M!Nothing
    BY <1>1, <1>3, FoundIsValue DEF IsAnswer
  <1>4. ASSUME NEW u, IsAnswer(F, i, it, u) PROVE u = M!Nothing
    <2>1. ASSUME NEW e \in F, Matches(e, i, it) PROVE FALSE
      <3>1. e \in H /\ e # x
        BY DEF Removes
      <3>2. e[2].type = "USER" => UuidIn(e[2], i) = UuidIn(e[2], h)
        BY <1>2, <3>1, SameData
      <3>3. Matches(e, h, it)
        BY <2>1, <3>2 DEF Matches, IsIn
      <3>4. Alike(e, x, h)
        BY <3>3 DEF Matches, IsIn, Alike
      <3> QED BY <1>1, <3>1, <3>4 DEF Kept
    <2> QED BY <1>4, <2>1 DEF IsAnswer
  <1>5. ASSUME NEW name \in M!Name, NEW v, NEW u, name # it, IsAnswer(H, h, name, v), IsAnswer(F, i, name, u)
        PROVE v = u
    <2>1. ~Matches(x, h, name)
      BY <1>5, OneName
    <2>2. \A e \in F : Matches(e, i, name) => e \in H /\ (e[2].data \in M!Cell => i[e[2].data] = h[e[2].data])
      BY <1>2 DEF Removes
    <2>3. \A e \in H : Matches(e, h, name) => e \in F /\ (e[2].data \in M!Cell => i[e[2].data] = h[e[2].data])
      BY <1>2, <2>1
    <2> QED BY <1>1, <1>5, <2>2, <2>3, SameAnswer
  <1> QED BY <1>1, <1>3, <1>4, <1>5

----------------------------------------------------------------------------
(* The inductive invariant of Metadata                                     *)

MetaInv ==
  /\ Arranged(md_arr, num) /\ Kept(Entries(md_arr, num), heap)
  /\ M!Total <= MaxPlds
  /\ todo \in Seq(GroupIds \X Payloads) /\ alive \in BOOLEAN
  /\ res \in {"OK", "INVALID", "OOM", "MAX", "NOT_FOUND"}

\* What the assumptions say of the constants.
LEMMA MetaConstants ==
  ASSUME M!MetaAssumption
  PROVE  /\ MaxMetas \in Nat \ {0} /\ MaxMetas \in Nat /\ MaxPlds \in Nat /\ MaxGroupId \in Nat
         /\ \A p \in Payloads : p.type \in M!Types /\ p.size \in Nat
         /\ \A b \in Batches : b \in Seq(GroupIds \X Payloads)
  BY DEF M!MetaAssumption

\* The copy of a payload, and the error path that gives it back (oapvm_set).
LEMMA CopyIs ==
  ASSUME M!MetaAssumption, MetaInv, NEW p \in Payloads, p.size > 0 => M!Vacant(heap) # {}
  PROVE  /\ IF p.size > 0 THEN M!Data(p) \in M!Cell /\ heap[M!Data(p)] = M!FREE ELSE M!Data(p) = M!NULL
         /\ M!Copied(p) \in [M!Cell -> MetaContent]
         /\ \A c \in M!Cell : M!Copied(p)[c] = IF c = M!Data(p) THEN M!Bytes(p) ELSE heap[c]
         /\ M!Undone(p) = heap
  <1>1. heap \in [M!Cell -> MetaContent] /\ M!Bytes(p) \in MetaContent
    BY DEF MetaInv, Kept, MetaContent
  <1>2. CASE p.size > 0
    <2>1. M!Data(p) = M!ForBytes(heap)
      BY <1>2 DEF M!Data
    <2>2. M!Data(p) \in M!Cell /\ heap[M!Data(p)] = M!FREE
      BY <1>2, <2>1, BlocksAreFree
    <2>3. M!Copied(p) = [heap EXCEPT ![M!Data(p)] = M!Bytes(p)]
      BY <1>2 DEF M!Copied
    <2>4. /\ M!Copied(p) \in [M!Cell -> MetaContent]
          /\ \A c \in M!Cell : M!Copied(p)[c] = IF c = M!Data(p) THEN M!Bytes(p) ELSE heap[c]
      BY <1>1, <2>2, <2>3
    <2>5. M!Undone(p) = [c \in M!Cell |-> IF c = M!Data(p) THEN M!FREE ELSE M!Copied(p)[c]]
      BY DEF M!Undone, M!Freed
    <2>6. M!Undone(p) = heap
      BY <1>1, <2>2, <2>4, <2>5
    <2> QED BY <1>2, <2>2, <2>4, <2>6
  <1>3. CASE ~(p.size > 0)
    <2>1. M!Data(p) = M!NULL /\ M!Copied(p) = heap
      BY <1>3 DEF M!Data, M!Copied
    <2>2. M!Undone(p) = [c \in M!Cell |-> IF c = M!NULL THEN M!FREE ELSE heap[c]]
      BY <2>1 DEF M!Undone, M!Freed
    <2>3. M!Undone(p) = heap
      BY <1>1, <2>2, NullIsNoCell
    <2> QED BY <1>1, <1>3, <2>1, <2>3, NullIsNoCell
  <1> QED BY <1>2, <1>3

\* What a set finds of the payload it sets.
LEMMA AtIs ==
  ASSUME M!MetaAssumption, MetaInv, NEW g, NEW p
  PROVE  \/ /\ M!At(g, p) = 0
            /\ \A e \in Entries(md_arr, num) : e[1] = g => ~IsIn(e[2], heap, p.type, p.uuid)
         \/ /\ M!At(g, p) # 0 /\ M!Group(g) \in 0..(num - 1) /\ md_arr[M!Group(g)].group_id = g
            /\ M!At(g, p) \in DOMAIN md_arr[M!Group(g)].list
            /\ IsIn(md_arr[M!Group(g)].list[M!At(g, p)], heap, p.type, p.uuid)
  <1> DEFINE s == GroupIn(md_arr, num, g)
  <1>1. M!Group(g) = s
    BY LookupsAre
  <1>2. M!At(g, p) = IF s = -1 THEN 0 ELSE FindIn(md_arr[s].list, heap, p.type, p.uuid)
    BY <1>1, LookupsAre DEF M!At
  <1>3. \A e \in Entries(md_arr, num) : \E t \in 0..(num - 1) : \E j \in DOMAIN md_arr[t].list :
           e[1] = md_arr[t].group_id /\ e[2] = md_arr[t].list[j]
    BY DEF Entries
  <1>4. MaxMetas \in Nat /\ Arranged(md_arr, num) /\ Kept(Entries(md_arr, num), heap)
    BY MetaConstants DEF MetaInv
  <1>5. CASE s = -1
    <2>1. \A t \in 0..(num - 1) : md_arr[t].group_id # g
      BY <1>4, <1>5, GroupFound
    <2> QED BY <1>2, <1>3, <1>5, <2>1
  <1>6. CASE s # -1
    <2>1. /\ s \in 0..(num - 1) /\ md_arr[s].group_id = g
          /\ \A t \in 0..(num - 1) : md_arr[t].group_id = g => t = s
      BY <1>4, <1>6, GroupFound
    <2> HIDE DEF s
    <2> DEFINE k == FindIn(md_arr[s].list, heap, p.type, p.uuid)
    <2>2. \/ k \in DOMAIN md_arr[s].list /\ k # 0 /\ IsIn(md_arr[s].list[k], heap, p.type, p.uuid)
          \/ k = 0 /\ \A j \in DOMAIN md_arr[s].list : ~IsIn(md_arr[s].list[j], heap, p.type, p.uuid)
      BY <1>4, <2>1, PayloadFound
    <2>3. M!At(g, p) = k
      BY <1>2, <1>6
    <2> HIDE DEF k
    <2> QED BY <1>1, <1>3, <2>1, <2>2, <2>3
  <1> QED BY <1>5, <1>6

\* A user defined payload that is accepted has a uuid (meta_verify_mdp_data).
LEMMA VerifiedUser ==
  ASSUME NEW p, M!Verified(p) PROVE p.type = "USER" => p.size >= 16
  BY DEF M!Verified

\* oapvm_set adds a payload.
LEMMA SetAddsDoes ==
  ASSUME M!MetaAssumption, MetaInv, NEW g, NEW p \in Payloads, M!SetAdds(g, p)
  PROVE  /\ Arranged(md_arr', num') /\ M!Total' <= MaxPlds
         /\ \E node : Adds(Entries(md_arr, num), heap, Entries(md_arr', num'), heap', g, p, node)
  <1> DEFINE s == IF M!Group(g) = -1 THEN num ELSE M!Group(g)
             old == IF M!Group(g) = -1 THEN [M!NoGroup EXCEPT !.group_id = g] ELSE md_arr[s]
             node == [type |-> p.type, size |-> p.size, data |-> M!Data(p), cell |-> M!ForNode(M!Copied(p))]
             H == Entries(md_arr, num)
             b == [md_arr EXCEPT ![s] = [group_id |-> g, mdp_num |-> md_arr[s].mdp_num + 1,
                                         list |-> <<node>> \o md_arr[s].list]]
  <1>1. /\ MaxMetas \in Nat \ {0} /\ MaxGroupId \in Nat /\ MaxPlds \in Nat /\ MaxMetas \in Nat
        /\ Arranged(md_arr, num) /\ Kept(H, heap) /\ p.type \in M!Types /\ p.size \in Nat
        /\ num \in 0..MaxMetas /\ md_arr \in [M!Slot -> MetaGroup]
    BY MetaConstants DEF MetaInv, Arranged
  <1>2. /\ M!Verified(p) /\ g \in 0..MaxGroupId /\ (p.size > 0 => M!Vacant(heap) # {})
        /\ ~M!Full(g, p) /\ M!At(g, p) = 0 /\ M!Vacant(M!Copied(p)) # {}
        /\ num' = IF M!Group(g) = -1 THEN num + 1 ELSE num
        /\ md_arr' = [md_arr EXCEPT ![s] = [group_id |-> g, mdp_num |-> old.mdp_num + 1,
                                            list |-> <<node>> \o old.list]]
        /\ heap' = [M!Copied(p) EXCEPT ![node.cell] = M!NODE]
    BY DEF M!SetAdds, M!HasCopy, M!Valid
  <1>3. (M!Group(g) = -1 => num < MaxMetas) /\ M!Total < MaxPlds
    <2>1. M!Total \in Nat
      <3>1. \A t \in M!Slot : md_arr[t].mdp_num \in Nat
        BY <1>1 DEF MetaGroup
      <3> QED BY <1>1, <3>1, SumsAre DEF M!Total
    <2> QED BY <1>1, <1>2, <2>1 DEF M!Full
  <1>4. \/ /\ M!Group(g) \in 0..(num - 1) /\ M!Group(g) # -1 /\ md_arr[M!Group(g)].group_id = g
           /\ \A t \in 0..(num - 1) : md_arr[t].group_id = g => t = M!Group(g)
        \/ M!Group(g) = -1 /\ \A t \in 0..(num - 1) : md_arr[t].group_id # g
    BY <1>1, GroupFound, LookupsAre
  <1>5. /\ IF p.size > 0 THEN M!Data(p) \in M!Cell /\ heap[M!Data(p)] = M!FREE ELSE M!Data(p) = M!NULL
        /\ M!Copied(p) \in [M!Cell -> MetaContent]
        /\ \A c \in M!Cell : M!Copied(p)[c] = IF c = M!Data(p) THEN M!Bytes(p) ELSE heap[c]
    BY <1>2, CopyIs
  <1>6. M!ForNode(M!Copied(p)) \in M!Cell /\ M!Copied(p)[M!ForNode(M!Copied(p))] = M!FREE
    BY <1>2, BlocksAreFree
  <1>7. /\ node \in MetaNode /\ node.type = p.type /\ node.size = p.size /\ node.data = M!Data(p)
        /\ node.cell = M!ForNode(M!Copied(p)) /\ node.cell \in M!Cell
    BY <1>1, <1>5, <1>6 DEF MetaNode
  <1> HIDE DEF node
  <1>8. heap[node.cell] = M!FREE /\ node.cell # node.data
    BY <1>5, <1>6, <1>7, ContentsDiffer
  <1>9. old.mdp_num = md_arr[s].mdp_num /\ old.list = md_arr[s].list
    <2>1. CASE M!Group(g) = -1
      <3>1. s = num /\ num \in M!Slot
        BY <1>1, <1>3, <2>1 DEF M!Slot
      <3>2. md_arr[num] = M!NoGroup
        BY <1>1, <3>1 DEF Arranged
      <3>3. old.mdp_num = 0 /\ old.list = << >>
        BY <2>1 DEF M!NoGroup
      <3>4. M!NoGroup.mdp_num = 0 /\ M!NoGroup.list = << >>
        BY DEF M!NoGroup
      <3> QED BY <3>1, <3>2, <3>3, <3>4
    <2>2. CASE M!Group(g) # -1
      BY <2>2
    <2> QED BY <2>1, <2>2
  <1>10. md_arr' = b
    BY <1>2, <1>9
  <1>11. \A e \in H : e[1] = g => ~IsIn(e[2], heap, p.type, p.uuid)
    BY <1>2, AtIs
  <1>12. \A e \in H : e[2].cell # node.cell
    BY <1>1, <1>8, EntryBlocks
  <1>13. \/ s = num /\ num' = num + 1 /\ num < MaxMetas
         \/ s \in 0..(num - 1) /\ num' = num /\ md_arr[s].group_id = g
    BY <1>2, <1>3, <1>4
  <1>14. \A t \in 0..(num - 1) : md_arr[t].group_id = g => t = s
    BY <1>4
  <1> HIDE DEF s, old, b
  <1>15. /\ Arranged(b, num') /\ Entries(b, num') = H \cup {<<g, node>>}
         /\ M!Sums(b)[num'] = M!Sums(md_arr)[num] + 1
    <2> DEFINE m == num'
    <2>1. /\ MaxMetas \in Nat \ {0} /\ MaxGroupId \in Nat /\ Arranged(md_arr, num)
          /\ g \in 0..MaxGroupId /\ node \in MetaNode
      BY <1>1, <1>2, <1>7
    <2>2. \A e \in Entries(md_arr, num) : e[2].cell # node.cell
      BY <1>12
    <2>3. \/ s = num /\ m = num + 1 /\ num < MaxMetas
          \/ s \in 0..(num - 1) /\ m = num /\ md_arr[s].group_id = g
      BY <1>13
    <2>4. b = AddedTo(md_arr, s, g, node)
      BY DEF b, AddedTo
    <2> HIDE DEF m
    <2>5. /\ Arranged(b, m) /\ Entries(b, m) = Entries(md_arr, num) \cup {<<g, node>>}
          /\ M!Sums(b)[m] = M!Sums(md_arr)[num] + 1
      BY ONLY <1>14, <2>1, <2>2, <2>3, <2>4, Adding
    <2> QED BY <2>5 DEF m
  <1>16. M!Total' <= MaxPlds
    <2>1. M!Total' = M!Total + 1
      BY <1>10, <1>15 DEF M!Total
    <2>2. M!Total \in Nat
      <3>1. \A t \in M!Slot : md_arr[t].mdp_num \in Nat
        BY <1>1 DEF MetaGroup
      <3> QED BY <1>1, <3>1, SumsAre DEF M!Total
    <2> QED BY <1>1, <1>3, <2>1, <2>2
  <1>17. /\ heap' \in [M!Cell -> MetaContent]
         /\ \A c \in M!Cell : heap'[c] = IF c = node.cell THEN M!NODE
                                         ELSE IF c = node.data THEN M!Bytes(p) ELSE heap[c]
    BY <1>2, <1>5, <1>7 DEF MetaContent
  <1>18. p.type = "USER" => p.size >= 16
    BY <1>2, VerifiedUser
  <1>19. Adds(H, heap, Entries(md_arr', num'), heap', g, p, node)
    BY <1>1, <1>2, <1>5, <1>7, <1>8, <1>10, <1>11, <1>15, <1>17, <1>18 DEF Adds
  <1> QED BY <1>10, <1>15, <1>16, <1>19

\* oapvm_set replaces a payload.
LEMMA SetReplacesDoes ==
  ASSUME M!MetaAssumption, MetaInv, NEW g, NEW p \in Payloads, M!SetReplaces(g, p)
  PROVE  /\ Arranged(md_arr', num') /\ M!Total' <= MaxPlds
         /\ \E old, new :
              Replaces(Entries(md_arr, num), heap, Entries(md_arr', num'), heap', g, p, old, new)
  <1> DEFINE s == M!Group(g)
             k == M!At(g, p)
             old == md_arr[s].list[k]
             new == [old EXCEPT !.size = p.size, !.data = M!Data(p)]
             H == Entries(md_arr, num)
  <1>1. /\ MaxMetas \in Nat \ {0} /\ MaxGroupId \in Nat /\ MaxMetas \in Nat
        /\ Arranged(md_arr, num) /\ Kept(H, heap) /\ p.type \in M!Types /\ p.size \in Nat
    BY MetaConstants DEF MetaInv
  <1>2. /\ M!Verified(p) /\ g \in 0..MaxGroupId /\ (p.size > 0 => M!Vacant(heap) # {})
        /\ M!At(g, p) # 0 /\ num' = num
        /\ md_arr' = [md_arr EXCEPT ![s].list[k] = [@ EXCEPT !.size = p.size, !.data = M!Data(p)]]
        /\ heap' = M!OldFreed(M!Copied(p), old.data)
    BY DEF M!SetReplaces, M!HasCopy, M!Valid
  <1>3. s \in 0..(num - 1) /\ md_arr[s].group_id = g /\ k \in DOMAIN md_arr[s].list
        /\ IsIn(old, heap, p.type, p.uuid)
    BY <1>2, AtIs
  <1>4. /\ IF p.size > 0 THEN M!Data(p) \in M!Cell /\ heap[M!Data(p)] = M!FREE ELSE M!Data(p) = M!NULL
        /\ M!Copied(p) \in [M!Cell -> MetaContent]
        /\ \A c \in M!Cell : M!Copied(p)[c] = IF c = M!Data(p) THEN M!Bytes(p) ELSE heap[c]
    BY <1>2, CopyIs
  <1>5. old \in MetaNode /\ <<g, old>> \in H
    BY <1>1, <1>3, EntryAt
  <1>6. M!Data(p) \in M!Cell \cup {M!NULL}
    BY <1>4
  <1>7. md_arr' = [md_arr EXCEPT ![s].list[k] = [@ EXCEPT !.size = p.size, !.data = M!Data(p)]]
    BY <1>2
  <1> HIDE DEF s, k
  <1>8. /\ new \in MetaNode /\ new.type = old.type /\ new.cell = old.cell
        /\ new.size = p.size /\ new.data = M!Data(p)
    <2> HIDE DEF old
    <2> QED BY <1>1, <1>5, <1>6 DEF MetaNode
  <1>9. /\ Arranged(md_arr', num)
        /\ Entries(md_arr', num) = (H \ {<<md_arr[s].group_id, old>>}) \cup {<<md_arr[s].group_id, new>>}
        /\ M!Sums(md_arr')[num] = M!Sums(md_arr)[num]
    <2> DEFINE b == md_arr'
    <2>1. /\ MaxMetas \in Nat \ {0} /\ MaxGroupId \in Nat /\ Arranged(md_arr, num)
          /\ s \in 0..(num - 1) /\ k \in DOMAIN md_arr[s].list /\ p.size \in Nat
      BY <1>1, <1>3
    <2>2. /\ old = md_arr[s].list[k] /\ new = Renewed(old, p.size, M!Data(p))
          /\ b = RenewedAt(md_arr, s, k, p.size, M!Data(p))
      BY <1>7 DEF Renewed, RenewedAt
    <2> HIDE DEF b, old, new
    <2>3. /\ Arranged(b, num)
          /\ Entries(b, num) = (Entries(md_arr, num) \ {<<md_arr[s].group_id, old>>})
                                  \cup {<<md_arr[s].group_id, new>>}
          /\ M!Sums(b)[num] = M!Sums(md_arr)[num]
      BY ONLY <1>6, <2>1, <2>2, Replacing
    <2> QED BY <2>3 DEF b
  <1> HIDE DEF old, new
  <1>10. /\ heap' \in [M!Cell -> MetaContent]
         /\ \A c \in M!Cell : heap'[c] = IF c = old.data THEN M!FREE
                                         ELSE IF c = new.data THEN M!Bytes(p) ELSE heap[c]
    <2>1. heap' = [c \in M!Cell |-> IF c = old.data THEN M!FREE ELSE M!Copied(p)[c]]
      BY <1>2 DEF M!OldFreed, M!Freed
    <2>2. M!FREE \in MetaContent
      BY DEF MetaContent
    <2> QED BY <1>4, <1>8, <2>1, <2>2
  <1>11. p.type = "USER" => p.size >= 16
    BY <1>2, VerifiedUser
  <1>12. Entries(md_arr', num') = (H \ {<<g, old>>}) \cup {<<g, new>>}
    BY <1>2, <1>3, <1>9
  <1>13. Replaces(H, heap, Entries(md_arr', num'), heap', g, p, old, new)
    BY <1>1, <1>2, <1>3, <1>4, <1>5, <1>8, <1>10, <1>11, <1>12 DEF Replaces
  <1>14. M!Total' <= MaxPlds
    BY <1>2, <1>9 DEF M!Total, MetaInv
  <1> QED BY <1>2, <1>9, <1>13, <1>14

\* oapvm_rem finds a payload, and unlinks and frees it, or finds none.
LEMMA RemDoes ==
  ASSUME M!MetaAssumption, MetaInv, NEW g, NEW type, NEW uuid, M!Rem(g, type, uuid)
  PROVE  \/ res' = "NOT_FOUND" /\ M!Get(<<g, type, uuid>>) = M!Nothing /\ UNCHANGED <<md_arr, num, heap>>
         \/ /\ res' = "OK" /\ Arranged(md_arr', num') /\ M!Total' <= MaxPlds
            /\ \E x : /\ Matches(x, heap, <<g, type, uuid>>)
                      /\ Removes(Entries(md_arr, num), heap, Entries(md_arr', num'), heap', x)
  <1> DEFINE s == GroupIn(md_arr, num, g)
             k == IF s = -1 THEN 0 ELSE FindIn(md_arr[s].list, heap, type, uuid)
             n == md_arr[s].list[k]
             left == [md_arr EXCEPT ![s].list = M!RemoveAt(@, k), ![s].mdp_num = @ - 1]
             H == Entries(md_arr, num)
             name == <<g, type, uuid>>
  <1>1. /\ MaxMetas \in Nat \ {0} /\ MaxMetas \in Nat /\ MaxGroupId \in Nat /\ MaxPlds \in Nat
        /\ Arranged(md_arr, num) /\ Kept(H, heap)
        /\ md_arr \in [M!Slot -> MetaGroup] /\ num \in 0..MaxMetas
    BY MetaConstants DEF MetaInv, Arranged
  <1>2. IF k = 0 THEN res' = "NOT_FOUND" /\ UNCHANGED <<md_arr, num, heap>>
        ELSE /\ heap' = M!Freed(heap, {n.data, n.cell})
             /\ IF left[s].mdp_num = 0
                THEN num' = num - 1 /\ md_arr' = M!ClosedUp(left, s)
                ELSE UNCHANGED num /\ md_arr' = left
             /\ res' = "OK"
    BY LookupsAre DEF M!Rem
  <1>3. CASE k = 0
    <2>1. M!Get(name) = GetIn(md_arr, num, heap, name)
      BY LookupsAre
    <2>2. GetIn(md_arr, num, heap, name) = M!Nothing
      BY <1>3 DEF GetIn
    <2> QED BY <1>2, <1>3, <2>1, <2>2
  <1>4. CASE k # 0
    <2>1. s \in 0..(num - 1) /\ md_arr[s].group_id = g
      BY <1>1, <1>4, GroupFound
    <2>2. k = FindIn(md_arr[s].list, heap, type, uuid)
      BY <1>4
    <2> HIDE DEF s
    <2>3. k \in DOMAIN md_arr[s].list /\ IsIn(n, heap, type, uuid)
      BY <1>1, <1>4, <2>1, <2>2, PayloadFound
    <2> HIDE DEF k
    <2>4. <<g, n>> \in H /\ s \in M!Slot /\ md_arr[s].list \in Seq(MetaNode)
      BY <1>1, <2>1, <2>3, EntryAt
    <2>5. Matches(<<g, n>>, heap, name)
      BY <2>3 DEF Matches
    <2>6. left[s].mdp_num = Len(md_arr[s].list) - 1 /\ \A t \in M!Slot \ {s} : left[t] = md_arr[t]
      <3>1. md_arr[s].mdp_num = Len(md_arr[s].list)
        BY <1>1, <2>1 DEF Arranged
      <3>2. md_arr[s] \in MetaGroup
        BY <1>1, <2>4
      <3> QED BY <1>1, <2>4, <3>1, <3>2 DEF MetaGroup
    <2>7. Len(md_arr[s].list) \in Nat
      BY <2>4
    <2> HIDE DEF left
    <2>8. /\ Arranged(md_arr', num') /\ Entries(md_arr', num') = H \ {<<g, n>>}
          /\ M!Sums(md_arr')[num'] = M!Sums(md_arr)[num] - 1
      <3>1. CASE left[s].mdp_num = 0
        <4>1. Len(md_arr[s].list) = 1 /\ k = 1
          <5> DEFINE len == Len(md_arr[s].list)
          <5>1. len \in Nat /\ len - 1 = 0
            BY <2>6, <2>7, <3>1
          <5>2. k \in 1..len
            BY <2>3, <2>4
          <5> HIDE DEF len
          <5>3. len = 1 /\ k = 1
            BY <5>1, <5>2
          <5> QED BY <5>3 DEF len
        <4>2. num' = num - 1 /\ md_arr' = M!ClosedUp(left, s)
          BY <1>2, <1>4, <3>1
        <4>3. \A t \in M!Slot : md_arr'[t] = IF t = num - 1 THEN M!NoGroup
                                             ELSE IF t >= s /\ t < num - 1 THEN left[t + 1] ELSE left[t]
          BY <4>2 DEF M!ClosedUp
        <4>4. \A t \in M!Slot : md_arr'[t] = IF t < num - 1 THEN md_arr[IF t < s THEN t ELSE t + 1]
                                             ELSE M!NoGroup
          <5>1. ASSUME NEW t \in M!Slot
                PROVE md_arr'[t] = IF t < num - 1 THEN md_arr[IF t < s THEN t ELSE t + 1] ELSE M!NoGroup
            <6>1. t \in Int /\ num \in Int /\ s \in Int /\ s <= num - 1
              BY <1>1, <2>1 DEF M!Slot
            <6>2. CASE t > num - 1
              <7>1. t \in M!Slot \ {s} /\ t >= num /\ md_arr'[t] = left[t]
                BY <4>3, <6>1, <6>2
              <7>2. left[t] = md_arr[t] /\ md_arr[t] = M!NoGroup
                BY <1>1, <2>6, <7>1 DEF Arranged
              <7> QED BY <6>1, <6>2, <7>1, <7>2
            <6>3. CASE t = num - 1
              BY <4>3, <6>1, <6>3
            <6>4. CASE t < num - 1 /\ t < s
              BY <2>6, <4>3, <6>1, <6>4
            <6>5. CASE t < num - 1 /\ t >= s
              <7>1. t + 1 \in M!Slot \ {s}
                BY <1>1, <6>1, <6>5 DEF M!Slot
              <7>2. md_arr'[t] = left[t + 1]
                BY <4>3, <6>1, <6>5
              <7> QED BY <2>6, <6>1, <6>5, <7>1, <7>2
            <6> QED BY <6>1, <6>2, <6>3, <6>4, <6>5
          <5> QED BY <5>1
        <4>5. md_arr' \in [M!Slot -> MetaGroup]
          <5>1. \A t \in M!Slot : md_arr'[t] \in MetaGroup
            <6>1. M!NoGroup \in MetaGroup
              <7>1. << >> \in Seq(MetaNode) /\ 0 \in 0..MaxGroupId /\ 0 \in Nat
                BY <1>1
              <7> QED BY <7>1 DEF M!NoGroup, MetaGroup
            <6>2. \A t \in M!Slot : t < num - 1 => t + 1 \in M!Slot
              BY <1>1 DEF M!Slot
            <6> QED BY <1>1, <4>4, <6>1, <6>2
          <5>2. md_arr' = [t \in M!Slot |-> md_arr'[t]]
            BY <4>2 DEF M!ClosedUp
          <5> QED BY <5>1, <5>2
        <4> DEFINE b == md_arr'
        <4>6. /\ b \in [M!Slot -> MetaGroup]
              /\ \A t \in M!Slot : b[t] = IF t < num - 1 THEN md_arr[IF t < s THEN t ELSE t + 1] ELSE M!NoGroup
          BY <4>4, <4>5
        <4> HIDE DEF b
        <4>7. /\ Arranged(b, num - 1)
              /\ Entries(b, num - 1) = H \ {<<md_arr[s].group_id, md_arr[s].list[1]>>}
              /\ M!Sums(b)[num - 1] = M!Sums(md_arr)[num] - 1
          BY <1>1, <2>1, <4>1, <4>6, ClosingUp
        <4> QED BY <2>1, <4>1, <4>2, <4>7 DEF b
      <3>2. CASE left[s].mdp_num # 0
        <4>1. Len(md_arr[s].list) # 1
          BY <2>6, <2>7, <3>2
        <4>2. num' = num /\ md_arr' = left
          BY <1>2, <1>4, <3>2
        <4>3. /\ Arranged(left, num) /\ Entries(left, num) = H \ {<<md_arr[s].group_id, n>>}
              /\ M!Sums(left)[num] = M!Sums(md_arr)[num] - 1
          <5>1. left = UnlinkedAt(md_arr, s, k)
            BY DEF left, UnlinkedAt
          <5>2. /\ Arranged(left, num) /\ Entries(left, num) = Entries(md_arr, num) \ {<<md_arr[s].group_id, md_arr[s].list[k]>>}
                /\ M!Sums(left)[num] = M!Sums(md_arr)[num] - 1
            BY ONLY <1>1, <2>1, <2>3, <4>1, <5>1, Unlinking
          <5> QED BY <5>2
        <4> QED BY <2>1, <4>2, <4>3
      <3> QED BY <3>1, <3>2
    <2>9. M!Total' <= MaxPlds
      <3>1. \A t \in M!Slot : md_arr[t].mdp_num \in Nat
        BY <1>1 DEF MetaGroup
      <3>2. M!Sums(md_arr)[num] \in Nat
        BY <1>1, <3>1, SumsAre
      <3>3. M!Total <= MaxPlds /\ M!Total = M!Sums(md_arr)[num] /\ M!Total' = M!Sums(md_arr')[num']
        BY DEF M!Total, MetaInv
      <3> QED BY <1>1, <2>8, <3>2, <3>3
    <2>10. Removes(H, heap, Entries(md_arr', num'), heap', <<g, n>>)
      <3> DEFINE x == <<g, n>>
      <3>1. x[2] = n /\ x \in H
        BY <2>4
      <3> HIDE DEF n
      <3>2. heap' = [c \in M!Cell |-> IF c \in {n.data, n.cell} THEN M!FREE ELSE heap[c]]
        BY <1>2, <1>4 DEF M!Freed
      <3>3. heap \in [M!Cell -> MetaContent] /\ M!FREE \in MetaContent
        BY <1>1 DEF Kept, MetaContent
      <3>4. heap' \in [M!Cell -> MetaContent]
        BY <3>2, <3>3
      <3>5. \A c \in M!Cell : heap'[c] = IF c \in {x[2].data, x[2].cell} THEN M!FREE ELSE heap[c]
        BY <3>1, <3>2
      <3> QED BY <2>8, <3>1, <3>4, <3>5 DEF Removes
    <2> QED BY <1>2, <1>4, <2>5, <2>8, <2>9, <2>10
  <1> QED BY <1>3, <1>4

----------------------------------------------------------------------------
(* Steps of the container                                                  *)

\* What lookups answer after a step.
LEMMA GetNext == \A name : M!Get(name)' = GetIn(md_arr', num', heap', name)
  BY DEF M!Get, GetIn, Found, BytesIn, M!Find, FindIn, M!Is, IsIn, M!Uuid, UuidIn, M!Group, GroupIn

\* What a step does to the answers: none changes, or one at most.
AnswersStay == \A n \in M!Name : M!Get(n)' = M!Get(n)
OthersStay(x) == \A n \in M!Name : n # x => M!Get(n)' = M!Get(n)

SetOutcome ==
  \/ res' \in {"INVALID", "OOM", "MAX"} /\ AnswersStay
  \/ res' = "OK" /\ \E x \in M!Name : M!Get(x)' \in MetaValue /\ OthersStay(x)

RemOutcome ==
  \/ res' = "NOT_FOUND" /\ AnswersStay /\ \E x \in M!Name : M!Get(x) = M!Nothing
  \/ res' = "OK" /\ \E x \in M!Name : M!Get(x) # M!Nothing /\ M!Get(x)' = M!Nothing /\ OthersStay(x)

\* Nothing of the container changes.
LEMMA ContainerStays ==
  ASSUME MetaInv, UNCHANGED <<md_arr, num, heap>>,
         todo' \in Seq(GroupIds \X Payloads), alive' \in BOOLEAN,
         res' \in {"OK", "INVALID", "OOM", "MAX", "NOT_FOUND"}
  PROVE  MetaInv' /\ AnswersStay
  <1>1. MetaInv'
    BY DEF MetaInv, M!Total
  <1>2. \A name : M!Get(name)' = GetIn(md_arr, num, heap, name)
    BY GetNext
  <1>3. \A name : M!Get(name) = GetIn(md_arr, num, heap, name)
    BY LookupsAre
  <1> QED BY <1>1, <1>2, <1>3 DEF AnswersStay

\* The answers in the states before and after.
LEMMA AnswersAre ==
  ASSUME M!MetaAssumption, MetaInv, Arranged(md_arr', num'), Kept(Entries(md_arr', num'), heap')
  PROVE  /\ \A name : IsAnswer(Entries(md_arr, num), heap, name, M!Get(name))
         /\ \A name : IsAnswer(Entries(md_arr', num'), heap', name, M!Get(name)')
  <1>1. MaxMetas \in Nat /\ Arranged(md_arr, num) /\ Kept(Entries(md_arr, num), heap)
    BY MetaConstants DEF MetaInv
  <1>2. ASSUME NEW name PROVE IsAnswer(Entries(md_arr, num), heap, name, M!Get(name))
    <2>1. IsAnswer(Entries(md_arr, num), heap, name, GetIn(md_arr, num, heap, name))
      BY <1>1, GetAnswers
    <2>2. M!Get(name) = GetIn(md_arr, num, heap, name)
      BY LookupsAre
    <2> QED BY <2>1, <2>2
  <1>3. ASSUME NEW name PROVE IsAnswer(Entries(md_arr', num'), heap', name, M!Get(name)')
    <2> DEFINE a == md_arr'
               n == num'
               h == heap'
    <2>1. MaxMetas \in Nat /\ Arranged(a, n) /\ Kept(Entries(a, n), h)
      BY <1>1
    <2>2. M!Get(name)' = GetIn(a, n, h, name)
      BY GetNext
    <2> HIDE DEF a, n, h
    <2>3. IsAnswer(Entries(a, n), h, name, GetIn(a, n, h, name))
      BY <2>1, GetAnswers
    <2>4. IsAnswer(Entries(a, n), h, name, M!Get(name)')
      BY <2>2, <2>3
    <2> QED BY <2>4 DEF a, n, h
  <1> QED BY <1>2, <1>3

\* A set: the container stays what it has to be, and one answer changes.
LEMMA SetDoes ==
  ASSUME M!MetaAssumption, MetaInv, NEW g \in GroupIds, NEW p \in Payloads, M!Set(g, p), todo # << >>
  PROVE  MetaInv' /\ SetOutcome
  <1> DEFINE H == Entries(md_arr, num)
             name == <<g, p.type, p.uuid>>
  <1>1. /\ Kept(H, heap) /\ todo \in Seq(GroupIds \X Payloads)
        /\ Tail(todo) \in Seq(GroupIds \X Payloads) /\ alive \in BOOLEAN
        /\ << >> \in Seq(GroupIds \X Payloads)
    BY DEF MetaInv
  <1>2. name \in M!Name
    BY DEF M!Name
  <1>3. ASSUME M!SetAdds(g, p) \/ M!SetReplaces(g, p)
        PROVE  res' = "OK" /\ todo' = Tail(todo) /\ alive' = alive
    BY <1>3 DEF M!SetAdds, M!SetReplaces, M!Stored
  <1>4. ASSUME NEW r, M!Refused(r), r \in {"INVALID", "OOM", "MAX"}, heap' = heap
        PROVE  MetaInv' /\ SetOutcome
    <2>1. /\ UNCHANGED <<md_arr, num, heap>> /\ todo' = << >> /\ alive' = alive /\ res' = r
      BY <1>4 DEF M!Refused
    <2>2. MetaInv' /\ AnswersStay
      BY <1>1, <1>4, <2>1, ContainerStays
    <2> QED BY <1>4, <2>1, <2>2 DEF SetOutcome
  <1>5. CASE M!SetInvalid(g, p)
    BY <1>4, <1>5 DEF M!SetInvalid
  <1>6. CASE M!SetNoCopy(g, p)
    BY <1>4, <1>6 DEF M!SetNoCopy
  <1>7. CASE M!SetFull(g, p) \/ M!SetNoNode(g, p)
    <2>1. M!Undone(p) = heap
      BY <1>7, CopyIs DEF M!SetFull, M!SetNoNode, M!HasCopy
    <2> QED BY <1>4, <1>7, <2>1 DEF M!SetFull, M!SetNoNode
  <1>8. ASSUME Arranged(md_arr', num'), M!Total' <= MaxPlds, Kept(Entries(md_arr', num'), heap'),
               res' = "OK", todo' = Tail(todo), alive' = alive
        PROVE  MetaInv'
    BY <1>1, <1>8 DEF MetaInv
  <1>9. CASE M!SetAdds(g, p)
    <2>1. /\ Arranged(md_arr', num') /\ M!Total' <= MaxPlds
      BY <1>9, SetAddsDoes
    <2>2. PICK node : Adds(H, heap, Entries(md_arr', num'), heap', g, p, node)
      BY <1>9, SetAddsDoes
    <2> DEFINE F == Entries(md_arr', num')
               i == heap'
    <2>3. Adds(H, heap, F, i, g, p, node)
      BY <2>2
    <2> HIDE DEF H, F, i, name
    <2>4. /\ Kept(F, i)
          /\ \A u : IsAnswer(F, i, name, u) => u \in MetaValue
          /\ \A v, u : \A nm \in M!Name :
               nm # name /\ IsAnswer(H, heap, nm, v) /\ IsAnswer(F, i, nm, u) => v = u
      <3>1. name \in M!Name /\ name = <<g, p.type, p.uuid>> /\ Kept(H, heap) /\ M!MetaAssumption
        BY <1>1, <1>2 DEF name
      <3> QED BY ONLY <2>3, <3>1, AddsAnswers
    <2>5. /\ \A nm : IsAnswer(H, heap, nm, M!Get(nm))
          /\ \A nm : IsAnswer(F, i, nm, M!Get(nm)')
      BY <2>1, <2>4, AnswersAre DEF H, F, i
    <2>6. M!Get(name)' \in MetaValue /\ OthersStay(name)
      BY <2>4, <2>5 DEF OthersStay
    <2>7. MetaInv'
      BY <1>3, <1>8, <1>9, <2>1, <2>4 DEF F, i
    <2> QED BY <1>2, <1>3, <1>9, <2>6, <2>7 DEF SetOutcome
  <1>10. CASE M!SetReplaces(g, p)
    <2>1. /\ Arranged(md_arr', num') /\ M!Total' <= MaxPlds
      BY <1>10, SetReplacesDoes
    <2>2. PICK old, new : Replaces(H, heap, Entries(md_arr', num'), heap', g, p, old, new)
      BY <1>10, SetReplacesDoes
    <2> DEFINE F == Entries(md_arr', num')
               i == heap'
    <2>3. Replaces(H, heap, F, i, g, p, old, new)
      BY <2>2
    <2> HIDE DEF H, F, i, name
    <2>4. /\ Kept(F, i)
          /\ \A u : IsAnswer(F, i, name, u) => u \in MetaValue
          /\ \A v, u : \A nm \in M!Name :
               nm # name /\ IsAnswer(H, heap, nm, v) /\ IsAnswer(F, i, nm, u) => v = u
      <3>1. name \in M!Name /\ name = <<g, p.type, p.uuid>> /\ Kept(H, heap) /\ M!MetaAssumption
        BY <1>1, <1>2 DEF name
      <3> QED BY ONLY <2>3, <3>1, ReplacesAnswers
    <2>5. /\ \A nm : IsAnswer(H, heap, nm, M!Get(nm))
          /\ \A nm : IsAnswer(F, i, nm, M!Get(nm)')
      BY <2>1, <2>4, AnswersAre DEF H, F, i
    <2>6. M!Get(name)' \in MetaValue /\ OthersStay(name)
      BY <2>4, <2>5 DEF OthersStay
    <2>7. MetaInv'
      BY <1>3, <1>8, <1>10, <2>1, <2>4 DEF F, i
    <2> QED BY <1>2, <1>3, <1>10, <2>6, <2>7 DEF SetOutcome
  <1> QED BY <1>5, <1>6, <1>7, <1>9, <1>10 DEF M!Set

\* A removal: the container stays what it has to be, and one answer goes.
LEMMA RemKeeps ==
  ASSUME M!MetaAssumption, MetaInv, NEW g, NEW type, NEW uuid, <<g, type, uuid>> \in M!Name,
         M!Rem(g, type, uuid)
  PROVE  MetaInv' /\ RemOutcome
  <1> DEFINE H == Entries(md_arr, num)
             name == <<g, type, uuid>>
  <1>1. /\ Kept(H, heap) /\ todo \in Seq(GroupIds \X Payloads) /\ alive \in BOOLEAN
        /\ todo' = todo /\ alive' = alive
    BY DEF MetaInv, M!Rem
  <1>2. CASE res' = "NOT_FOUND" /\ M!Get(name) = M!Nothing /\ UNCHANGED <<md_arr, num, heap>>
    <2>1. MetaInv' /\ AnswersStay
      BY <1>1, <1>2, ContainerStays
    <2> QED BY <1>2, <2>1 DEF RemOutcome
  <1>3. CASE /\ res' = "OK" /\ Arranged(md_arr', num') /\ M!Total' <= MaxPlds
             /\ \E x : Matches(x, heap, name) /\ Removes(H, heap, Entries(md_arr', num'), heap', x)
    <2>2. PICK x : Matches(x, heap, name) /\ Removes(H, heap, Entries(md_arr', num'), heap', x)
      BY <1>3
    <2> DEFINE F == Entries(md_arr', num')
               i == heap'
    <2>3. Matches(x, heap, name) /\ Removes(H, heap, F, i, x) /\ name \in M!Name
      BY <2>2
    <2> HIDE DEF H, F, i, name
    <2>4. /\ Kept(F, i)
          /\ \A v : IsAnswer(H, heap, name, v) => v # M!Nothing
          /\ \A u : IsAnswer(F, i, name, u) => u = M!Nothing
          /\ \A v, u : \A nm \in M!Name :
               nm # name /\ IsAnswer(H, heap, nm, v) /\ IsAnswer(F, i, nm, u) => v = u
      BY <1>1, <2>3, RemovesAnswers
    <2>5. /\ \A nm : IsAnswer(H, heap, nm, M!Get(nm))
          /\ \A nm : IsAnswer(F, i, nm, M!Get(nm)')
      BY <1>3, <2>4, AnswersAre DEF H, F, i
    <2>6. M!Get(name) # M!Nothing /\ M!Get(name)' = M!Nothing /\ OthersStay(name)
      BY <2>4, <2>5 DEF OthersStay
    <2>7. MetaInv'
      BY <1>1, <1>3, <2>4 DEF F, i, MetaInv
    <2> QED BY <1>3, <2>3, <2>6, <2>7 DEF RemOutcome
  <1> QED BY <1>2, <1>3, RemDoes

\* What the lists hold is what the entries say.
LEMMA ListedIs ==
  ASSUME M!MetaAssumption, MetaInv
  PROVE  /\ \A n : n \in M!Listed <=> \E e \in Entries(md_arr, num) : e[2] = n
         /\ \A c : c \in M!Blocks <=> c # M!NULL /\ \E e \in Entries(md_arr, num) : c \in {e[2].data, e[2].cell}
  <1>1. MaxMetas \in Nat /\ Arranged(md_arr, num)
    BY MetaConstants DEF MetaInv
  <1>2. \A n : n \in M!Listed <=> \E s \in 0..(num - 1) : \E k \in DOMAIN md_arr[s].list : n = md_arr[s].list[k]
    BY DEF M!Listed, M!Range
  <1>3. \A n : n \in M!Listed <=> \E e \in Entries(md_arr, num) : e[2] = n
    <2>1. ASSUME NEW n \in M!Listed PROVE \E e \in Entries(md_arr, num) : e[2] = n
      <3>1. PICK s \in 0..(num - 1) : \E k \in DOMAIN md_arr[s].list : n = md_arr[s].list[k]
        BY <1>2, <2>1
      <3>2. PICK k \in DOMAIN md_arr[s].list : n = md_arr[s].list[k]
        BY <3>1
      <3>3. <<md_arr[s].group_id, md_arr[s].list[k]>> \in Entries(md_arr, num)
        BY <1>1, EntryAt
      <3> QED BY <3>2, <3>3
    <2>2. ASSUME NEW e \in Entries(md_arr, num) PROVE e[2] \in M!Listed
      BY <1>2, <2>2 DEF Entries
    <2> QED BY <2>1, <2>2
  <1>4. \A c : c \in M!Blocks <=> c # M!NULL /\ \E n \in M!Listed : c \in {n.data, n.cell}
    BY DEF M!Blocks
  <1> QED BY <1>3, <1>4

\* A container that is emptied gives every block back.
LEMMA ClearsDoes ==
  ASSUME M!MetaAssumption, MetaInv, M!RemAll \/ M!Delete
  PROVE  MetaInv' /\ \A n \in M!Name : M!Get(n)' = M!Nothing
  <1> DEFINE a == [s \in M!Slot |-> M!NoGroup]
  <1>1. /\ MaxMetas \in Nat /\ MaxMetas \in Nat \ {0} /\ MaxGroupId \in Nat /\ MaxPlds \in Nat
        /\ Arranged(md_arr, num) /\ Kept(Entries(md_arr, num), heap)
    BY MetaConstants DEF MetaInv
  <1>2. num' = 0 /\ heap' = M!Freed(heap, M!Blocks) /\ todo' = todo /\ res' = res /\ alive' \in BOOLEAN
    BY DEF M!RemAll, M!Delete, MetaInv
  <1>3. md_arr' = a
    <2>1. CASE M!Delete
      BY <2>1 DEF M!Delete
    <2>2. CASE M!RemAll
      <3>1. md_arr' = [s \in M!Slot |-> IF s < num THEN M!NoGroup ELSE md_arr[s]]
        BY <2>2 DEF M!RemAll
      <3>2. \A s \in M!Slot : ~(s < num) => md_arr[s] = M!NoGroup
        BY <1>1 DEF Arranged, M!Slot
      <3> QED BY <3>1, <3>2
    <2> QED BY <2>1, <2>2
  <1>4. heap' = [c \in M!Cell |-> M!FREE]
    <2>1. \A c \in M!Cell : c \notin M!Blocks => heap[c] = M!FREE
      <3>1. ASSUME NEW c \in M!Cell, heap[c] # M!FREE PROVE c \in M!Blocks
        <4>1. PICK e \in Entries(md_arr, num) : c \in {e[2].cell, e[2].data}
          BY <1>1, <3>1 DEF Kept
        <4>2. c # M!NULL
          BY NullIsNoCell
        <4> QED BY <4>1, <4>2, ListedIs
      <3> QED BY <3>1
    <2> QED BY <1>2, <2>1 DEF M!Freed
  <1>5. Arranged(a, 0) /\ Entries(a, 0) = {} /\ M!Sums(a)[0] = 0
    BY <1>1, NoEntries
  <1>6. Kept({}, heap')
    BY <1>4, KeptNone
  <1> HIDE DEF a
  <1>7. M!Total' = 0
    BY <1>2, <1>3, <1>5 DEF M!Total
  <1>8. Arranged(md_arr', num') /\ Entries(md_arr', num') = {} /\ Kept(Entries(md_arr', num'), heap')
    BY <1>2, <1>3, <1>5, <1>6
  <1>9. MetaInv'
    BY <1>1, <1>2, <1>7, <1>8 DEF MetaInv
  <1>10. \A n : M!Get(n)' = M!Nothing
    <2>1. \A n : IsAnswer({}, heap', n, M!Get(n)')
      BY <1>8, AnswersAre
    <2> QED BY <2>1 DEF IsAnswer
  <1> QED BY <1>9, <1>10

\* An empty container is what a container has to be, and answers nothing.
LEMMA MetaStarts ==
  ASSUME M!MetaAssumption, M!Init
  PROVE  MetaInv /\ \A n \in M!Name : M!Get(n) = M!Nothing
  <1> DEFINE a == [s \in M!Slot |-> M!NoGroup]
  <1>1. /\ MaxMetas \in Nat /\ MaxMetas \in Nat \ {0} /\ MaxGroupId \in Nat /\ MaxPlds \in Nat
    BY MetaConstants
  <1>2. /\ md_arr = a /\ num = 0 /\ heap = [c \in M!Cell |-> M!FREE]
        /\ todo = << >> /\ alive = TRUE /\ res = "OK"
    BY DEF M!Init
  <1>3. Arranged(a, 0) /\ Entries(a, 0) = {} /\ M!Sums(a)[0] = 0
    BY <1>1, NoEntries
  <1>4. Kept({}, heap)
    BY <1>2, KeptNone
  <1> HIDE DEF a
  <1>5. M!Total = 0
    BY <1>2, <1>3 DEF M!Total
  <1>6. Arranged(md_arr, num) /\ Entries(md_arr, num) = {} /\ Kept(Entries(md_arr, num), heap)
    BY <1>2, <1>3, <1>4
  <1>7. << >> \in Seq(GroupIds \X Payloads) /\ TRUE \in BOOLEAN
    OBVIOUS
  <1>8. MetaInv
    BY <1>1, <1>2, <1>5, <1>6, <1>7 DEF MetaInv
  <1>9. \A n : M!Get(n) = M!Nothing
    <2>1. \A n : IsAnswer({}, heap, n, GetIn(md_arr, num, heap, n))
      BY <1>1, <1>6, GetAnswers
    <2>2. \A n : M!Get(n) = GetIn(md_arr, num, heap, n)
      BY LookupsAre
    <2> QED BY <2>1, <2>2 DEF IsAnswer
  <1> QED BY <1>8, <1>9

\* What the invariant says of the counts.
LEMMA CountsFit ==
  ASSUME M!MetaAssumption, MetaInv
  PROVE  \A s \in M!Slot : md_arr[s].mdp_num \in 0..MaxPlds
  <1>1. /\ MaxMetas \in Nat /\ MaxPlds \in Nat /\ Arranged(md_arr, num) /\ M!Total <= MaxPlds
        /\ md_arr \in [M!Slot -> MetaGroup] /\ num \in 0..MaxMetas
    BY MetaConstants DEF MetaInv, Arranged
  <1>2. \A s \in M!Slot : md_arr[s].mdp_num \in Nat
    BY <1>1 DEF MetaGroup
  <1>3. M!Sums(md_arr)[num] \in Nat
    BY <1>1, <1>2, SumsAre
  <1>4. \A s \in 0..(num - 1) : md_arr[s].mdp_num <= M!Sums(md_arr)[num]
    BY <1>1, <1>2, SumsBound
  <1>5. \A s \in M!Slot : s >= num => md_arr[s].mdp_num = 0
    BY <1>1 DEF Arranged, M!NoGroup
  <1>6. \A s \in M!Slot : s >= num \/ s \in 0..(num - 1)
    BY <1>1 DEF M!Slot
  <1> QED BY <1>1, <1>2, <1>3, <1>4, <1>5, <1>6 DEF M!Total

\* The invariant's types are the model's.
LEMMA InvIsTyped ==
  ASSUME M!MetaAssumption, MetaInv PROVE M!TypeOK
  <1>1. /\ Arranged(md_arr, num) /\ Kept(Entries(md_arr, num), heap)
        /\ md_arr \in [M!Slot -> MetaGroup] /\ num \in 0..MaxMetas
        /\ heap \in [M!Cell -> MetaContent]
    BY DEF MetaInv, Arranged, Kept
  <1>2. ASSUME NEW s \in M!Slot
        PROVE  /\ md_arr[s].group_id \in 0..MaxGroupId /\ md_arr[s].mdp_num \in 0..MaxPlds
               /\ \A n \in M!Range(md_arr[s].list) :
                    /\ n.type \in M!Types /\ n.size \in Nat
                    /\ n.data \in M!Cell \cup {M!NULL} /\ n.cell \in M!Cell
    <2>1. md_arr[s].group_id \in 0..MaxGroupId /\ md_arr[s].list \in Seq(MetaNode)
      BY <1>1 DEF MetaGroup
    <2>2. \A n \in M!Range(md_arr[s].list) : n \in MetaNode
      BY <2>1 DEF M!Range
    <2> QED BY <2>1, <2>2, CountsFit DEF MetaNode
  <1>3. \A c \in M!Cell : heap[c] \in {M!FREE, M!NODE} \cup {M!Bytes(p) : p \in Payloads}
    BY <1>1 DEF MetaContent
  <1> QED BY <1>1, <1>2, <1>3 DEF M!TypeOK, MetaInv

\* What is at a place of the container is an entry, and at no other place.
LEMMA PlacesDiffer ==
  ASSUME M!MetaAssumption, MetaInv
  PROVE  /\ \A x \in M!Place : <<md_arr[x[1]].group_id, M!PayloadAt(x)>> \in Entries(md_arr, num)
         /\ \A x, y \in M!Place :
              <<md_arr[x[1]].group_id, M!PayloadAt(x)>> = <<md_arr[y[1]].group_id, M!PayloadAt(y)>> => x = y
  <1>1. MaxMetas \in Nat /\ Arranged(md_arr, num)
    BY MetaConstants DEF MetaInv
  <1>2. \A x \in M!Place : /\ x[1] \in 0..(num - 1) /\ x[2] \in DOMAIN md_arr[x[1]].list
                           /\ x = <<x[1], x[2]>>
    BY DEF M!Place
  <1>3. ASSUME NEW x \in M!Place PROVE <<md_arr[x[1]].group_id, M!PayloadAt(x)>> \in Entries(md_arr, num)
    BY <1>1, <1>2, <1>3, EntryAt DEF M!PayloadAt
  <1>4. ASSUME NEW x \in M!Place, NEW y \in M!Place,
               <<md_arr[x[1]].group_id, M!PayloadAt(x)>> = <<md_arr[y[1]].group_id, M!PayloadAt(y)>>
        PROVE  x = y
    <2>1. md_arr[x[1]].group_id = md_arr[y[1]].group_id /\ M!PayloadAt(x) = M!PayloadAt(y)
      BY <1>4
    <2>2. x[1] = y[1]
      BY <1>1, <1>2, <2>1 DEF Arranged
    <2>3. md_arr[x[1]].list[x[2]].cell = md_arr[x[1]].list[y[2]].cell
      BY <2>1, <2>2 DEF M!PayloadAt
    <2>4. x[2] = y[2]
      BY <1>1, <1>2, <2>2, <2>3 DEF Arranged
    <2> QED BY <1>2, <2>2, <2>4
  <1> QED BY <1>3, <1>4

\* The invariant says that nothing leaks.
LEMMA InvKeepsBlocks ==
  ASSUME M!MetaAssumption, MetaInv PROVE M!NothingLeaks
  <1> DEFINE H == Entries(md_arr, num)
  <1>1. Kept(H, heap)
    BY DEF MetaInv
  <1>2. {c \in M!Cell : heap[c] # M!FREE} = M!Blocks
    <2>1. ASSUME NEW c \in M!Cell, heap[c] # M!FREE PROVE c \in M!Blocks
      <3>1. PICK e \in H : c \in {e[2].cell, e[2].data}
        BY <1>1, <2>1 DEF Kept
      <3>2. c # M!NULL
        BY NullIsNoCell
      <3> QED BY <3>1, <3>2, ListedIs
    <2>2. ASSUME NEW c \in M!Blocks PROVE c \in M!Cell /\ heap[c] # M!FREE
      <3>1. PICK e \in H : c # M!NULL /\ c \in {e[2].data, e[2].cell}
        BY <2>2, ListedIs
      <3> QED BY <1>1, <3>1, EntryBlocks
    <2> QED BY <2>1, <2>2
  <1>3. \A n \in M!Listed : heap[n.cell] = M!NODE /\ (n.data # M!NULL => heap[n.data].use = "bytes")
    <2>1. ASSUME NEW n \in M!Listed
          PROVE  heap[n.cell] = M!NODE /\ (n.data # M!NULL => heap[n.data].use = "bytes")
      <3>1. PICK e \in H : e[2] = n
        BY <2>1, ListedIs
      <3> QED BY <1>1, <3>1, EntryBlocks, ContentsDiffer
    <2> QED BY <2>1
  <1>4. \A x, y \in M!Place : M!Has(x) \cap M!Has(y) # {} => x = y
    <2>1. ASSUME NEW x \in M!Place, NEW y \in M!Place, NEW c \in M!Has(x), c \in M!Has(y)
          PROVE  x = y
      <3> DEFINE e == <<md_arr[x[1]].group_id, M!PayloadAt(x)>>
                 f == <<md_arr[y[1]].group_id, M!PayloadAt(y)>>
      <3>1. e \in H /\ f \in H /\ (e = f => x = y)
        BY PlacesDiffer
      <3>2. /\ c \in {e[2].data, e[2].cell} \ {M!NULL}
            /\ c \in {f[2].data, f[2].cell} \ {M!NULL}
        BY <2>1 DEF M!Has
      <3> HIDE DEF e, f, H
      <3>3. e[2].cell # f[2].data /\ f[2].cell # e[2].data
        BY <1>1, <3>1, EntryBlocks
      <3>4. Share(e[2], f[2])
        BY <3>2, <3>3 DEF Share
      <3> QED BY <1>1, <3>1, <3>4 DEF Kept
    <2> QED BY <2>1
  <1> QED BY <1>2, <1>3, <1>4, InvIsTyped DEF M!NothingLeaks

\* The invariant says that each group and each kind is there once.
LEMMA InvIsOneOfAKind ==
  ASSUME M!MetaAssumption, MetaInv PROVE M!OneOfAKind
  <1> DEFINE H == Entries(md_arr, num)
  <1>1. Kept(H, heap) /\ Arranged(md_arr, num) /\ MaxMetas \in Nat
    BY MetaConstants DEF MetaInv
  <1>2. ASSUME NEW s \in 0..(num - 1), NEW j \in DOMAIN md_arr[s].list, NEW k \in DOMAIN md_arr[s].list,
               j # k, md_arr[s].list[j].type = md_arr[s].list[k].type
        PROVE  /\ md_arr[s].list[j].type = "USER"
               /\ M!Uuid(md_arr[s].list[j]) # M!Uuid(md_arr[s].list[k])
    <2> DEFINE e == <<md_arr[s].group_id, md_arr[s].list[j]>>
               f == <<md_arr[s].group_id, md_arr[s].list[k]>>
    <2>1. e \in H /\ f \in H
      BY <1>1, EntryAt
    <2>2. md_arr[s].list[j].cell # md_arr[s].list[k].cell
      BY <1>1, <1>2 DEF Arranged
    <2>3. ~Alike(e, f, heap)
      <3>1. e # f
        BY <2>2
      <3> QED BY <1>1, <2>1, <3>1 DEF Kept
    <2> QED BY <1>2, <2>3, LookupsAre DEF Alike
  <1>3. /\ \A s, t \in 0..(num - 1) : md_arr[s].group_id = md_arr[t].group_id => s = t
        /\ \A s \in 0..(num - 1) : md_arr[s].list # << >> /\ md_arr[s].mdp_num = Len(md_arr[s].list)
    BY <1>1 DEF Arranged
  <1> QED BY <1>2, <1>3 DEF M!OneOfAKind, MetaInv

----------------------------------------------------------------------------
(* Bits and Inputs: whatever the part in use keeps, the composition keeps. *)

\* The invariant of the part that is in use.
BitsInv == (job = "write" => WriteInv) /\ (job = "read" => ReadInv)

\* Bits: at first, in every step of one of the parts, and between them.
LEMMA BitsInvHolds ==
  ASSUME BitsAssumption
  PROVE  /\ BitsInit => BitsInv
         /\ BitsInv /\ [BitsNext]_bitsVars => BitsInv'
         /\ BitsInv /\ [BitsNext]_bitsVars =>
              [job = "read" /\ ~is_eob' /\ got' # << >> => R!TheNextBits]_bitsVars
  <1>1. W!WriterAssumption /\ R!ReaderAssumption
    BY DEF BitsAssumption
  <1>2. BitsInit => BitsInv
    BY <1>1, WriteInit, ReadInit DEF BitsInit, BitsInv
  <1>3. ASSUME BitsInv, BitsNext
        PROVE  /\ job' = job
               /\ job = "write" => W!Next
               /\ job = "read" => R!Next
    BY <1>3 DEF BitsNext, Writes, Reads, Codes, W!Next, R!Next, R!Read
  <1>4. ASSUME BitsInv, BitsNext
        PROVE  BitsInv' /\ (job = "read" /\ ~is_eob' /\ got' # << >> => R!TheNextBits)
    <2>1. job = "write" => WriteInv'
      BY <1>1, <1>3, <1>4, WriteNext DEF BitsInv
    <2>2. job = "read" => ReadInv' /\ (~is_eob' /\ got' # << >> => R!TheNextBits)
      BY <1>1, <1>3, <1>4, ReadStep DEF BitsInv
    <2> QED BY <1>3, <1>4, <2>1, <2>2 DEF BitsInv
  <1>5. ASSUME BitsInv, UNCHANGED bitsVars PROVE BitsInv'
    <2>1. job' = job /\ UNCHANGED W!vars /\ UNCHANGED R!vars
      BY <1>5 DEF bitsVars, writer, reader, register, W!vars, R!vars
    <2> QED BY <1>5, <2>1, WriteStutter, ReadStutter DEF BitsInv
  <1> QED BY <1>2, <1>4, <1>5

\* What is written is in the buffer and the register, bit after bit, until a
\* flush finds no room.
THEOREM WrittenInOrder == ASSUME BitsAssumption PROVE BitsSpec => []BitsInOrder
  <1>1. BitsInv => BitsInOrder
    BY WriteInvOrders DEF BitsInv, BitsInOrder, BitsAssumption
  <1> QED BY <1>1, BitsInvHolds, PTL DEF BitsSpec

\* Coefficients that did not fit are never taken for whole ones: a sink after
\* them returns NULL.
THEOREM CoefOverflowIsNoticed == ASSUME BitsAssumption PROVE BitsSpec => []CoefOverflowSticks
  <1>1. BitsInv => CoefOverflowSticks
    BY DEF BitsInv, CoefOverflowSticks, WriteInv
  <1> QED BY <1>1, BitsInvHolds, PTL DEF BitsSpec

\* is_eob is set exactly when a bit behind the end was asked for.
THEOREM TheEndIsTrue == ASSUME BitsAssumption PROVE BitsSpec => []EndIsTrue
  <1>1. BitsInv => EndIsTrue
    BY DEF BitsInv, EndIsTrue, ReadInv
  <1> QED BY <1>1, BitsInvHolds, PTL DEF BitsSpec

\* A value read before the end is made of the next bits, in their order.
THEOREM ReadsAreTheNextBits == ASSUME BitsAssumption PROVE BitsSpec => NextBits
  <1> QED BY BitsInvHolds, PTL DEF BitsSpec, NextBits

----------------------------------------------------------------------------
\* The same for the parameters.
InputsInv == use = "params" => ParamsInv

\* Inputs: at first, in every step of one of the parts, and between them.
LEMMA InputsInvHolds ==
  ASSUME InputsAssumption
  PROVE  /\ InputsInit => InputsInv
         /\ InputsInv /\ [InputsNext]_inputsVars => InputsInv'
  <1>1. P!ParamsAssumption
    BY DEF InputsAssumption
  <1>2. InputsInit => InputsInv
    BY <1>1, InitIs DEF InputsInit, InputsInv
  <1>3. ASSUME InputsInv, InputsNext PROVE use' = use /\ (use = "params" => P!Next)
    BY <1>3 DEF InputsNext, Sets, Fills, P!Next
  <1>4. ASSUME InputsInv, InputsNext PROVE InputsInv'
    BY <1>1, <1>3, <1>4, ParamsStep DEF InputsInv
  <1>5. ASSUME InputsInv, UNCHANGED inputsVars PROVE InputsInv'
    <2>1. use' = use /\ UNCHANGED P!vars
      BY <1>5 DEF inputsVars, parameters, P!vars
    <2> QED BY <1>5, <2>1, ParamsStutter DEF InputsInv
  <1> QED BY <1>2, <1>4, <1>5

\* The tiles of an instance are whole macroblocks, no smaller than a profile
\* admits and no more than a frame may have, after every call.
THEOREM TilesKeepToTheProfile == ASSUME InputsAssumption PROVE InputsSpec => []TileGrid
  <1>1. InputsInv => TileGrid
    BY DEF InputsInv, TileGrid, ParamsInv
  <1> QED BY <1>1, InputsInvHolds, PTL DEF InputsSpec

\* An instance under rate control has a frame rate and a bitrate to aim at.
THEOREM TargetsAreThere == ASSUME InputsAssumption PROVE InputsSpec => []RateControlHasTarget
  <1>1. InputsInv => RateControlHasTarget
    BY InvHasTarget DEF InputsInv, RateControlHasTarget
  <1> QED BY <1>1, InputsInvHolds, PTL DEF InputsSpec

\* The level chosen for a caller who left it open is the lowest that admits
\* the picture and the bitrate.
THEOREM LevelsAreLowest == ASSUME InputsAssumption PROVE InputsSpec => []LowestLevel
  <1>1. InputsInv => LowestLevel
    BY InvHasLowest DEF InputsInv, LowestLevel, InputsAssumption
  <1> QED BY <1>1, InputsInvHolds, PTL DEF InputsSpec

----------------------------------------------------------------------------
\* The same for the container.
ContainerInv == use = "metadata" => MetaInv

\* What the steps of the container do.
LEMMA ContainerDoes ==
  ASSUME M!MetaAssumption, MetaInv, InputsNext, use = "metadata"
  PROVE  /\ use' = use /\ MetaInv'
         /\ \/ res' = res /\ AnswersStay
            \/ SetOutcome \/ RemOutcome
            \/ res' = res /\ \A n \in M!Name : M!Get(n)' = M!Nothing
  <1>1. \/ \E b \in Batches : Fills(M!Submit(b))
        \/ Fills(M!SetNext)
        \/ \E n \in M!Name : Fills(M!Rem(n[1], n[2], n[3]))
        \/ Fills(M!RemAll)
        \/ Fills(M!Delete)
        \/ Fills(M!Ended)
    BY DEF InputsNext, Sets
  <1>2. /\ todo \in Seq(GroupIds \X Payloads) /\ alive \in BOOLEAN
        /\ res \in {"OK", "INVALID", "OOM", "MAX", "NOT_FOUND"}
    BY DEF MetaInv
  <1>3. ASSUME NEW b \in Batches, Fills(M!Submit(b))
        PROVE  use' = use /\ MetaInv' /\ res' = res /\ AnswersStay
    <2>1. b \in Seq(GroupIds \X Payloads)
      BY MetaConstants
    <2>2. /\ UNCHANGED <<md_arr, num, heap>> /\ todo' = b /\ alive' = alive /\ res' = res /\ use' = use
      BY <1>3 DEF Fills, M!Submit
    <2> QED BY <1>2, <2>1, <2>2, ContainerStays
  <1>4. ASSUME Fills(M!SetNext) PROVE use' = use /\ MetaInv' /\ SetOutcome
    <2>1. use' = use /\ todo # << >> /\ M!Set(Head(todo)[1], Head(todo)[2])
      BY <1>4 DEF Fills, M!SetNext
    <2>2. Head(todo) \in GroupIds \X Payloads
      BY <1>2, <2>1
    <2>3. Head(todo)[1] \in GroupIds /\ Head(todo)[2] \in Payloads
      BY <2>2
    <2> QED BY <2>1, <2>3, SetDoes
  <1>5. ASSUME NEW n \in M!Name, Fills(M!Rem(n[1], n[2], n[3]))
        PROVE  use' = use /\ MetaInv' /\ RemOutcome
    <2>1. <<n[1], n[2], n[3]>> \in M!Name
      BY DEF M!Name
    <2> QED BY <1>5, <2>1, RemKeeps DEF Fills
  <1>6. ASSUME Fills(M!RemAll) \/ Fills(M!Delete)
        PROVE  use' = use /\ MetaInv' /\ res' = res /\ \A n \in M!Name : M!Get(n)' = M!Nothing
    <2>1. use' = use /\ (M!RemAll \/ M!Delete)
      BY <1>6 DEF Fills
    <2>2. res' = res
      BY <2>1 DEF M!RemAll, M!Delete
    <2> QED BY <2>1, <2>2, ClearsDoes
  <1>7. ASSUME Fills(M!Ended) PROVE use' = use /\ MetaInv' /\ res' = res /\ AnswersStay
    <2>1. use' = use /\ UNCHANGED <<md_arr, num, heap>> /\ todo' = todo /\ alive' = alive /\ res' = res
      BY <1>7 DEF Fills, M!Ended, M!vars
    <2> QED BY <1>2, <2>1, ContainerStays
  <1> QED BY <1>1, <1>3, <1>4, <1>5, <1>6, <1>7

\* Of the answers of a resting or a used container, in MetaMap's terms.
LEMMA MapSteps ==
  ASSUME M!MetaAssumption, ContainerInv, InputsNext
  PROVE  Map!Next \/ UNCHANGED Map!vars
  <1>1. CASE use = "metadata"
    <2>0. MetaInv
      BY <1>1 DEF ContainerInv
    <2>1. use' = "metadata"
      BY <1>1, <2>0, ContainerDoes
    <2>2. Map!Changed = {n \in M!Name : M!Get(n)' # M!Get(n)}
      BY <1>1, <2>1 DEF Map!Changed
    <2>3. CASE res' = res /\ AnswersStay
      BY <1>1, <2>1, <2>3 DEF Map!vars, AnswersStay
    <2>4. CASE SetOutcome
      <3>1. CASE res' \in {"INVALID", "OOM", "MAX"} /\ AnswersStay
        BY <1>1, <2>1, <2>2, <3>1 DEF AnswersStay, Map!Next, Map!Refuse
      <3>2. CASE res' = "OK" /\ \E x \in M!Name : M!Get(x)' \in MetaValue /\ OthersStay(x)
        <4>1. PICK x \in M!Name : M!Get(x)' \in MetaValue /\ OthersStay(x)
          BY <3>2
        <4>2. Map!Changed \subseteq {x}
          BY <2>2, <4>1 DEF OthersStay
        <4>3. Map!Put(Map!Changed)
          BY <1>1, <2>1, <3>2, <4>1, <4>2 DEF Map!Put, MetaValue
        <4> QED BY <4>3 DEF Map!Next
      <3> QED BY <2>4, <3>1, <3>2 DEF SetOutcome
    <2>5. CASE RemOutcome
      <3>1. CASE res' = "NOT_FOUND" /\ AnswersStay /\ \E x \in M!Name : M!Get(x) = M!Nothing
        <4>1. Map!Changed = {}
          BY <2>2, <3>1 DEF AnswersStay
        <4>2. Map!Missing(Map!Changed)
          BY <1>1, <2>1, <3>1, <4>1 DEF Map!Missing
        <4> QED BY <4>2 DEF Map!Next
      <3>2. CASE /\ res' = "OK"
                 /\ \E x \in M!Name : /\ M!Get(x) # M!Nothing /\ M!Get(x)' = M!Nothing /\ OthersStay(x)
        <4>1. PICK x \in M!Name : M!Get(x) # M!Nothing /\ M!Get(x)' = M!Nothing /\ OthersStay(x)
          BY <3>2
        <4>2. Map!Changed = {x}
          BY <2>2, <4>1 DEF OthersStay
        <4>3. Map!Remove(Map!Changed)
          BY <1>1, <2>1, <3>2, <4>1, <4>2 DEF Map!Remove
        <4> QED BY <4>3 DEF Map!Next
      <3> QED BY <2>5, <3>1, <3>2 DEF RemOutcome
    <2>6. CASE res' = res /\ \A n \in M!Name : M!Get(n)' = M!Nothing
      <3>1. Map!Clear
        BY <1>1, <2>1, <2>6 DEF Map!Clear
      <3> QED BY <3>1 DEF Map!Next
    <2> QED BY <1>1, <2>0, <2>3, <2>4, <2>5, <2>6, ContainerDoes
  <1>2. CASE use # "metadata"
    <2>1. use' = use
      BY <1>2 DEF InputsNext, Sets, Fills
    <2> QED BY <1>2, <2>1 DEF Map!vars, NothingStored
  <1> QED BY <1>1, <1>2

\* Inputs: the container, at first, in every step, and while it rests.
LEMMA ContainerInvHolds ==
  ASSUME InputsAssumption
  PROVE  /\ InputsInit => ContainerInv /\ Map!Init
         /\ ContainerInv /\ [InputsNext]_inputsVars => ContainerInv' /\ [Map!Next]_(Map!vars)
  <1>1. M!MetaAssumption
    BY DEF InputsAssumption
  <1>2. ASSUME InputsInit PROVE ContainerInv /\ Map!Init
    <2>1. CASE use = "metadata" /\ M!Init
      <3>1. MetaInv /\ \A n \in M!Name : M!Get(n) = M!Nothing
        BY <1>1, <2>1, MetaStarts
      <3>2. res = "OK"
        BY <2>1 DEF M!Init
      <3> QED BY <2>1, <3>1, <3>2 DEF ContainerInv, Map!Init
    <2>2. CASE use = "params"
      BY <2>2 DEF ContainerInv, Map!Init, NothingStored
    <2> QED BY <1>2, <2>1, <2>2 DEF InputsInit
  <1>3. ASSUME ContainerInv, InputsNext PROVE ContainerInv' /\ [Map!Next]_(Map!vars)
    <2>1. Map!Next \/ UNCHANGED Map!vars
      BY <1>1, <1>3, MapSteps
    <2>2. ContainerInv'
      <3>1. CASE use = "metadata"
        BY <1>1, <1>3, <3>1, ContainerDoes DEF ContainerInv
      <3>2. CASE use # "metadata"
        <4>1. use' = use
          BY <1>3, <3>2 DEF InputsNext, Sets, Fills
        <4> QED BY <3>2, <4>1 DEF ContainerInv
      <3> QED BY <3>1, <3>2
    <2> QED BY <2>1, <2>2
  <1>4. ASSUME ContainerInv, UNCHANGED inputsVars PROVE ContainerInv' /\ UNCHANGED Map!vars
    <2>1. use' = use /\ UNCHANGED <<md_arr, num, heap>> /\ todo' = todo /\ alive' = alive /\ res' = res
      BY <1>4 DEF inputsVars, container
    <2>2. CASE use = "metadata"
      <3>0. MetaInv
        BY <1>4, <2>2 DEF ContainerInv
      <3>1. MetaInv' /\ AnswersStay
        <4>1. /\ todo \in Seq(GroupIds \X Payloads) /\ alive \in BOOLEAN
              /\ res \in {"OK", "INVALID", "OOM", "MAX", "NOT_FOUND"}
          BY <3>0 DEF MetaInv
        <4> QED BY <2>1, <3>0, <4>1, ContainerStays
      <3> QED BY <2>1, <2>2, <3>1 DEF ContainerInv, Map!vars, AnswersStay
    <2>3. CASE use # "metadata"
      BY <2>1, <2>3 DEF ContainerInv, Map!vars, NothingStored
    <2> QED BY <2>2, <2>3
  <1> QED BY <1>2, <1>3, <1>4

\* Every block of the heap that is in use is in the container, once, whichever
\* sets failed and whatever was replaced or removed; and a container has each
\* group and each kind of payload once, no empty group, true counts, and no
\* more payloads than a reader takes.
THEOREM ContainerStaysSound == ASSUME InputsAssumption PROVE InputsSpec => []ContainerIsSound
  <1>1. ContainerInv => ContainerIsSound
    BY InvKeepsBlocks, InvIsOneOfAKind DEF ContainerInv, ContainerIsSound, InputsAssumption
  <1> QED BY <1>1, ContainerInvHolds, PTL DEF InputsSpec

\* The container is a map: a set changes the answer for its name and for no
\* other, a refused one changes none, a removed payload is not found.
THEOREM ContainerIsAMap == ASSUME InputsAssumption PROVE InputsSpec => ImplementsMetaMap
  <1> QED BY ContainerInvHolds, PTL DEF InputsSpec, ImplementsMetaMap, Map!Spec
=============================================================================
