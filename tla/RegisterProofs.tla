---------------------------- MODULE RegisterProofs ----------------------------
(***************************************************************************)
(* What the proofs about the drivers know of data: induction on natural    *)
(* numbers as a fact about sets, which is what recursive functions need;   *)
(* the bits of numbers and the numbers of bits; the fields of a register;  *)
(* the settings that gpio_set_config and gpio_set_value give a pin, for    *)
(* every port, pin, field and value that fits.                             *)
(***************************************************************************)
EXTENDS GpioRegs, TLAPS, NaturalsInduction, WellFoundedInduction

\* Every non-empty set of naturals has a least element.
LEMMA LeastNatural ==
    ASSUME NEW T \in SUBSET Nat, T # {}
    PROVE  \E x \in T : \A y \in T : x <= y
<1> DEFINE Less == {ss \in Nat \X Nat : ss[1] < ss[2]}
<1>1. IsWellFoundedOn(Less, Nat)
  BY NatLessThanWellFounded, Zenon DEF OpToRel
<1> HIDE DEF Less
<1>2. PICK x \in T : \A y \in T : <<y, x>> \notin Less
  BY <1>1, WFMin
<1>3. \A y \in T : ~(y < x)
  BY <1>2 DEF Less
<1>. QED BY <1>3

\* A set that contains 0, and k + 1 whenever it contains k below n, contains all
\* the numbers up to n.
LEMMA UpTo ==
    ASSUME NEW n \in Nat, NEW S, 0 \in S, \A k \in 0..(n - 1) : k \in S => k + 1 \in S
    PROVE  0..n \subseteq S
<1> DEFINE Missing == {k \in 0..n : k \notin S}
<1>1. SUFFICES ASSUME Missing # {} PROVE FALSE
  OBVIOUS
<1>a. Missing \in SUBSET Nat
  OBVIOUS
<1>2. PICK k \in Missing : \A j \in Missing : k <= j
  <2> HIDE DEF Missing
  <2>. QED BY <1>1, <1>a, LeastNatural
<1>3. k \in 1..n /\ k - 1 \in 0..(n - 1)
  BY <1>2
<1>4. k - 1 \in S
  BY <1>2, <1>3
<1>5. (k - 1) + 1 \in S
  BY <1>3, <1>4
<1>. QED BY <1>2, <1>3, <1>5

\* The equation that a recursive definition of f on 0..n writes.
Solves(f, n, d, g) == f = [k \in 0..n |-> IF k = 0 THEN d ELSE g[<<k, f[k - 1]>>]]

\* It has a solution, whatever the step function g is.
LEMMA RecursionExists ==
    ASSUME NEW n \in Nat, NEW D, NEW d \in D, NEW g \in [(1..n) \X D -> D]
    PROVE  \E f \in [0..n -> D] : Solves(f, n, d, g)
<1> DEFINE Reached == {m \in 0..n : \E f \in [0..m -> D] : Solves(f, m, d, g)}
<1>1. 0 \in Reached
  <2> DEFINE first == [k \in 0..0 |-> d]
  <2>1. first \in [0..0 -> D] /\ Solves(first, 0, d, g)
    BY DEF Solves
  <2> HIDE DEF first
  <2>2. \E f \in [0..0 -> D] : Solves(f, 0, d, g)
    BY <2>1
  <2>. QED BY <2>2
<1>2. ASSUME NEW m \in 0..(n - 1), m \in Reached
      PROVE  m + 1 \in Reached
  <2>1. PICK f \in [0..m -> D] : Solves(f, m, d, g)
    BY <1>2
  <2> DEFINE h == [k \in 0..(m + 1) |-> IF k <= m THEN f[k] ELSE g[<<m + 1, f[m]>>]]
  <2>2. m + 1 \in 1..n /\ f[m] \in D /\ m + 1 \in 0..n
    BY <2>1
  <2>3. g[<<m + 1, f[m]>>] \in D
    BY <2>2
  <2>4. h \in [0..(m + 1) -> D]
    BY <2>3
  <2>5. ASSUME NEW k \in 0..(m + 1)
        PROVE  h[k] = IF k = 0 THEN d ELSE g[<<k, h[k - 1]>>]
    <3>1. CASE k = 0
      BY <2>1, <3>1 DEF Solves
    <3>2. CASE k \in 1..m
      <4>1. k \in 0..m /\ k - 1 \in 0..m /\ k # 0
        BY <3>2
      <4>2. f[k] = g[<<k, f[k - 1]>>]
        BY <2>1, <4>1 DEF Solves
      <4>3. h[k] = f[k] /\ h[k - 1] = f[k - 1]
        BY <4>1
      <4>. QED BY <4>1, <4>2, <4>3
    <3>3. CASE k = m + 1
      <4>1. h[k] = g[<<m + 1, f[m]>>] /\ h[k - 1] = f[m] /\ k # 0
        BY <3>3
      <4>. QED BY <3>3, <4>1
    <3>. QED BY <3>1, <3>2, <3>3
  <2>6. Solves(h, m + 1, d, g)
    <3> HIDE DEF h
    <3>1. h = [k \in 0..(m + 1) |-> h[k]]
      BY <2>4
    <3>. QED BY <2>5, <3>1 DEF Solves
  <2>. QED BY <2>2, <2>4, <2>6
<1>3. 0..n \subseteq Reached
  <2> HIDE DEF Reached
  <2>. QED BY <1>1, <1>2, UpTo
<1>. QED BY <1>3

(***************************************************************************)
(* Bits of small numbers.                                                  *)
(***************************************************************************)
LEMMA Powers ==
    ASSUME NEW b \in 0..30
    PROVE  /\ 2^b \in Nat \ {0} /\ 2^0 = 1
           /\ b >= 1 => 2^b >= 2
           /\ b >= 2 => 2^b >= 4
           /\ b >= 4 => 2^b >= 16
<1>1. CASE b \in 0..7
  <2>1. b = 0 \/ b = 1 \/ b = 2 \/ b = 3 \/ b = 4 \/ b = 5 \/ b = 6 \/ b = 7
    BY <1>1
  <2>2. (b = 0 => 2^b = 2^0) /\ (b = 1 => 2^b = 2^1) /\ (b = 2 => 2^b = 2^2) /\ (b = 3 => 2^b = 2^3)
        /\ (b = 4 => 2^b = 2^4) /\ (b = 5 => 2^b = 2^5) /\ (b = 6 => 2^b = 2^6) /\ (b = 7 => 2^b = 2^7)
    BY Zenon
  <2>. QED BY <2>1, <2>2, SMT
<1>2. CASE b \in 8..15
  <2>1. b = 8 \/ b = 9 \/ b = 10 \/ b = 11 \/ b = 12 \/ b = 13 \/ b = 14 \/ b = 15
    BY <1>2
  <2>2. (b = 8 => 2^b = 2^8) /\ (b = 9 => 2^b = 2^9) /\ (b = 10 => 2^b = 2^10) /\ (b = 11 => 2^b = 2^11)
        /\ (b = 12 => 2^b = 2^12) /\ (b = 13 => 2^b = 2^13) /\ (b = 14 => 2^b = 2^14) /\ (b = 15 => 2^b = 2^15)
    BY Zenon
  <2>. QED BY <2>1, <2>2, SMT
<1>3. CASE b \in 16..23
  <2>1. b = 16 \/ b = 17 \/ b = 18 \/ b = 19 \/ b = 20 \/ b = 21 \/ b = 22 \/ b = 23
    BY <1>3
  <2>2. (b = 16 => 2^b = 2^16) /\ (b = 17 => 2^b = 2^17) /\ (b = 18 => 2^b = 2^18) /\ (b = 19 => 2^b = 2^19)
        /\ (b = 20 => 2^b = 2^20) /\ (b = 21 => 2^b = 2^21) /\ (b = 22 => 2^b = 2^22) /\ (b = 23 => 2^b = 2^23)
    BY Zenon
  <2>. QED BY <2>1, <2>2, SMT
<1>4. CASE b \in 24..30
  <2>1. b = 24 \/ b = 25 \/ b = 26 \/ b = 27 \/ b = 28 \/ b = 29 \/ b = 30
    BY <1>4
  <2>2. (b = 24 => 2^b = 2^24) /\ (b = 25 => 2^b = 2^25) /\ (b = 26 => 2^b = 2^26) /\ (b = 27 => 2^b = 2^27)
        /\ (b = 28 => 2^b = 2^28) /\ (b = 29 => 2^b = 2^29) /\ (b = 30 => 2^b = 2^30)
    BY Zenon
  <2>. QED BY <2>1, <2>2, SMT
<1>. QED BY <1>1, <1>2, <1>3, <1>4

LEMMA SmallBits ==
    /\ BitsOf(0) = {} /\ BitsOf(1) = {0}
    /\ \A v \in 0..1 : BitsOf(v) \subseteq 0..0
    /\ \A v \in 0..3 : BitsOf(v) \subseteq 0..1
    /\ \A v \in 0..15 : BitsOf(v) \subseteq 0..3
<1>0. ASSUME NEW v \in Nat, NEW b \in 0..30, v < 2^b
      PROVE  b \notin BitsOf(v)
  <2>1. 2^b \in Nat \ {0}
    BY Powers
  <2> DEFINE m == 2^b
  <2> HIDE DEF m
  <2>2. m \in Nat \ {0} /\ v < m
    BY <1>0, <2>1 DEF m
  <2>3. v \div m = 0
    BY <2>2
  <2>4. (v \div m) % 2 # 1
    BY <2>3
  <2>. QED BY <2>4, Zenon DEF BitsOf, m
<1>1. \A b \in 0..30 : /\ b >= 1 => 2^b >= 2
                       /\ b >= 2 => 2^b >= 4
                       /\ b >= 4 => 2^b >= 16
                       /\ 2^b \in Nat \ {0}
  BY Powers
<1>2. \A v : BitsOf(v) \subseteq 0..30
  BY DEF BitsOf
<1>3. ASSUME NEW v \in 0..1 PROVE BitsOf(v) \subseteq 0..0
  <2>1. ASSUME NEW b \in BitsOf(v) PROVE b = 0
    BY <1>0, <1>1, <1>2
  <2>. QED BY <2>1
<1>4. ASSUME NEW v \in 0..3 PROVE BitsOf(v) \subseteq 0..1
  <2>1. ASSUME NEW b \in BitsOf(v) PROVE b \in 0..1
    BY <1>0, <1>1, <1>2
  <2>. QED BY <2>1
<1>5. ASSUME NEW v \in 0..15 PROVE BitsOf(v) \subseteq 0..3
  <2>1. ASSUME NEW b \in BitsOf(v) PROVE b \in 0..3
    BY <1>0, <1>1, <1>2
  <2>. QED BY <2>1
<1>6. BitsOf(0) = {}
  <2>1. 0 \notin BitsOf(0)
    BY <1>0, Powers
  <2>. QED BY <1>3, <2>1
<1>7. 0 \in BitsOf(1)
  <2>1. 2^0 = 1 /\ (1 \div 1) % 2 = 1
    BY Powers
  <2>. QED BY <2>1 DEF BitsOf
<1>8. BitsOf(1) = {0}
  BY <1>3, <1>7
<1>. QED BY <1>3, <1>4, <1>5, <1>6, <1>8

(***************************************************************************)
(* One field of a register: its own bits are written, and no others.       *)
(***************************************************************************)
IsRegister(word) == word \in SUBSET Bits

Fits(pos, w) == pos \in 0..31 /\ w \in 1..4 /\ pos + w <= 32

Put(word, value, pos, w) == set_reg_value(word, value, Field(pos, w), pos)

Clipped(word, value, pos, w) == (word \ Field(pos, w)) \cup (Shift(value, pos) \cap Field(pos, w))

LEMMA SetField ==
    ASSUME NEW word, IsRegister(word), NEW value, NEW pos, NEW w, Fits(pos, w)
    PROVE  Put(word, value, pos, w) = Clipped(word, value, pos, w) /\ IsRegister(Put(word, value, pos, w))
<1>1. Field(pos, w) # Bits
  <2>1. CASE 0 \in Field(pos, w)
    <3>1. 31 \notin Field(pos, w) /\ 31 \in Bits
      BY <2>1 DEF Field, Bits, Fits
    <3>. QED BY <3>1
  <2>2. 0 \in Bits
    BY DEF Bits
  <2>. QED BY <2>1, <2>2
<1>2. Put(word, value, pos, w) = Clipped(word, value, pos, w)
  BY <1>1 DEF set_reg_value, Put, Clipped, Fits
<1>3. Shift(value, pos) \subseteq Bits
  BY DEF Shift
<1>4. IsRegister(Clipped(word, value, pos, w))
  BY <1>3 DEF IsRegister, Clipped
<1>. QED BY <1>2, <1>4

\* A field reads back as it was written.
LEMMA OwnField ==
    ASSUME NEW word, IsRegister(word), NEW pos, NEW w, Fits(pos, w),
           NEW value, value \subseteq 0..(w - 1)
    PROVE  PinField(Put(word, value, pos, w), pos, w) = value
<1> DEFINE new == Put(word, value, pos, w)
<1>0. new = Clipped(word, value, pos, w)
  BY SetField
<1> HIDE DEF new
<1>1. new = (word \ Field(pos, w)) \cup (Shift(value, pos) \cap Field(pos, w))
  BY <1>0 DEF Clipped
<1>2. new \cap Field(pos, w) = {b + pos : b \in value}
  <2>1. {b + pos : b \in value} \subseteq Field(pos, w) \cap Bits
    BY DEF Field, Bits, Fits
  <2>2. Shift(value, pos) = {b + pos : b \in value}
    BY <2>1 DEF Shift
  <2>. QED BY <1>1, <2>1, <2>2
<1>3. Field(pos, w) # {}
  <2>1. pos \in Field(pos, w)
    BY DEF Field, Fits
  <2>. QED BY <2>1
<1>4. PinField(new, pos, w) = {b - pos : b \in {c \in new \cap Field(pos, w) : c >= pos}}
  BY <1>3 DEF PinField, get_reg_value, Fits
<1>5. {c \in new \cap Field(pos, w) : c >= pos} = {b + pos : b \in value}
  BY <1>2 DEF Fits
<1>6. {b - pos : b \in {a + pos : a \in value}} = value
  <2>1. \A a \in value : a \in Int /\ (a + pos) - pos = a
    BY DEF Fits
  <2>. QED BY <2>1
<1>. QED BY <1>4, <1>5, <1>6 DEF new

\* Another field stays as it was.
Apart(pos, w, pos2, w2) == pos2 + w2 <= pos \/ pos + w <= pos2

LEMMA OtherField ==
    ASSUME NEW word, IsRegister(word), NEW value, NEW pos, NEW w, Fits(pos, w),
           NEW pos2, NEW w2, Fits(pos2, w2), Apart(pos, w, pos2, w2)
    PROVE  PinField(Put(word, value, pos, w), pos2, w2) = PinField(word, pos2, w2)
<1> DEFINE new == Put(word, value, pos, w)
<1>0. new = Clipped(word, value, pos, w)
  BY SetField
<1> HIDE DEF new
<1>1. new = (word \ Field(pos, w)) \cup (Shift(value, pos) \cap Field(pos, w))
  BY <1>0 DEF Clipped
<1>2. Field(pos, w) \cap Field(pos2, w2) = {}
  BY DEF Field, Apart, Fits
<1>3. new \cap Field(pos2, w2) = word \cap Field(pos2, w2)
  BY <1>1, <1>2
<1>4. PinField(new, pos2, w2) = PinField(word, pos2, w2)
  BY <1>3 DEF PinField, get_reg_value
<1>. QED BY <1>4 DEF new

\* A field of one bit.
LEMMA OneBit ==
    ASSUME NEW pin \in 0..15
    PROVE  {pin} = Field(pin, 1)
  BY DEF Field

LEMMA BitField ==
    ASSUME NEW word, NEW pin \in 0..15
    PROVE  PinField(word, pin, 1) = IF pin \in word THEN {0} ELSE {}
<1>1. PinField(word, pin, 1) = {b - pin : b \in {c \in word \cap {pin} : c >= pin}}
  BY OneBit DEF PinField, get_reg_value
<1>2. CASE pin \in word
  <2>1. {c \in word \cap {pin} : c >= pin} = {pin} /\ pin - pin = 0
    BY <1>2
  <2>2. {b - pin : b \in {pin}} = {pin - pin}
    OBVIOUS
  <2>. QED BY <1>1, <1>2, <2>1, <2>2
<1>3. CASE pin \notin word
  <2>1. {c \in word \cap {pin} : c >= pin} = {}
    BY <1>3
  <2>. QED BY <1>1, <1>3, <2>1
<1>. QED BY <1>2, <1>3

(***************************************************************************)
(* The fields of a pin, one, two or four bits wide.                        *)
(***************************************************************************)
LEMMA OneBitFields ==
    ASSUME NEW r, IsRegister(r), NEW v, NEW k \in 0..15
    PROVE  /\ IsRegister(Put(r, v, k, 1))
           /\ v \subseteq 0..0 => PinField(Put(r, v, k, 1), k, 1) = v
           /\ \A pin \in 0..15 : pin # k => PinField(Put(r, v, k, 1), pin, 1) = PinField(r, pin, 1)
<1>1. Fits(k, 1) /\ 1 - 1 = 0
  BY DEF Fits
<1>2. v \subseteq 0..0 => PinField(Put(r, v, k, 1), k, 1) = v
  BY <1>1, OwnField
<1>3. ASSUME NEW pin \in 0..15, pin # k
      PROVE  PinField(Put(r, v, k, 1), pin, 1) = PinField(r, pin, 1)
  <2>1. Fits(pin, 1) /\ Apart(k, 1, pin, 1)
    BY <1>3 DEF Apart, Fits
  <2>. QED BY <1>1, <2>1, OtherField
<1>. QED BY <1>1, <1>2, <1>3, SetField

LEMMA TwoBitFields ==
    ASSUME NEW r, IsRegister(r), NEW v, NEW k \in 0..15
    PROVE  /\ IsRegister(Put(r, v, 2 * k, 2))
           /\ v \subseteq 0..1 => PinField(Put(r, v, 2 * k, 2), 2 * k, 2) = v
           /\ \A pin \in 0..15 :
                pin # k => PinField(Put(r, v, 2 * k, 2), 2 * pin, 2) = PinField(r, 2 * pin, 2)
<1>1. Fits(2 * k, 2) /\ 2 - 1 = 1
  BY DEF Fits
<1>2. v \subseteq 0..1 => PinField(Put(r, v, 2 * k, 2), 2 * k, 2) = v
  BY <1>1, OwnField
<1>3. ASSUME NEW pin \in 0..15, pin # k
      PROVE  PinField(Put(r, v, 2 * k, 2), 2 * pin, 2) = PinField(r, 2 * pin, 2)
  <2>1. Fits(2 * pin, 2) /\ Apart(2 * k, 2, 2 * pin, 2)
    BY <1>3 DEF Apart, Fits
  <2>. QED BY <1>1, <2>1, OtherField
<1>. QED BY <1>1, <1>2, <1>3, SetField

LEMMA FourBitFields ==
    ASSUME NEW r, IsRegister(r), NEW v, NEW k \in 0..7
    PROVE  /\ IsRegister(Put(r, v, 4 * k, 4))
           /\ v \subseteq 0..3 => PinField(Put(r, v, 4 * k, 4), 4 * k, 4) = v
           /\ \A pin \in 0..7 :
                pin # k => PinField(Put(r, v, 4 * k, 4), 4 * pin, 4) = PinField(r, 4 * pin, 4)
<1>1. Fits(4 * k, 4) /\ 4 - 1 = 3
  BY DEF Fits
<1>2. v \subseteq 0..3 => PinField(Put(r, v, 4 * k, 4), 4 * k, 4) = v
  BY <1>1, OwnField
<1>3. ASSUME NEW pin \in 0..7, pin # k
      PROVE  PinField(Put(r, v, 4 * k, 4), 4 * pin, 4) = PinField(r, 4 * pin, 4)
  <2>1. Fits(4 * pin, 4) /\ Apart(4 * k, 4, 4 * pin, 4)
    BY <1>3 DEF Apart, Fits
  <2>. QED BY <1>1, <2>1, OtherField
<1>. QED BY <1>1, <1>2, <1>3, SetField

\* A bit written with 0 or 1.
LEMMA PutBit ==
    ASSUME NEW r, IsRegister(r), NEW v \in 0..1, NEW k \in 0..15
    PROVE  \A b : b \in Put(r, BitsOf(v), k, 1) <=> IF b = k THEN v = 1 ELSE b \in r
<1>1. Put(r, BitsOf(v), k, 1) = (r \ {k}) \cup (Shift(BitsOf(v), k) \cap {k})
  <2>1. Fits(k, 1)
    BY DEF Fits
  <2>2. Put(r, BitsOf(v), k, 1) = Clipped(r, BitsOf(v), k, 1)
    BY <2>1, SetField
  <2>. QED BY <2>2, OneBit DEF Clipped
<1>2. CASE v = 0
  BY <1>1, <1>2, SmallBits DEF Shift
<1>3. CASE v = 1
  <2>1. Shift({0}, k) = {k}
    BY DEF Shift, Bits
  <2>. QED BY <1>1, <1>3, <2>1, SmallBits
<1>. QED BY <1>2, <1>3

(***************************************************************************)
(* gpio_set_config on the registers of one port.                           *)
(***************************************************************************)
IsPort(p) ==
    /\ p = [moder |-> p.moder, otyper |-> p.otyper, ospeedr |-> p.ospeedr, pupdr |-> p.pupdr,
            odr |-> p.odr, lckr |-> p.lckr, afr_l |-> p.afr_l, afr_h |-> p.afr_h]
    /\ IsRegister(p.moder) /\ IsRegister(p.otyper) /\ IsRegister(p.ospeedr) /\ IsRegister(p.pupdr)
    /\ IsRegister(p.odr) /\ IsRegister(p.lckr) /\ IsRegister(p.afr_l) /\ IsRegister(p.afr_h)

\* A configuration whose values fit.
IsConfig(c) ==
    /\ c.pin \in Nat /\ c.afr \in 0..15
    /\ c.mode \in 0..3 /\ c.speed \in 0..3 /\ c.pupd \in 0..3
    /\ c.type \in 0..1 /\ c.od \in 0..1 /\ c.bsr_r \in 0..1 /\ c.bsr_s \in 0..1 /\ c.lck \in 0..1

\* The output register after the three fields that may write it.
Od(p, c) == IF "od" \in c.set_mask THEN Put(p.odr, BitsOf(c.od), c.pin, 1) ELSE p.odr
OdR(p, c) == IF "bsr_r" \in c.set_mask THEN Od(p, c) \cup Put({}, BitsOf(c.bsr_r), c.pin, 1) ELSE Od(p, c)
OdS(p, c) == IF "bsr_s" \in c.set_mask THEN OdR(p, c) \cup Put({}, BitsOf(c.bsr_s), c.pin, 1) ELSE OdR(p, c)

\* Every register of the port after the call.
LEMMA ConfiguredIs ==
    ASSUME NEW p, IsPort(p), NEW c, IsConfig(c), c.pin <= 15
    PROVE  Configured(p, c) =
             [moder   |-> IF "mode" \in c.set_mask THEN Put(p.moder, BitsOf(c.mode), 2 * c.pin, 2) ELSE p.moder,
              otyper  |-> IF "type" \in c.set_mask THEN Put(p.otyper, BitsOf(c.type), c.pin, 1) ELSE p.otyper,
              ospeedr |-> IF "speed" \in c.set_mask THEN Put(p.ospeedr, BitsOf(c.speed), 2 * c.pin, 2) ELSE p.ospeedr,
              pupdr   |-> IF "pupd" \in c.set_mask THEN Put(p.pupdr, BitsOf(c.pupd), 2 * c.pin, 2) ELSE p.pupdr,
              odr     |-> OdS(p, c),
              lckr    |-> IF "lck" \in c.set_mask THEN Put(p.lckr, BitsOf(c.lck), c.pin, 1) ELSE p.lckr,
              afr_l   |-> IF "afr" \in c.set_mask /\ c.pin <= 7
                          THEN Put(p.afr_l, BitsOf(c.afr), 4 * c.pin, 4) ELSE p.afr_l,
              afr_h   |-> IF "afr" \in c.set_mask /\ c.pin > 7
                          THEN Put(p.afr_h, BitsOf(c.afr), 4 * (c.pin - 8), 4) ELSE p.afr_h]
<1>0. c.pin \in 0..15 /\ {c.pin} = Field(c.pin, 1)
  BY OneBit DEF IsConfig
<1> DEFINE m  == IF "mode" \in c.set_mask THEN Put(p.moder, BitsOf(c.mode), 2 * c.pin, 2) ELSE p.moder
           t  == IF "type" \in c.set_mask THEN Put(p.otyper, BitsOf(c.type), c.pin, 1) ELSE p.otyper
           sp == IF "speed" \in c.set_mask THEN Put(p.ospeedr, BitsOf(c.speed), 2 * c.pin, 2) ELSE p.ospeedr
           pu == IF "pupd" \in c.set_mask THEN Put(p.pupdr, BitsOf(c.pupd), 2 * c.pin, 2) ELSE p.pupdr
           o  == OdS(p, c)
           l  == IF "lck" \in c.set_mask THEN Put(p.lckr, BitsOf(c.lck), c.pin, 1) ELSE p.lckr
           q  == [moder |-> m, otyper |-> t, ospeedr |-> sp, pupdr |-> pu, odr |-> o, lckr |-> l,
                  afr_l |-> p.afr_l, afr_h |-> p.afr_h]
<1>1. Configured(p, c) = IF "afr" \in c.set_mask THEN gpio_set_afr(q, c.pin, c.afr) ELSE q
  <2> DEFINE m0  == IF "mode" \in c.set_mask THEN gpio_set_mode(p.moder, c.pin, c.mode) ELSE p.moder
             t0  == IF "type" \in c.set_mask THEN gpio_set_type(p.otyper, c.pin, c.type) ELSE p.otyper
             sp0 == IF "speed" \in c.set_mask THEN gpio_set_speed(p.ospeedr, c.pin, c.speed) ELSE p.ospeedr
             pu0 == IF "pupd" \in c.set_mask THEN gpio_set_pupd(p.pupdr, c.pin, c.pupd) ELSE p.pupdr
             o1  == IF "od" \in c.set_mask THEN gpio_set_od(p.odr, c.pin, c.od) ELSE p.odr
             o2  == IF "bsr_r" \in c.set_mask THEN gpio_set_bsr_r(o1, c.pin, c.bsr_r) ELSE o1
             o3  == IF "bsr_s" \in c.set_mask THEN gpio_set_bsr_s(o2, c.pin, c.bsr_s) ELSE o2
             l0  == IF "lck" \in c.set_mask THEN gpio_set_lck(p.lckr, c.pin, c.lck) ELSE p.lckr
             q0  == [moder |-> m0, otyper |-> t0, ospeedr |-> sp0, pupdr |-> pu0, odr |-> o3, lckr |-> l0,
                     afr_l |-> p.afr_l, afr_h |-> p.afr_h]
  <2>1. Configured(p, c) = IF "afr" \in c.set_mask THEN gpio_set_afr(q0, c.pin, c.afr) ELSE q0
    BY Zenon DEF Configured
  <2>2. m0 = m /\ sp0 = sp /\ pu0 = pu
    BY Zenon DEF gpio_set_mode, gpio_set_speed, gpio_set_pupd, Put
  <2>3. t0 = t
    BY <1>0, Zenon DEF gpio_set_type, Put
  <2>4. l0 = l
    BY <1>0, Zenon DEF gpio_set_lck, Put
  <2>5. o1 = Od(p, c)
    BY <1>0, Zenon DEF gpio_set_od, Put, Od
  <2> HIDE DEF o1
  <2>6. o2 = OdR(p, c)
    BY <1>0, <2>5, Zenon DEF gpio_set_bsr_r, gpio_set_bsr, Put, OdR
  <2> HIDE DEF o2
  <2>7. o3 = o
    BY <1>0, <2>6, Zenon DEF gpio_set_bsr_s, gpio_set_bsr, Put, OdS
  <2> HIDE DEF m0, t0, sp0, pu0, o3, l0, m, t, sp, pu, o, l
  <2>8. q0 = q
    BY <2>2, <2>3, <2>4, <2>7, Zenon
  <2> HIDE DEF q0, q
  <2>9. q0 = q /\ Configured(p, c) = IF "afr" \in c.set_mask THEN gpio_set_afr(q0, c.pin, c.afr) ELSE q0
    BY <2>1, <2>8
  <2>. QED BY <2>9, Zenon
<1> HIDE DEF m, t, sp, pu, o, l
<1>2. gpio_set_afr(q, c.pin, c.afr) =
        [moder |-> m, otyper |-> t, ospeedr |-> sp, pupdr |-> pu, odr |-> o, lckr |-> l,
         afr_l |-> IF c.pin <= 7 THEN Put(p.afr_l, BitsOf(c.afr), 4 * c.pin, 4) ELSE p.afr_l,
         afr_h |-> IF c.pin > 7 THEN Put(p.afr_h, BitsOf(c.afr), 4 * (c.pin - 8), 4) ELSE p.afr_h]
  <2>1. CASE c.pin > 7
    <3> DEFINE a == Put(p.afr_h, BitsOf(c.afr), 4 * (c.pin - 8), 4)
    <3>1. gpio_set_afr(q, c.pin, c.afr) = [q EXCEPT !.afr_h = a]
      BY <2>1 DEF gpio_set_afr, Put
    <3> HIDE DEF a
    <3>2. [q EXCEPT !.afr_h = a] = [moder |-> m, otyper |-> t, ospeedr |-> sp, pupdr |-> pu, odr |-> o,
                                    lckr |-> l, afr_l |-> p.afr_l, afr_h |-> a]
      OBVIOUS
    <3>3. ~(c.pin <= 7)
      BY <1>0, <2>1
    <3>. QED BY <2>1, <3>1, <3>2, <3>3 DEF a
  <2>2. CASE ~(c.pin > 7)
    <3> DEFINE a == Put(p.afr_l, BitsOf(c.afr), 4 * c.pin, 4)
    <3>1. gpio_set_afr(q, c.pin, c.afr) = [q EXCEPT !.afr_l = a]
      BY <2>2 DEF gpio_set_afr, Put
    <3> HIDE DEF a
    <3>2. [q EXCEPT !.afr_l = a] = [moder |-> m, otyper |-> t, ospeedr |-> sp, pupdr |-> pu, odr |-> o,
                                    lckr |-> l, afr_l |-> a, afr_h |-> p.afr_h]
      OBVIOUS
    <3>3. c.pin <= 7
      BY <1>0, <2>2
    <3>. QED BY <2>2, <3>1, <3>2, <3>3 DEF a
  <2>. QED BY <2>1, <2>2
<1>3. CASE "afr" \in c.set_mask
  BY <1>1, <1>2, <1>3 DEF m, t, sp, pu, o, l
<1>4. CASE "afr" \notin c.set_mask
  BY <1>1, <1>4 DEF m, t, sp, pu, o, l
<1>. QED BY <1>3, <1>4

\* The output register holds, for every other pin, what it held.
LEMMA Output ==
    ASSUME NEW p, IsPort(p), NEW c, IsConfig(c), c.pin <= 15
    PROVE  /\ IsRegister(OdS(p, c))
           /\ \A b \in 0..15 : b # c.pin => (b \in OdS(p, c) <=> b \in p.odr)
           /\ c.pin \in OdS(p, c) <=>
                \/ "bsr_r" \in c.set_mask /\ c.bsr_r = 1
                \/ "bsr_s" \in c.set_mask /\ c.bsr_s = 1
                \/ IF "od" \in c.set_mask THEN c.od = 1 ELSE c.pin \in p.odr
<1>0. /\ c.pin \in 0..15 /\ c.od \in 0..1 /\ c.bsr_r \in 0..1 /\ c.bsr_s \in 0..1
      /\ IsRegister(p.odr) /\ IsRegister({})
  BY DEF IsConfig, IsPort, IsRegister
<1>1. /\ \A b : b \in Put(p.odr, BitsOf(c.od), c.pin, 1) <=> IF b = c.pin THEN c.od = 1 ELSE b \in p.odr
      /\ \A b : b \in Put({}, BitsOf(c.bsr_r), c.pin, 1) <=> IF b = c.pin THEN c.bsr_r = 1 ELSE b \in {}
      /\ \A b : b \in Put({}, BitsOf(c.bsr_s), c.pin, 1) <=> IF b = c.pin THEN c.bsr_s = 1 ELSE b \in {}
  BY <1>0, PutBit
<1>2. /\ IsRegister(Put(p.odr, BitsOf(c.od), c.pin, 1))
      /\ IsRegister(Put({}, BitsOf(c.bsr_r), c.pin, 1))
      /\ IsRegister(Put({}, BitsOf(c.bsr_s), c.pin, 1))
  BY <1>0, OneBitFields
<1>3. IsRegister(OdS(p, c))
  BY <1>0, <1>2 DEF OdS, OdR, Od, IsRegister
<1>4. \A b : b \in Od(p, c) <=> IF b = c.pin /\ "od" \in c.set_mask THEN c.od = 1 ELSE b \in p.odr
  BY <1>1 DEF Od
<1>5. \A b : b \in OdR(p, c) <=> \/ b = c.pin /\ "bsr_r" \in c.set_mask /\ c.bsr_r = 1
                                 \/ b \in Od(p, c)
  BY <1>1 DEF OdR
<1>6. \A b : b \in OdS(p, c) <=> \/ b = c.pin /\ "bsr_s" \in c.set_mask /\ c.bsr_s = 1
                                 \/ b \in OdR(p, c)
  BY <1>1 DEF OdS
<1>7. \A b \in 0..15 : b # c.pin => (b \in OdS(p, c) <=> b \in p.odr)
  BY <1>4, <1>5, <1>6
<1>8. c.pin \in OdS(p, c) <=>
        \/ "bsr_r" \in c.set_mask /\ c.bsr_r = 1
        \/ "bsr_s" \in c.set_mask /\ c.bsr_s = 1
        \/ IF "od" \in c.set_mask THEN c.od = 1 ELSE c.pin \in p.odr
  BY <1>4, <1>5, <1>6
<1>. QED BY <1>3, <1>7, <1>8

LEMMA ConfiguredPort ==
    ASSUME NEW p, IsPort(p), NEW c, IsConfig(c), c.pin <= 15
    PROVE  IsPort(Configured(p, c))
<1> DEFINE q == Configured(p, c)
<1>0. c.pin \in 0..15
  BY DEF IsConfig
<1>1. IsRegister(q.moder) /\ IsRegister(q.ospeedr) /\ IsRegister(q.pupdr)
  BY <1>0, ConfiguredIs, TwoBitFields DEF IsPort
<1>2. IsRegister(q.otyper) /\ IsRegister(q.lckr)
  BY <1>0, ConfiguredIs, OneBitFields DEF IsPort
<1>3. IsRegister(q.odr)
  BY ConfiguredIs, Output
<1>4. IsRegister(q.afr_l) /\ IsRegister(q.afr_h)
  <2>1. c.pin <= 7 => c.pin \in 0..7
    BY <1>0
  <2>2. c.pin > 7 => c.pin - 8 \in 0..7
    BY <1>0
  <2>. QED BY <2>1, <2>2, ConfiguredIs, FourBitFields DEF IsPort
<1>5. q = [moder |-> q.moder, otyper |-> q.otyper, ospeedr |-> q.ospeedr, pupdr |-> q.pupdr,
           odr |-> q.odr, lckr |-> q.lckr, afr_l |-> q.afr_l, afr_h |-> q.afr_h]
  BY ConfiguredIs
<1>. QED BY <1>1, <1>2, <1>3, <1>4, <1>5 DEF IsPort

\* No other pin of the port is disturbed.
LEMMA OtherPin ==
    ASSUME NEW p, IsPort(p), NEW c, IsConfig(c), c.pin <= 15, NEW pin \in 0..15, pin # c.pin
    PROVE  PinSettings(Configured(p, c), pin) = PinSettings(p, pin)
<1> DEFINE q == Configured(p, c)
<1>0. c.pin \in 0..15
  BY DEF IsConfig
<1>1. /\ PinField(q.moder, 2 * pin, 2) = PinField(p.moder, 2 * pin, 2)
      /\ PinField(q.ospeedr, 2 * pin, 2) = PinField(p.ospeedr, 2 * pin, 2)
      /\ PinField(q.pupdr, 2 * pin, 2) = PinField(p.pupdr, 2 * pin, 2)
  BY <1>0, ConfiguredIs, TwoBitFields DEF IsPort
<1>2. /\ PinField(q.otyper, pin, 1) = PinField(p.otyper, pin, 1)
      /\ PinField(q.lckr, pin, 1) = PinField(p.lckr, pin, 1)
  BY <1>0, ConfiguredIs, OneBitFields DEF IsPort
<1>3. PinField(q.odr, pin, 1) = PinField(p.odr, pin, 1)
  <2>1. q.odr = OdS(p, c)
    BY ConfiguredIs
  <2>2. pin \in OdS(p, c) <=> pin \in p.odr
    BY Output
  <2>3. /\ PinField(OdS(p, c), pin, 1) = IF pin \in OdS(p, c) THEN {0} ELSE {}
        /\ PinField(p.odr, pin, 1) = IF pin \in p.odr THEN {0} ELSE {}
    BY BitField
  <2> HIDE DEF q
  <2>. QED BY <2>1, <2>2, <2>3
<1>4. pin <= 7 => PinField(q.afr_l, 4 * pin, 4) = PinField(p.afr_l, 4 * pin, 4)
  <2>1. pin <= 7 => pin \in 0..7
    OBVIOUS
  <2>2. c.pin <= 7 => c.pin \in 0..7
    BY <1>0
  <2>. QED BY <2>1, <2>2, ConfiguredIs, FourBitFields DEF IsPort
<1>5. pin > 7 => PinField(q.afr_h, 4 * (pin - 8), 4) = PinField(p.afr_h, 4 * (pin - 8), 4)
  <2>1. pin > 7 => pin - 8 \in 0..7
    OBVIOUS
  <2>2. c.pin > 7 => c.pin - 8 \in 0..7 /\ c.pin - 8 # pin - 8
    BY <1>0
  <2>. QED BY <2>1, <2>2, ConfiguredIs, FourBitFields DEF IsPort
<1>6. ~(pin > 7) => pin <= 7
  OBVIOUS
<1> HIDE DEF q
<1>7. PinSettings(q, pin) = PinSettings(p, pin)
  BY <1>1, <1>2, <1>3, <1>4, <1>5, <1>6, Zenon DEF PinSettings
<1>. QED BY <1>7 DEF q

\* The pin itself gets the settings that the configuration names, and keeps the others.
Sets(c) == ("bsr_r" \in c.set_mask /\ c.bsr_r = 1) \/ ("bsr_s" \in c.set_mask /\ c.bsr_s = 1)

Settable == {"mode", "type", "speed", "pupd", "od", "lck", "afr"}

Wanted(c) ==
    [f \in (c.set_mask \cap Settable) \cup (IF Sets(c) THEN {"od"} ELSE {}) |->
       BitsOf(IF f = "od" /\ Sets(c) THEN 1 ELSE c[f])]

Merged(old, new) == [f \in DOMAIN old |-> IF f \in DOMAIN new THEN new[f] ELSE old[f]]

LEMMA WantedIs ==
    ASSUME NEW c
    PROVE  /\ DOMAIN Wanted(c) = (c.set_mask \cap Settable) \cup (IF Sets(c) THEN {"od"} ELSE {})
           /\ \A f \in DOMAIN Wanted(c) :
                Wanted(c)[f] = BitsOf(IF f = "od" /\ Sets(c) THEN 1 ELSE c[f])
  BY DEF Wanted

LEMMA OwnPin ==
    ASSUME NEW p, IsPort(p), NEW c, IsConfig(c), c.pin <= 15
    PROVE  PinSettings(Configured(p, c), c.pin) = Merged(PinSettings(p, c.pin), Wanted(c))
<1> DEFINE q == Configured(p, c)
           w == Wanted(c)
           k == c.pin
<1>0. k \in 0..15
  BY DEF IsConfig
<1>1. /\ \A f \in {"mode", "speed", "pupd", "type", "lck", "afr"} : f \in DOMAIN w <=> f \in c.set_mask
      /\ \A f \in {"mode", "speed", "pupd", "type", "lck", "afr"} : f \in DOMAIN w => w[f] = BitsOf(c[f])
      /\ "od" \in DOMAIN w <=> "od" \in c.set_mask \/ Sets(c)
      /\ "od" \in DOMAIN w => w["od"] = BitsOf(IF Sets(c) THEN 1 ELSE c.od)
  BY WantedIs DEF Settable
<1> HIDE DEF w
<1>2. PinField(q.moder, 2 * k, 2) = IF "mode" \in DOMAIN w THEN w["mode"] ELSE PinField(p.moder, 2 * k, 2)
  <2>1. BitsOf(c.mode) \subseteq 0..1
    BY SmallBits DEF IsConfig
  <2>. QED BY <1>0, <1>1, <2>1, ConfiguredIs, TwoBitFields DEF IsPort
<1>3. PinField(q.ospeedr, 2 * k, 2) = IF "speed" \in DOMAIN w THEN w["speed"] ELSE PinField(p.ospeedr, 2 * k, 2)
  <2>1. BitsOf(c.speed) \subseteq 0..1
    BY SmallBits DEF IsConfig
  <2>. QED BY <1>0, <1>1, <2>1, ConfiguredIs, TwoBitFields DEF IsPort
<1>4. PinField(q.pupdr, 2 * k, 2) = IF "pupd" \in DOMAIN w THEN w["pupd"] ELSE PinField(p.pupdr, 2 * k, 2)
  <2>1. BitsOf(c.pupd) \subseteq 0..1
    BY SmallBits DEF IsConfig
  <2>. QED BY <1>0, <1>1, <2>1, ConfiguredIs, TwoBitFields DEF IsPort
<1>5. PinField(q.otyper, k, 1) = IF "type" \in DOMAIN w THEN w["type"] ELSE PinField(p.otyper, k, 1)
  <2>1. BitsOf(c.type) \subseteq 0..0
    BY SmallBits DEF IsConfig
  <2>. QED BY <1>0, <1>1, <2>1, ConfiguredIs, OneBitFields DEF IsPort
<1>6. PinField(q.lckr, k, 1) = IF "lck" \in DOMAIN w THEN w["lck"] ELSE PinField(p.lckr, k, 1)
  <2>1. BitsOf(c.lck) \subseteq 0..0
    BY SmallBits DEF IsConfig
  <2>. QED BY <1>0, <1>1, <2>1, ConfiguredIs, OneBitFields DEF IsPort
<1>7. PinField(q.odr, k, 1) = IF "od" \in DOMAIN w THEN w["od"] ELSE PinField(p.odr, k, 1)
  <2>1. q.odr = OdS(p, c)
    BY ConfiguredIs
  <2>2. k \in OdS(p, c) <=> Sets(c) \/ IF "od" \in c.set_mask THEN c.od = 1 ELSE k \in p.odr
    BY Output DEF Sets
  <2>3. /\ PinField(OdS(p, c), k, 1) = IF k \in OdS(p, c) THEN {0} ELSE {}
        /\ PinField(p.odr, k, 1) = IF k \in p.odr THEN {0} ELSE {}
    BY <1>0, BitField
  <2>4. c.od = 0 \/ c.od = 1
    BY DEF IsConfig
  <2>5. BitsOf(0) = {} /\ BitsOf(1) = {0}
    BY SmallBits
  <2> HIDE DEF q, k
  <2>6. CASE Sets(c)
    BY <1>1, <2>1, <2>2, <2>3, <2>5, <2>6, Zenon
  <2>7. CASE ~Sets(c) /\ "od" \in c.set_mask
    <3>1. (c.od = 0 => BitsOf(c.od) = {}) /\ (c.od = 1 => BitsOf(c.od) = {0}) /\ (c.od = 0 => ~(c.od = 1))
      BY <2>5
    <3>. QED BY <1>1, <2>1, <2>2, <2>3, <2>4, <2>7, <3>1, Zenon
  <2>8. CASE ~Sets(c) /\ "od" \notin c.set_mask
    BY <1>1, <2>1, <2>2, <2>3, <2>8, Zenon
  <2>. QED BY <2>6, <2>7, <2>8
<1>8. (k > 7 => ~(k <= 7)) /\ (~(k > 7) => k <= 7)
  BY <1>0
<1>9. /\ k <= 7 => PinField(q.afr_l, 4 * k, 4) = IF "afr" \in DOMAIN w THEN w["afr"] ELSE PinField(p.afr_l, 4 * k, 4)
      /\ k > 7 => PinField(q.afr_h, 4 * (k - 8), 4)
                    = IF "afr" \in DOMAIN w THEN w["afr"] ELSE PinField(p.afr_h, 4 * (k - 8), 4)
  <2>1. BitsOf(c.afr) \subseteq 0..3
    BY SmallBits DEF IsConfig
  <2>2. k <= 7 => k \in 0..7
    BY <1>0
  <2>3. k > 7 => k - 8 \in 0..7
    BY <1>0
  <2>. QED BY <1>1, <2>1, <2>2, <2>3, ConfiguredIs, FourBitFields DEF IsPort
<1> HIDE DEF q, k
<1> DEFINE old == PinSettings(p, k)
           M(f, x) == IF f \in DOMAIN w THEN w[f] ELSE x
<1>10. PinSettings(q, k) =
         [mode |-> M("mode", old.mode), type |-> M("type", old.type), speed |-> M("speed", old.speed),
          pupd |-> M("pupd", old.pupd), od |-> M("od", old.od), lck |-> M("lck", old.lck),
          afr |-> M("afr", old.afr)]
  <2>1. /\ old.mode = PinField(p.moder, 2 * k, 2) /\ old.type = PinField(p.otyper, k, 1)
        /\ old.speed = PinField(p.ospeedr, 2 * k, 2) /\ old.pupd = PinField(p.pupdr, 2 * k, 2)
        /\ old.od = PinField(p.odr, k, 1) /\ old.lck = PinField(p.lckr, k, 1)
        /\ old.afr = IF k > 7 THEN PinField(p.afr_h, 4 * (k - 8), 4) ELSE PinField(p.afr_l, 4 * k, 4)
    BY DEF PinSettings
  <2>2. (IF k > 7 THEN PinField(q.afr_h, 4 * (k - 8), 4) ELSE PinField(q.afr_l, 4 * k, 4)) = M("afr", old.afr)
    BY <1>8, <1>9, <2>1
  <2> HIDE DEF old
  <2>. QED BY <1>2, <1>3, <1>4, <1>5, <1>6, <1>7, <2>1, <2>2, Zenon DEF PinSettings
<1>11. DOMAIN old = Settable
  BY DEF PinSettings, Settable
<1> HIDE DEF old
<1>12. Merged(old, w) = PinSettings(q, k)
  BY <1>10, <1>11 DEF Merged, Settable
<1>. QED BY <1>12 DEF q, w, k, old

(***************************************************************************)
(* gpio_set_value: an output alone.                                        *)
(***************************************************************************)
Driven(p, k, v) == [p EXCEPT !.odr = gpio_set_od(@, k, v)]

LEMMA DrivenPort ==
    ASSUME NEW p, IsPort(p), NEW k \in 0..15, NEW v \in 0..1
    PROVE  /\ IsPort(Driven(p, k, v))
           /\ \A pin \in 0..15 : pin # k => PinSettings(Driven(p, k, v), pin) = PinSettings(p, pin)
           /\ PinSettings(Driven(p, k, v), k) = Merged(PinSettings(p, k), [f \in {"od"} |-> BitsOf(v)])
<1> DEFINE o  == Put(p.odr, BitsOf(v), k, 1)
           a1 == p.moder   a2 == p.otyper  a3 == p.ospeedr  a4 == p.pupdr
           a5 == p.odr     a6 == p.lckr    a7 == p.afr_l    a8 == p.afr_h
           q  == [moder |-> a1, otyper |-> a2, ospeedr |-> a3, pupdr |-> a4,
                  odr |-> o, lckr |-> a6, afr_l |-> a7, afr_h |-> a8]
<1>1. Driven(p, k, v) = q
  <2>1. p = [moder |-> a1, otyper |-> a2, ospeedr |-> a3, pupdr |-> a4,
             odr |-> a5, lckr |-> a6, afr_l |-> a7, afr_h |-> a8]
    BY DEF IsPort
  <2>2. Driven(p, k, v) = [p EXCEPT !.odr = o]
    BY OneBit, Zenon DEF Driven, gpio_set_od, Put
  <2> HIDE DEF o, a1, a2, a3, a4, a5, a6, a7, a8
  <2>3. [[moder |-> a1, otyper |-> a2, ospeedr |-> a3, pupdr |-> a4,
          odr |-> a5, lckr |-> a6, afr_l |-> a7, afr_h |-> a8] EXCEPT !.odr = o] = q
    OBVIOUS
  <2>. QED BY <2>1, <2>2, <2>3, Zenon
<1>2. BitsOf(v) \subseteq 0..0
  BY SmallBits
<1>3. /\ IsRegister(o)
      /\ PinField(o, k, 1) = BitsOf(v)
      /\ \A pin \in 0..15 : pin # k => PinField(o, pin, 1) = PinField(p.odr, pin, 1)
  BY <1>2, OneBitFields DEF IsPort
<1> HIDE DEF o
<1>4. IsPort(q)
  BY <1>3 DEF IsPort
<1>5. ASSUME NEW pin \in 0..15, pin # k
      PROVE  PinSettings(q, pin) = PinSettings(p, pin)
  BY <1>3, <1>5 DEF PinSettings
<1>6. PinSettings(q, k) = Merged(PinSettings(p, k), [f \in {"od"} |-> BitsOf(v)])
  BY <1>3 DEF PinSettings, Merged
<1> HIDE DEF q
<1>. QED BY <1>1, <1>4, <1>5, <1>6

(***************************************************************************)
(* The ports together.                                                     *)
(***************************************************************************)
PortsOf(g) == g = [p \in Ports |-> g[p]] /\ \A p \in Ports : IsPort(g[p])

\* From g to h only this pin's settings change, as new says.
PinChanged(g, h, port, k, new) ==
    \A p \in Ports : \A pin \in 0..15 :
      PinSettings(h[p], pin) = IF p = port /\ pin = k THEN Merged(PinSettings(g[p], pin), new)
                               ELSE PinSettings(g[p], pin)

LEMMA ConfigCall ==
    ASSUME NEW g, PortsOf(g), NEW c, IsConfig(c)
    PROVE  /\ PortsOf(gpio_set_config(g, c))
           /\ gpio_accepts(c) => PinChanged(g, gpio_set_config(g, c), c.port, c.pin, Wanted(c))
<1>1. IsConfig(c)
  OBVIOUS
<1>2. CASE gpio_accepts(c)
  <2> DEFINE h == gpio_set_config(g, c)
  <2>1. c.pin <= 15 /\ c.port \in Ports /\ c.pin \in 0..15
    BY <1>1, <1>2 DEF gpio_accepts, IsConfig
  <2>2. h = [p \in Ports |-> IF p = c.port THEN Configured(g[p], c) ELSE g[p]]
    BY <1>2, <2>1 DEF gpio_set_config, PortsOf
  <2> HIDE DEF h
  <2>3. IsPort(Configured(g[c.port], c))
    BY <1>1, <2>1, ConfiguredPort DEF PortsOf
  <2>4. PortsOf(h)
    BY <2>2, <2>3 DEF PortsOf
  <2>5. ASSUME NEW p \in Ports, NEW pin \in 0..15
        PROVE  PinSettings(h[p], pin) = IF p = c.port /\ pin = c.pin THEN Merged(PinSettings(g[p], pin), Wanted(c))
                                        ELSE PinSettings(g[p], pin)
    <3>1. CASE p # c.port
      BY <2>2, <3>1
    <3>2. CASE p = c.port /\ pin = c.pin
      BY <1>1, <2>1, <2>2, <3>2, OwnPin DEF PortsOf
    <3>3. CASE p = c.port /\ pin # c.pin
      BY <1>1, <2>1, <2>2, <3>3, OtherPin DEF PortsOf
    <3>. QED BY <3>1, <3>2, <3>3
  <2>6. PinChanged(g, h, c.port, c.pin, Wanted(c))
    BY <2>5, Zenon DEF PinChanged
  <2>. QED BY <2>4, <2>6 DEF h
<1>3. CASE ~gpio_accepts(c)
  BY <1>3 DEF gpio_set_config
<1>. QED BY <1>2, <1>3

(***************************************************************************)
(* A port after a reset.                                                   *)
(***************************************************************************)
ResetSettings == PinSettings(PortReset, 0)

LEMMA ResetPort ==
    /\ IsPort(PortReset)
    /\ \A pin \in 0..15 : PinSettings(PortReset, pin) = ResetSettings
    /\ ResetSettings = [mode |-> {}, type |-> {}, speed |-> {}, pupd |-> {}, od |-> {}, lck |-> {}, afr |-> {}]
<1>1. \A pos, w : PinField({}, pos, w) = {}
  BY DEF PinField, get_reg_value
<1>2. \A pin : PinSettings(PortReset, pin)
                 = [mode |-> {}, type |-> {}, speed |-> {}, pupd |-> {}, od |-> {}, lck |-> {}, afr |-> {}]
  BY <1>1 DEF PinSettings, PortReset
<1>3. IsPort(PortReset)
  BY DEF IsPort, PortReset, IsRegister
<1>. QED BY <1>2, <1>3 DEF ResetSettings

(***************************************************************************)
(* Numbers and their bits.                                                 *)
(***************************************************************************)

\* A quotient and a remainder are unique.
LEMMA Quotient ==
    ASSUME NEW m \in Nat \ {0}, NEW q \in Nat, NEW r \in 0..(m - 1)
    PROVE  (q * m + r) \div m = q /\ (q * m + r) % m = r
<1> DEFINE x == q * m + r
           p == x \div m
           s == x % m
<1>1. x \in Nat
  <2>1. q * m \in Nat
    OBVIOUS
  <2>. QED BY <2>1
<1>2. p \in Nat /\ s \in 0..(m - 1) /\ x = p * m + s
  <2> HIDE DEF x
  <2>. QED BY <1>1
<1>3. ASSUME NEW a \in Nat, NEW b \in Nat, NEW c \in 0..(m - 1), NEW d \in 0..(m - 1),
             a * m + c = b * m + d, a < b
      PROVE  FALSE
  <2>1. PICK e \in Nat : b = a + 1 + e
    <3>1. b - a - 1 \in Nat /\ b = a + 1 + (b - a - 1)
      BY <1>3
    <3>. QED BY <3>1
  <2>2. b * m = a * m + m + e * m
    BY <2>1
  <2>3. e * m \in Nat /\ a * m \in Nat
    OBVIOUS
  <2>. QED BY <1>3, <2>2, <2>3
<1> HIDE DEF p, s
<1>4. q * m + r = p * m + s
  BY <1>2
<1>5. p = q
  BY <1>2, <1>3, <1>4
<1>6. s = r
  <2>1. q * m \in Nat
    OBVIOUS
  <2>. QED BY <1>2, <1>4, <1>5, <2>1
<1>. QED BY <1>5, <1>6 DEF p, s

LEMMA Doubles ==
    ASSUME NEW b \in 0..30
    PROVE  2^(b + 1) = 2 * 2^b
<1>1. CASE b \in 0..7
  <2>1. b = 0 \/ b = 1 \/ b = 2 \/ b = 3 \/ b = 4 \/ b = 5 \/ b = 6 \/ b = 7
    BY <1>1
  <2>2. /\ (b = 0 => b + 1 = 1) /\ (b = 1 => b + 1 = 2) /\ (b = 2 => b + 1 = 3) /\ (b = 3 => b + 1 = 4)
        /\ (b = 4 => b + 1 = 5) /\ (b = 5 => b + 1 = 6) /\ (b = 6 => b + 1 = 7) /\ (b = 7 => b + 1 = 8)
    OBVIOUS
  <2>3. /\ (b = 0 => 2^b = 2^0) /\ (b = 1 => 2^b = 2^1) /\ (b = 2 => 2^b = 2^2) /\ (b = 3 => 2^b = 2^3)
        /\ (b = 4 => 2^b = 2^4) /\ (b = 5 => 2^b = 2^5) /\ (b = 6 => 2^b = 2^6) /\ (b = 7 => 2^b = 2^7)
        /\ (b + 1 = 1 => 2^(b + 1) = 2^1) /\ (b + 1 = 2 => 2^(b + 1) = 2^2) /\ (b + 1 = 3 => 2^(b + 1) = 2^3) /\ (b + 1 = 4 => 2^(b + 1) = 2^4)
        /\ (b + 1 = 5 => 2^(b + 1) = 2^5) /\ (b + 1 = 6 => 2^(b + 1) = 2^6) /\ (b + 1 = 7 => 2^(b + 1) = 2^7) /\ (b + 1 = 8 => 2^(b + 1) = 2^8)
    BY Zenon
  <2>. QED BY <2>1, <2>2, <2>3, SMT
<1>2. CASE b \in 8..15
  <2>1. b = 8 \/ b = 9 \/ b = 10 \/ b = 11 \/ b = 12 \/ b = 13 \/ b = 14 \/ b = 15
    BY <1>2
  <2>2. /\ (b = 8 => b + 1 = 9) /\ (b = 9 => b + 1 = 10) /\ (b = 10 => b + 1 = 11) /\ (b = 11 => b + 1 = 12)
        /\ (b = 12 => b + 1 = 13) /\ (b = 13 => b + 1 = 14) /\ (b = 14 => b + 1 = 15) /\ (b = 15 => b + 1 = 16)
    OBVIOUS
  <2>3. /\ (b = 8 => 2^b = 2^8) /\ (b = 9 => 2^b = 2^9) /\ (b = 10 => 2^b = 2^10) /\ (b = 11 => 2^b = 2^11)
        /\ (b = 12 => 2^b = 2^12) /\ (b = 13 => 2^b = 2^13) /\ (b = 14 => 2^b = 2^14) /\ (b = 15 => 2^b = 2^15)
        /\ (b + 1 = 9 => 2^(b + 1) = 2^9) /\ (b + 1 = 10 => 2^(b + 1) = 2^10) /\ (b + 1 = 11 => 2^(b + 1) = 2^11) /\ (b + 1 = 12 => 2^(b + 1) = 2^12)
        /\ (b + 1 = 13 => 2^(b + 1) = 2^13) /\ (b + 1 = 14 => 2^(b + 1) = 2^14) /\ (b + 1 = 15 => 2^(b + 1) = 2^15) /\ (b + 1 = 16 => 2^(b + 1) = 2^16)
    BY Zenon
  <2>. QED BY <2>1, <2>2, <2>3, SMT
<1>3. CASE b \in 16..23
  <2>1. b = 16 \/ b = 17 \/ b = 18 \/ b = 19 \/ b = 20 \/ b = 21 \/ b = 22 \/ b = 23
    BY <1>3
  <2>2. /\ (b = 16 => b + 1 = 17) /\ (b = 17 => b + 1 = 18) /\ (b = 18 => b + 1 = 19) /\ (b = 19 => b + 1 = 20)
        /\ (b = 20 => b + 1 = 21) /\ (b = 21 => b + 1 = 22) /\ (b = 22 => b + 1 = 23) /\ (b = 23 => b + 1 = 24)
    OBVIOUS
  <2>3. /\ (b = 16 => 2^b = 2^16) /\ (b = 17 => 2^b = 2^17) /\ (b = 18 => 2^b = 2^18) /\ (b = 19 => 2^b = 2^19)
        /\ (b = 20 => 2^b = 2^20) /\ (b = 21 => 2^b = 2^21) /\ (b = 22 => 2^b = 2^22) /\ (b = 23 => 2^b = 2^23)
        /\ (b + 1 = 17 => 2^(b + 1) = 2^17) /\ (b + 1 = 18 => 2^(b + 1) = 2^18) /\ (b + 1 = 19 => 2^(b + 1) = 2^19) /\ (b + 1 = 20 => 2^(b + 1) = 2^20)
        /\ (b + 1 = 21 => 2^(b + 1) = 2^21) /\ (b + 1 = 22 => 2^(b + 1) = 2^22) /\ (b + 1 = 23 => 2^(b + 1) = 2^23) /\ (b + 1 = 24 => 2^(b + 1) = 2^24)
    BY Zenon
  <2>. QED BY <2>1, <2>2, <2>3, SMT
<1>4. CASE b \in 24..30
  <2>1. b = 24 \/ b = 25 \/ b = 26 \/ b = 27 \/ b = 28 \/ b = 29 \/ b = 30
    BY <1>4
  <2>2. /\ (b = 24 => b + 1 = 25) /\ (b = 25 => b + 1 = 26) /\ (b = 26 => b + 1 = 27) /\ (b = 27 => b + 1 = 28)
        /\ (b = 28 => b + 1 = 29) /\ (b = 29 => b + 1 = 30) /\ (b = 30 => b + 1 = 31)
    OBVIOUS
  <2>3. /\ (b = 24 => 2^b = 2^24) /\ (b = 25 => 2^b = 2^25) /\ (b = 26 => 2^b = 2^26) /\ (b = 27 => 2^b = 2^27)
        /\ (b = 28 => 2^b = 2^28) /\ (b = 29 => 2^b = 2^29) /\ (b = 30 => 2^b = 2^30) /\ (b + 1 = 25 => 2^(b + 1) = 2^25)
        /\ (b + 1 = 26 => 2^(b + 1) = 2^26) /\ (b + 1 = 27 => 2^(b + 1) = 2^27) /\ (b + 1 = 28 => 2^(b + 1) = 2^28) /\ (b + 1 = 29 => 2^(b + 1) = 2^29)
        /\ (b + 1 = 30 => 2^(b + 1) = 2^30) /\ (b + 1 = 31 => 2^(b + 1) = 2^31)
    BY Zenon
  <2>. QED BY <2>1, <2>2, <2>3, SMT
<1>. QED BY <1>1, <1>2, <1>3, <1>4

LEMMA Growth ==
    ASSUME NEW a \in 0..30, NEW b \in a..30
    PROVE  2^a <= 2^b
<1> DEFINE S == {k \in 0..30 : k >= a => 2^a <= 2^k}
<1>1. 0 \in S
  <2>1. 0 >= a => a = 0
    OBVIOUS
  <2>2. a = 0 => 2^a = 2^0
    BY Zenon
  <2>3. 2^0 \in Nat
    BY Powers
  <2>. QED BY <2>1, <2>2, <2>3
<1>2. ASSUME NEW k \in 0..29, k \in S PROVE k + 1 \in S
  <2>1. k \in 0..30 /\ k + 1 \in 0..30
    OBVIOUS
  <2>2. 2^(k + 1) = 2 * 2^k /\ 2^k \in Nat \ {0} /\ 2^(k + 1) \in Nat
    BY <2>1, Doubles, Powers
  <2>3. k + 1 = a => 2^(k + 1) = 2^a
    BY Zenon
  <2>4. k >= a => 2^a <= 2^k
    BY <1>2
  <2>5. k + 1 >= a => k >= a \/ k + 1 = a
    OBVIOUS
  <2>6. 2^a \in Nat
    BY Powers
  <2>7. k + 1 >= a => 2^a <= 2^(k + 1)
    BY <2>2, <2>3, <2>4, <2>5, <2>6
  <2>. QED BY <2>1, <2>7
<1> HIDE DEF S
<1>3. 0..30 \subseteq S
  BY <1>1, <1>2, UpTo
<1>4. b \in S /\ b >= a
  BY <1>3
<1>. QED BY <1>4 DEF S

\* The sums of the powers of the bits below k.
Power(s, b) == IF b \in s THEN 2^b ELSE 0

IsSums(s, f) ==
    /\ f \in [0..31 -> Nat] /\ f[0] = 0
    /\ \A k \in 1..31 : f[k] = f[k - 1] + Power(s, k - 1)

Sums(s) == CHOOSE f : IsSums(s, f)

LEMMA PowerType ==
    ASSUME NEW s, NEW k \in 1..31
    PROVE  Power(s, k - 1) \in Nat
<1>1. k - 1 \in 0..30
  OBVIOUS
<1>2. 2^(k - 1) \in Nat
  BY <1>1, Powers
<1>. QED BY <1>2 DEF Power

LEMMA SumsIs ==
    ASSUME NEW s
    PROVE  IsSums(s, Sums(s))
<1> DEFINE g == [q \in (1..31) \X Nat |-> q[2] + Power(s, q[1] - 1)]
<1>1. g \in [(1..31) \X Nat -> Nat]
  <2>1. ASSUME NEW q \in (1..31) \X Nat PROVE q[2] + Power(s, q[1] - 1) \in Nat
    <3>1. q[1] \in 1..31 /\ q[2] \in Nat
      OBVIOUS
    <3>2. Power(s, q[1] - 1) \in Nat
      BY <3>1, PowerType
    <3>. QED BY <3>1, <3>2
  <2>. QED BY <2>1
<1>2. \A k \in 1..31, v \in Nat : g[<<k, v>>] = v + Power(s, k - 1)
  OBVIOUS
<1> HIDE DEF g
<1>3. PICK f \in [0..31 -> Nat] : Solves(f, 31, 0, g)
  BY <1>1, RecursionExists
<1>4. IsSums(s, f)
  <2>1. f[0] = 0
    BY <1>3 DEF Solves
  <2>2. ASSUME NEW k \in 1..31 PROVE f[k] = f[k - 1] + Power(s, k - 1)
    <3>1. k \in 0..31 /\ k # 0 /\ k - 1 \in 0..31
      OBVIOUS
    <3>2. f[k] = g[<<k, f[k - 1]>>]
      BY <1>3, <3>1 DEF Solves
    <3>3. f[k - 1] \in Nat
      BY <3>1
    <3>. QED BY <1>2, <3>2, <3>3
  <2>. QED BY <2>1, <2>2 DEF IsSums
<1>. QED BY <1>4 DEF Sums

\* Taking one bit away takes its power away.
LEMMA SumsWithout ==
    ASSUME NEW s, NEW x \in s, x \in 0..30
    PROVE  Sums(s)[31] = 2^x + Sums(s \ {x})[31] /\ 2^x \in Nat \ {0}
<1> DEFINE t == s \ {x}
           A == Sums(s)
           B == Sums(t)
           S == {k \in 0..31 : A[k] = B[k] + (IF k > x THEN 2^x ELSE 0)}
           m == 2^x
<1>1. IsSums(s, A) /\ IsSums(t, B)
  BY SumsIs
<1>2. m \in Nat \ {0}
  BY Powers
<1>3. \A k \in 1..31 : k - 1 # x => Power(s, k - 1) = Power(t, k - 1)
  BY DEF Power
<1>4. \A k \in 1..31 : k - 1 = x => Power(s, k - 1) = m /\ Power(t, k - 1) = 0
  BY Zenon DEF Power
<1> DEFINE P(k) == Power(s, k)
           Q(k) == Power(t, k)
<1>5. \A k \in 1..31 : P(k - 1) \in Nat /\ Q(k - 1) \in Nat
  BY PowerType
<1>6. /\ A \in [0..31 -> Nat] /\ A[0] = 0 /\ \A k \in 1..31 : A[k] = A[k - 1] + P(k - 1)
      /\ B \in [0..31 -> Nat] /\ B[0] = 0 /\ \A k \in 1..31 : B[k] = B[k - 1] + Q(k - 1)
  BY <1>1 DEF IsSums
<1>7. S = {k \in 0..31 : A[k] = B[k] + (IF k > x THEN m ELSE 0)}
  OBVIOUS
<1> HIDE DEF t, A, B, S, m, P, Q
<1>8. 0 \in S
  BY <1>6, <1>7
<1>9. ASSUME NEW k \in 0..30, k \in S PROVE k + 1 \in S
  <2>1. k + 1 \in 1..31 /\ (k + 1) - 1 = k
    OBVIOUS
  <2>2. A[k + 1] = A[k] + P(k) /\ B[k + 1] = B[k] + Q(k) /\ P(k) \in Nat /\ Q(k) \in Nat
    BY <1>5, <1>6, <2>1
  <2>3. A[k] = B[k] + (IF k > x THEN m ELSE 0) /\ A[k] \in Nat /\ B[k] \in Nat
    BY <1>6, <1>7, <1>9
  <2>4. k # x => P(k) = Q(k)
    BY <1>3, <2>1 DEF P, Q
  <2>5. k = x => P(k) = m /\ Q(k) = 0
    BY <1>4, <2>1 DEF P, Q
  <2>6. A[k + 1] = B[k + 1] + (IF k + 1 > x THEN m ELSE 0)
    BY <1>2, <2>2, <2>3, <2>4, <2>5
  <2>. QED BY <1>7, <2>1, <2>6
<1>10. 31 \in S
  <2>1. 0..31 \subseteq S
    BY <1>8, <1>9, UpTo
  <2>. QED BY <2>1
<1>11. A[31] = m + B[31]
  BY <1>2, <1>6, <1>7, <1>10
<1>. QED BY <1>2, <1>11 DEF A, B, t, m

LEMMA SumsEmpty == Sums({})[31] = 0
<1> DEFINE A == Sums({})
           S == {k \in 0..31 : A[k] = 0}
<1>1. IsSums({}, A)
  BY SumsIs
<1>2. \A k : Power({}, k) = 0
  BY DEF Power
<1> HIDE DEF A
<1>3. 0 \in S
  BY <1>1 DEF IsSums
<1>4. ASSUME NEW k \in 0..30, k \in S PROVE k + 1 \in S
  <2>1. k + 1 \in 1..31 /\ (k + 1) - 1 = k
    OBVIOUS
  <2>. QED BY <1>1, <1>2, <1>4, <2>1 DEF IsSums
<1> HIDE DEF S
<1>5. 0..31 \subseteq S
  BY <1>3, <1>4, UpTo
<1>. QED BY <1>5 DEF S, A

\* The number that a set of bits stands for is the last of these sums, in whatever
\* order it was added up.
LEMMA NumIs ==
    ASSUME NEW bits \in SUBSET (0..30)
    PROVE  NumOf(bits) = Sums(bits)[31]
<1> DEFINE Pick(s) == CHOOSE x \in s : TRUE
           Eq(f) == f = [s \in SUBSET bits |-> IF s = {} THEN 0 ELSE 2^Pick(s) + f[s \ {Pick(s)}]]
           iter == CHOOSE f : Eq(f)
           V(s) == Sums(s)[31]
<1>1. NumOf(bits) = iter[bits]
  BY Zenon DEF NumOf, MapThenSumSet, MapThenFoldSet
<1>2. \A s \in SUBSET bits : s # {} => Pick(s) \in s /\ Pick(s) \in 0..30
  OBVIOUS
<1> HIDE DEF Pick
<1>3. \A s \in SUBSET bits : V(s) = IF s = {} THEN 0 ELSE 2^Pick(s) + V(s \ {Pick(s)})
  BY <1>2, SumsEmpty, SumsWithout, Zenon
<1>4. Eq(iter)
  <2> DEFINE f == [s \in SUBSET bits |-> V(s)]
  <2>1. \A s \in SUBSET bits : f[s] = IF s = {} THEN 0 ELSE 2^Pick(s) + f[s \ {Pick(s)}]
    <3>1. \A s \in SUBSET bits : s \ {Pick(s)} \in SUBSET bits
      OBVIOUS
    <3> HIDE DEF V
    <3>. QED BY <1>3, <3>1, Zenon
  <2>2. f = [s \in SUBSET bits |-> f[s]]
    OBVIOUS
  <2> HIDE DEF f
  <2>3. Eq(f)
    BY <2>1, <2>2, Zenon
  <2> HIDE DEF Eq
  <2>. QED BY <2>3, Zenon
<1>5. \A s \in SUBSET bits : iter[s] = IF s = {} THEN 0 ELSE 2^Pick(s) + iter[s \ {Pick(s)}]
  <2> DEFINE f == iter
  <2>1. Eq(f)
    BY <1>4
  <2> HIDE DEF f
  <2>2. \A s \in SUBSET bits : f[s] = IF s = {} THEN 0 ELSE 2^Pick(s) + f[s \ {Pick(s)}]
    BY <2>1
  <2>. QED BY <2>2 DEF f
<1>6. \A s \in SUBSET bits : V(s) \in Nat
  BY SumsIs DEF IsSums
<1>7. \A s \in SUBSET bits : s # {} => 2^Pick(s) \in Nat \ {0}
  BY <1>2, Powers
<1> HIDE DEF iter, V
<1> DEFINE Wrong == {V(s) : s \in {r \in SUBSET bits : iter[r] # V(r)}}
<1>8. Wrong = {}
  <2>1. SUFFICES ASSUME Wrong # {} PROVE FALSE
    OBVIOUS
  <2>2. Wrong \in SUBSET Nat
    BY <1>6
  <2>3. PICK v \in Wrong : \A w \in Wrong : v <= w
    <3> HIDE DEF Wrong
    <3>. QED BY <2>1, <2>2, LeastNatural
  <2>4. PICK s \in SUBSET bits : iter[s] # V(s) /\ V(s) = v
    BY <2>3
  <2>5. s # {}
    BY <1>3, <1>5, <2>4
  <2> DEFINE t == s \ {Pick(s)}
             m == 2^Pick(s)
  <2>6. t \in SUBSET bits /\ V(s) = m + V(t) /\ iter[s] = m + iter[t] /\ m \in Nat \ {0}
    BY <1>3, <1>5, <1>7, <2>5
  <2> HIDE DEF t, m
  <2>7. V(t) \in Nat /\ V(t) < V(s)
    <3> DEFINE a == V(s)
               b == V(t)
    <3>1. a \in Nat /\ b \in Nat /\ a = m + b
      BY <1>6, <2>6
    <3> HIDE DEF a, b
    <3>2. b < a
      BY <2>6, <3>1
    <3>. QED BY <3>1, <3>2 DEF a, b
  <2>8. iter[t] = V(t)
    <3>1. SUFFICES ASSUME iter[t] # V(t) PROVE FALSE
      OBVIOUS
    <3>2. V(t) \in Wrong
      BY <2>6, <3>1
    <3>. QED BY <1>6, <2>3, <2>4, <2>7, <3>2
  <2>. QED BY <2>4, <2>6, <2>8
<1>. QED BY <1>1, <1>8 DEF V

\* A number of k bits is the sum of its bits.
Below(n, k) == n \in Nat /\ n < 2^k

LEMMA BitsSum ==
    ASSUME NEW n, Below(n, 31)
    PROVE  NumOf(BitsOf(n)) = n
<1> DEFINE A == Sums(BitsOf(n))
           S == {k \in 0..31 : A[k] = n % 2^k}
<1>1. IsSums(BitsOf(n), A)
  BY SumsIs
<1> HIDE DEF A
<1>2. n \in Nat /\ n < 2147483648 /\ 2^31 = 2147483648
  <2>1. 2^31 = 2147483648
    BY SMT
  <2>. QED BY <2>1, SMT DEF Below
<1>3. 0 \in S
  <2>1. 2^0 = 1 /\ n % 1 = 0
    BY <1>2
  <2>. QED BY <1>1, <2>1 DEF IsSums
<1>4. ASSUME NEW k \in 0..30, k \in S PROVE k + 1 \in S
  <2> DEFINE m == 2^k
             d == n \div m
             r == n % m
             h == d \div 2
             e == d % 2
  <2>1. k + 1 \in 1..31 /\ (k + 1) - 1 = k
    OBVIOUS
  <2>2. m \in Nat \ {0} /\ 2^(k + 1) = 2 * m
    BY Doubles, Powers
  <2>3. Power(BitsOf(n), k) = IF e = 1 THEN m ELSE 0
    BY Zenon DEF Power, BitsOf
  <2>4. A[k + 1] = A[k] + Power(BitsOf(n), k) /\ A[k] = r
    BY <1>1, <1>4, <2>1 DEF IsSums
  <2> HIDE DEF m
  <2>5. d \in Nat /\ r \in 0..(m - 1) /\ n = d * m + r
    BY <1>2, <2>2
  <2> HIDE DEF d, r
  <2>6. h \in Nat /\ e \in 0..1 /\ d = 2 * h + e
    BY <2>5
  <2> HIDE DEF h, e
  <2>7. n % (2 * m) = r + (IF e = 1 THEN m ELSE 0)
    <3>1. d * m = h * (2 * m) + e * m
      BY <2>2, <2>6
    <3>2. (e = 0 => e * m = 0) /\ (e = 1 => e * m = m)
      BY <2>2
    <3> DEFINE q == r + (IF e = 1 THEN m ELSE 0)
    <3>3. q \in 0..(2 * m - 1)
      BY <2>2, <2>5
    <3>4. n = h * (2 * m) + q
      <4>1. h * (2 * m) \in Nat /\ e * m \in Nat
        BY <2>2, <2>6
      <4>. QED BY <2>5, <2>6, <3>1, <3>2, <4>1
    <3>5. 2 * m \in Nat \ {0}
      BY <2>2
    <3> HIDE DEF q
    <3>6. n % (2 * m) = q
      BY <2>6, <3>3, <3>4, <3>5, Quotient
    <3>. QED BY <3>6 DEF q
  <2>8. A[k + 1] = n % 2^(k + 1)
    BY <2>2, <2>3, <2>4, <2>5, <2>7
  <2>. QED BY <2>1, <2>8
<1> HIDE DEF S
<1>5. 0..31 \subseteq S
  BY <1>3, <1>4, UpTo
<1>6. A[31] = n % 2^31
  BY <1>5 DEF S
<1>7. n % 2147483648 = n
  BY <1>2
<1>8. BitsOf(n) \in SUBSET (0..30)
  BY DEF BitsOf
<1>. QED BY <1>2, <1>6, <1>7, <1>8, NumIs DEF A

HasBit(n, b) == (n \div 2^b) % 2 = 1

LEMMA HasBits ==
    ASSUME NEW n, NEW b
    PROVE  b \in BitsOf(n) <=> b \in 0..30 /\ HasBit(n, b)
<1>1. BitsOf(n) = {c \in 0..30 : HasBit(n, c)}
  BY Zenon DEF BitsOf, HasBit
<1>. QED BY <1>1, Zenon

\* A number has no bit above its size.
LEMMA HighBit ==
    ASSUME NEW n, NEW k \in 0..30, Below(n, k), NEW b \in k..30
    PROVE  ~HasBit(n, b)
<1> DEFINE m == 2^b
<1>0. b \in 0..30
  OBVIOUS
<1>1. 2^k <= m /\ 2^k \in Nat /\ m \in Nat \ {0}
  BY <1>0, Growth, Powers
<1> HIDE DEF m
<1>2. m \in Nat \ {0} /\ n \in Nat /\ n < m
  BY <1>1 DEF Below
<1>3. n \div m = 0
  BY <1>2
<1>4. (n \div m) % 2 # 1
  BY <1>3
<1>. QED BY <1>4, Zenon DEF HasBit, m

\* The bits of a byte.
LEMMA ByteBits ==
    ASSUME NEW n \in 0..255
    PROVE  BitsOf(n) =
             (IF n % 2 = 1 THEN {0} ELSE {}) \cup (IF (n \div 2) % 2 = 1 THEN {1} ELSE {})
               \cup (IF (n \div 4) % 2 = 1 THEN {2} ELSE {}) \cup (IF (n \div 8) % 2 = 1 THEN {3} ELSE {})
               \cup (IF (n \div 16) % 2 = 1 THEN {4} ELSE {}) \cup (IF (n \div 32) % 2 = 1 THEN {5} ELSE {})
               \cup (IF (n \div 64) % 2 = 1 THEN {6} ELSE {}) \cup (IF (n \div 128) % 2 = 1 THEN {7} ELSE {})
<1> DEFINE Is(b) == HasBit(n, b)
<1>1. ASSUME NEW b \in 8..30 PROVE ~Is(b)
  <2>1. Below(n, 8)
    <3>1. 2^8 = 256
      BY SMT
    <3>. QED BY <3>1 DEF Below
  <2>2. 8 \in 0..30
    OBVIOUS
  <2>. QED BY <2>1, <2>2, HighBit, Zenon
<1>2. /\ (Is(0) <=> n % 2 = 1) /\ (Is(1) <=> (n \div 2) % 2 = 1)
      /\ (Is(2) <=> (n \div 4) % 2 = 1) /\ (Is(3) <=> (n \div 8) % 2 = 1)
      /\ (Is(4) <=> (n \div 16) % 2 = 1) /\ (Is(5) <=> (n \div 32) % 2 = 1)
      /\ (Is(6) <=> (n \div 64) % 2 = 1) /\ (Is(7) <=> (n \div 128) % 2 = 1)
  BY SMT DEF HasBit
<1>3. \A b : b \in BitsOf(n) <=> b \in 0..30 /\ Is(b)
  BY HasBits
<1> HIDE DEF Is
<1>4. \A b : b \in BitsOf(n) <=> b \in 0..7 /\ Is(b)
  <2>1. \A b : b \in 0..30 <=> (b \in 0..7 \/ b \in 8..30)
    OBVIOUS
  <2>. QED BY <1>1, <1>3, <2>1, Zenon
<1>5. \A b : b \in 0..7 <=> b \in {0, 1, 2, 3, 4, 5, 6, 7}
  OBVIOUS
<1>6. \A b : b \in BitsOf(n) <=>
        \/ (b = 0 /\ Is(0)) \/ (b = 1 /\ Is(1)) \/ (b = 2 /\ Is(2)) \/ (b = 3 /\ Is(3))
        \/ (b = 4 /\ Is(4)) \/ (b = 5 /\ Is(5)) \/ (b = 6 /\ Is(6)) \/ (b = 7 /\ Is(7))
  <2>1. ASSUME NEW b, b \in {0, 1, 2, 3, 4, 5, 6, 7}
        PROVE  Is(b) <=>
                 \/ (b = 0 /\ Is(0)) \/ (b = 1 /\ Is(1)) \/ (b = 2 /\ Is(2)) \/ (b = 3 /\ Is(3))
                 \/ (b = 4 /\ Is(4)) \/ (b = 5 /\ Is(5)) \/ (b = 6 /\ Is(6)) \/ (b = 7 /\ Is(7))
    BY <2>1
  <2>2. \A b : b \in BitsOf(n) <=> b \in {0, 1, 2, 3, 4, 5, 6, 7} /\ Is(b)
    BY <1>4, <1>5, Zenon
  <2>. QED BY <2>1, <2>2
<1>. QED BY <1>2, <1>6

LEMMA Sixteen ==
    ASSUME NEW k \in 0..26
    PROVE  2^(k + 4) = 16 * 2^k
<1>0. ASSUME NEW i \in 0..30, NEW j, j = i + 1
      PROVE  2^j = 2 * 2^i
  <2>1. 2^(i + 1) = 2 * 2^i
    BY Doubles
  <2>. QED BY <1>0, <2>1, Zenon
<1>1. k \in 0..30 /\ k + 1 \in 0..30 /\ k + 2 \in 0..30 /\ k + 3 \in 0..30
  OBVIOUS
<1>2. k + 2 = (k + 1) + 1 /\ k + 3 = (k + 2) + 1 /\ k + 4 = (k + 3) + 1
  OBVIOUS
<1>3. 2^(k + 1) = 2 * 2^k
  BY <1>0, <1>1, Zenon
<1>4. 2^(k + 2) = 2 * 2^(k + 1)
  BY <1>0, <1>1, <1>2, Zenon
<1>5. 2^(k + 3) = 2 * 2^(k + 2)
  BY <1>0, <1>1, <1>2, Zenon
<1>6. 2^(k + 4) = 2 * 2^(k + 3)
  BY <1>0, <1>1, <1>2, Zenon
<1>7. 2^k \in Nat
  BY <1>1, Powers
<1>. QED BY <1>3, <1>4, <1>5, <1>6, <1>7

LEMMA NestedQuotient ==
    ASSUME NEW a \in Nat, NEW m \in Nat \ {0}, NEW b \in 0..15
    PROVE  (16 * a + b) \div (16 * m) = a \div m
<1> DEFINE q == a \div m
           r == a % m
           r2 == 16 * r + b
           m2 == 16 * m
<1>1. q \in Nat /\ r \in 0..(m - 1) /\ a = q * m + r
  OBVIOUS
<1> HIDE DEF q, r
<1>2. 16 * a + b = q * m2 + r2
  <2>1. q * (16 * m) = 16 * (q * m) /\ q * m \in Nat
    BY <1>1
  <2>. QED BY <1>1, <2>1
<1>3. r2 \in 0..(m2 - 1) /\ m2 \in Nat \ {0}
  BY <1>1
<1> HIDE DEF r2, m2
<1>4. (q * m2 + r2) \div m2 = q
  BY <1>1, <1>3, Quotient
<1>5. (16 * a + b) \div m2 = q
  BY <1>2, <1>4
<1>. QED BY <1>5 DEF q, m2

\* A number above four bits: the bits of each stay apart.
LEMMA LowerBits ==
    ASSUME NEW a \in Nat, NEW b \in 0..15, NEW j \in 0..3
    PROVE  j \in BitsOf(16 * a + b) <=> j \in BitsOf(b)
<1> DEFINE num == 16 * a + b
<1>1. j = 0 \/ j = 1 \/ j = 2 \/ j = 3
  OBVIOUS
<1>2. /\ num \div 1 = 16 * a + (b \div 1) /\ num \div 2 = 8 * a + (b \div 2)
      /\ num \div 4 = 4 * a + (b \div 4) /\ num \div 8 = 2 * a + (b \div 8)
  OBVIOUS
<1>3. \A x \in Nat : /\ (16 * a + x) % 2 = x % 2 /\ (8 * a + x) % 2 = x % 2
                     /\ (4 * a + x) % 2 = x % 2 /\ (2 * a + x) % 2 = x % 2
  OBVIOUS
<1>4. b \div 1 \in Nat /\ b \div 2 \in Nat /\ b \div 4 \in Nat /\ b \div 8 \in Nat
  OBVIOUS
<1> HIDE DEF num
<1>5. /\ (num \div 1) % 2 = (b \div 1) % 2 /\ (num \div 2) % 2 = (b \div 2) % 2
      /\ (num \div 4) % 2 = (b \div 4) % 2 /\ (num \div 8) % 2 = (b \div 8) % 2
  BY <1>2, <1>3, <1>4
<1>6. /\ HasBit(num, 0) <=> HasBit(b, 0)
      /\ HasBit(num, 1) <=> HasBit(b, 1)
      /\ HasBit(num, 2) <=> HasBit(b, 2)
      /\ HasBit(num, 3) <=> HasBit(b, 3)
  BY <1>5, SMT DEF HasBit
<1>7. HasBit(num, j) <=> HasBit(b, j)
  <2>1. CASE j = 0 BY <1>6, <2>1
  <2>2. CASE j = 1 BY <1>6, <2>2
  <2>3. CASE j = 2 BY <1>6, <2>3
  <2>4. CASE j = 3 BY <1>6, <2>4
  <2>. QED BY <1>1, <2>1, <2>2, <2>3, <2>4
<1>8. j \in 0..30
  OBVIOUS
<1>9. j \in BitsOf(num) <=> j \in BitsOf(b)
  BY <1>7, <1>8, HasBits
<1>. QED BY <1>9 DEF num

LEMMA UpperBits ==
    ASSUME NEW a \in Nat, NEW b \in 0..15, NEW j \in 4..30
    PROVE  j \in BitsOf(16 * a + b) <=> j - 4 \in BitsOf(a)
<1> DEFINE num == 16 * a + b
<1>1. PICK i \in 0..26 : j = i + 4 /\ j - 4 = i
  <2>1. j - 4 \in 0..26 /\ j = (j - 4) + 4
    OBVIOUS
  <2>. QED BY <2>1
<1>2. 2^(i + 4) = 16 * 2^i
  BY Sixteen
<1>3. 2^i \in Nat \ {0}
  <2>1. i \in 0..30
    OBVIOUS
  <2>. QED BY <2>1, Powers
<1>4. num \div (16 * 2^i) = a \div 2^i
  BY <1>3, NestedQuotient
<1> HIDE DEF num
<1>5. num \div 2^j = a \div 2^i
  BY <1>1, <1>2, <1>4, Zenon
<1>6. HasBit(num, j) <=> HasBit(a, i)
  BY <1>5, Zenon DEF HasBit
<1>7. j \in 0..30 /\ i \in 0..30
  OBVIOUS
<1>8. j \in BitsOf(num) <=> i \in BitsOf(a)
  BY <1>6, <1>7, HasBits
<1>. QED BY <1>1, <1>8 DEF num

\* A number of twelve bits above one of four, as in the baud rate register.
LEMMA SplitBits ==
    ASSUME NEW a, Below(a, 12), NEW b \in 0..15
    PROVE  NumOf(Shift(BitsOf(a), 4) \cup BitsOf(b)) = 16 * a + b
<1> DEFINE num  == 16 * a + b
           high == {c + 4 : c \in BitsOf(a)}
<1>1. a \in Nat /\ Below(num, 31)
  <2>1. 2^31 = 2147483648 /\ 2^12 = 4096
    BY SMT
  <2>2. a \in Nat /\ a < 4096
    BY <2>1, SMT DEF Below
  <2>3. num \in Nat /\ num < 2147483648
    BY <2>2, SMT
  <2>. QED BY <2>1, <2>2, <2>3, SMT DEF Below
<1>2. BitsOf(b) \subseteq 0..3
  BY SmallBits
<1>3. ASSUME NEW c \in BitsOf(a) PROVE c \in 0..11
  <2>1. c \in 0..30 /\ HasBit(a, c)
    BY HasBits
  <2>2. c \in 12..30 => ~HasBit(a, c)
    <3>1. 12 \in 0..30
      OBVIOUS
    <3>. QED BY <3>1, HighBit
  <2>. QED BY <2>1, <2>2
<1>4. Shift(BitsOf(a), 4) = high
  BY <1>3 DEF Shift, Bits
<1>5. \A j : j \in high <=> j \in 4..30 /\ j - 4 \in BitsOf(a)
  <2>1. ASSUME NEW c \in BitsOf(a) PROVE c + 4 \in 4..30 /\ (c + 4) - 4 = c
    BY <1>3
  <2>2. ASSUME NEW j \in 4..30, j - 4 \in BitsOf(a) PROVE j \in high
    <3>1. j = (j - 4) + 4
      OBVIOUS
    <3>. QED BY <2>2, <3>1
  <2>. QED BY <2>1, <2>2
<1>6. BitsOf(num) \subseteq 0..30
  BY DEF BitsOf
<1>7. /\ \A j \in 0..3 : j \in BitsOf(num) <=> j \in BitsOf(b)
      /\ \A j \in 4..30 : j \in BitsOf(num) <=> j - 4 \in BitsOf(a)
  BY <1>1, LowerBits, UpperBits
<1> HIDE DEF num, high
<1>8. \A j : j \in high \cup BitsOf(b) <=> j \in BitsOf(num)
  <2>1. \A j : j \in BitsOf(num) => j \in 0..3 \/ j \in 4..30
    BY <1>6
  <2>2. \A j \in 4..30 : j \notin 0..3
    OBVIOUS
  <2>. QED BY <1>2, <1>5, <1>7, <2>1, <2>2, Zenon
<1>9. high \cup BitsOf(b) = BitsOf(num)
  BY <1>8
<1>10. NumOf(BitsOf(num)) = num
  BY <1>1, BitsSum
<1>. QED BY <1>4, <1>9, <1>10 DEF num

\* The numbers that the fields of the clock registers hold.
LEMMA ClockNumbers ==
    /\ BitsOf(8) = {3} /\ BitsOf(168) = {3, 5, 7} /\ BitsOf(0) = {} /\ BitsOf(7) = {0, 1, 2}
    /\ NumOf({}) = 0 /\ NumOf({2}) = 4 /\ NumOf({0, 2}) = 5 /\ NumOf({3}) = 8
    /\ NumOf({3, 5, 7}) = 168
<1>1. /\ BitsOf(0) = {} /\ BitsOf(4) = {2} /\ BitsOf(5) = {0, 2}
      /\ BitsOf(7) = {0, 1, 2} /\ BitsOf(8) = {3}
  BY ByteBits
<1>2. BitsOf(168) = {3, 5, 7}
  BY ByteBits
<1>3. Below(0, 31) /\ Below(4, 31) /\ Below(5, 31) /\ Below(8, 31) /\ Below(168, 31)
  <2>1. 2^31 = 2147483648
    BY SMT
  <2>. QED BY <2>1, SMT DEF Below
<1>. QED BY <1>1, <1>2, <1>3, BitsSum

=============================================================================
