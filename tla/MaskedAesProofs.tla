--------------------------- MODULE MaskedAesProofs ---------------------------
(***************************************************************************)
(* The masked AES is AES for every field, key, block and table of random   *)
(* bytes that the named assumptions admit: IsAes as a theorem.             *)
(*                                                                         *)
(* First the subroutines.  The field is what the assumptions say: bytes    *)
(* are added bit by bit, doubling is linear, and the tables of logarithms  *)
(* and powers are those of a generator.                                    *)
(*                                                                         *)
(* Masked(G, a, m, p) says that the block a with the masks m stands for p. *)
(* Every subroutine keeps it, with the plain transformation on p; Clear    *)
(* recovers p.  IInv adds what the steps rely on: contexts that were       *)
(* computed from one table of bytes, a running operation that finds them   *)
(* complete and for its own direction, and t_temp between the two parts of *)
(* the inverse mix.                                                        *)
(***************************************************************************)
EXTENDS MaskedAes, TableWalk, TLAPS

\* Induction on natural numbers.
Data == INSTANCE RegisterProofs

LEMMA ByteFacts == N \in Nat /\ N > 1 /\ 0 \in Byte /\ Byte = 0..(N - 1)
  BY ByteAssumption DEF Byte

(***************************************************************************)
(* Exclusive or.                                                           *)
(***************************************************************************)
LEMMA XorType ==
    ASSUME NEW a \in Byte, NEW b \in Byte
    PROVE  Xor(a, b) \in Byte
  BY XorAssumption

LEMMA XorBits ==
    ASSUME NEW a \in Byte, NEW b \in Byte, NEW i \in 0..(Width - 1)
    PROVE  (Odd(Xor(a, b), i) <=> ~(Odd(a, i) <=> Odd(b, i))) /\ ~Odd(0, i)
  BY XorAssumption

LEMMA SameBits ==
    ASSUME NEW a \in Byte, NEW b \in Byte, \A i \in 0..(Width - 1) : Odd(a, i) <=> Odd(b, i)
    PROVE  a = b
  BY XorAssumption

LEMMA XorComm ==
    ASSUME NEW a \in Byte, NEW b \in Byte
    PROVE  Xor(a, b) = Xor(b, a)
  BY XorType, XorBits, SameBits

LEMMA XorAssoc ==
    ASSUME NEW a \in Byte, NEW b \in Byte, NEW c \in Byte
    PROVE  Xor(Xor(a, b), c) = Xor(a, Xor(b, c))
<1>1. Xor(a, b) \in Byte /\ Xor(b, c) \in Byte /\ Xor(Xor(a, b), c) \in Byte /\ Xor(a, Xor(b, c)) \in Byte
  BY XorType
<1>2. ASSUME NEW i \in 0..(Width - 1) PROVE Odd(Xor(Xor(a, b), c), i) <=> Odd(Xor(a, Xor(b, c)), i)
  BY <1>1, XorBits
<1>. QED BY <1>1, <1>2, SameBits

LEMMA XorSelf ==
    ASSUME NEW a \in Byte
    PROVE  Xor(a, a) = 0 /\ Xor(a, 0) = a /\ Xor(0, a) = a
<1>1. 0 \in Byte /\ Xor(a, a) \in Byte /\ Xor(a, 0) \in Byte
  BY ByteFacts, XorType
<1>2. Xor(a, a) = 0
  BY <1>1, XorBits, SameBits
<1>3. Xor(a, 0) = a
  BY <1>1, XorBits, SameBits
<1>. QED BY <1>1, <1>2, <1>3, XorComm

\* What is added twice goes away.
LEMMA XorCancel ==
    ASSUME NEW a \in Byte, NEW b \in Byte
    PROVE  Xor(Xor(a, b), b) = a
  BY XorAssoc, XorSelf

LEMMA XorMedial ==
    ASSUME NEW a \in Byte, NEW b \in Byte, NEW c \in Byte, NEW d \in Byte
    PROVE  Xor(Xor(a, b), Xor(c, d)) = Xor(Xor(a, c), Xor(b, d))
<1>1. /\ Xor(a, b) \in Byte /\ Xor(c, d) \in Byte /\ Xor(a, c) \in Byte /\ Xor(b, d) \in Byte
      /\ Xor(Xor(a, b), Xor(c, d)) \in Byte /\ Xor(Xor(a, c), Xor(b, d)) \in Byte
  BY XorType
<1>2. ASSUME NEW i \in 0..(Width - 1)
      PROVE  Odd(Xor(Xor(a, b), Xor(c, d)), i) <=> Odd(Xor(Xor(a, c), Xor(b, d)), i)
  BY <1>1, XorBits
<1>. QED BY <1>1, <1>2, SameBits

(***************************************************************************)
(* Products.  Power(e) is the product by the e-th power of the generator.  *)
(***************************************************************************)
Power(e) == [x \in Byte |-> IF x = 0 THEN 0 ELSE ALog[AddLogs(Log[x], e)]]

\* The product by the generator, 3.
Thrice(x) == Xor(Xtime[x], x)

Linear(f) == f \in [Byte -> Byte] /\ \A x, y \in Byte : f[Xor(x, y)] = Xor(f[x], f[y])

LEMMA LogFacts ==
    /\ \A x \in 1..(N - 1) : Log[x] \in 0..(N - 2) /\ ALog[Log[x]] = x
    /\ \A e \in 0..(N - 1) : ALog[e] \in 1..(N - 1) /\ ALog[e] \in Byte /\ ALog[e] # 0
    /\ \A e \in 0..(N - 2) : Log[ALog[e]] = e /\ ALog[e + 1] = Thrice(ALog[e])
    /\ ALog[N - 1] = ALog[0] /\ Log[ALog[N - 1]] = 0
    /\ \A x \in Byte : x = 0 \/ x \in 1..(N - 1)
    /\ \A x \in Byte : Log[x] \in 0..(N - 2)
<1>1. Log \in [Byte -> 0..(N - 2)] /\ ALog \in [0..(N - 1) -> 1..(N - 1)]
  BY LogAssumption
<1>2. N \in Nat /\ N > 1 /\ \A x \in 1..(N - 1) : x \in Byte
  BY ByteFacts
<1>3. \A e \in 0..(N - 1) : ALog[e] \in 1..(N - 1) /\ ALog[e] \in Byte /\ ALog[e] # 0
  <2>1. \A x \in 1..(N - 1) : x # 0
    OBVIOUS
  <2>. QED BY <1>1, <1>2, <2>1
<1>4. 0 \in 0..(N - 2) /\ ALog[N - 1] = ALog[0] /\ Log[ALog[0]] = 0
  BY <1>2, LogAssumption
<1>5. \A x \in Byte : x = 0 \/ x \in 1..(N - 1)
  BY ByteFacts
<1>6. \A e \in 0..(N - 2) : Log[ALog[e]] = e /\ ALog[e + 1] = Thrice(ALog[e])
  BY LogAssumption DEF Thrice
<1>7. \A x \in 1..(N - 1) : ALog[Log[x]] = x
  BY LogAssumption
<1>. QED BY <1>1, <1>2, <1>3, <1>4, <1>5, <1>6, <1>7

LEMMA AddLogsType ==
    ASSUME NEW a \in 0..(N - 1), NEW b \in 0..(N - 1)
    PROVE  /\ AddLogs(a, b) \in 0..(N - 1)
           /\ AddLogs(a, b) = a + b \/ AddLogs(a, b) = a + b - (N - 1)
  BY ByteFacts DEF AddLogs

LEMMA PowerType ==
    ASSUME NEW e \in 0..(N - 1)
    PROVE  Power(e) \in [Byte -> Byte] /\ Power(e)[0] = 0
<1>1. \A x \in Byte : Log[x] \in 0..(N - 1)
  BY LogFacts, ByteFacts
<1>2. \A x \in Byte : ALog[AddLogs(Log[x], e)] \in Byte
  BY <1>1, LogFacts, AddLogsType
<1>. QED BY <1>2, ByteFacts DEF Power

LEMMA PowerZero ==
    ASSUME NEW x \in Byte
    PROVE  Power(0)[x] = x
<1>1. CASE x = 0
  BY <1>1 DEF Power
<1>2. CASE x # 0
  <2>1. x \in 1..(N - 1) /\ Log[x] \in 0..(N - 2)
    BY <1>2, LogFacts
  <2>2. AddLogs(Log[x], 0) = Log[x]
    BY <2>1, ByteFacts DEF AddLogs
  <2>. QED BY <1>2, <2>1, <2>2, LogFacts DEF Power
<1>. QED BY <1>1, <1>2

LEMMA ThriceType ==
    ASSUME NEW x \in Byte, NEW y \in Byte
    PROVE  /\ Thrice(x) \in Byte /\ Xtime[x] \in Byte /\ Thrice(0) = 0 /\ Xtime[0] = 0
           /\ Thrice(Xor(x, y)) = Xor(Thrice(x), Thrice(y))
           /\ Xtime[Thrice(x)] = Thrice(Xtime[x])
           /\ Xor(Thrice(x), x) = Xtime[x]
<1>1. \A z \in Byte : Xtime[z] \in Byte
  BY TableAssumption
<1>2. \A z \in Byte : Thrice(z) \in Byte
  BY <1>1, XorType DEF Thrice
<1>3. \A u, v \in Byte : Xtime[Xor(u, v)] = Xor(Xtime[u], Xtime[v])
  BY TableAssumption
<1>4. Thrice(Xor(x, y)) = Xor(Thrice(x), Thrice(y))
  BY <1>1, <1>3, XorMedial DEF Thrice
<1>5. Xtime[Thrice(x)] = Thrice(Xtime[x])
  BY <1>1, <1>3 DEF Thrice
<1>6. Xor(Thrice(x), x) = Xtime[x]
  BY <1>1, XorCancel DEF Thrice
<1>7. Xtime[0] = 0
  <2>1. 0 \in Byte /\ Xor(0, 0) = 0
    BY ByteFacts, XorSelf
  <2>2. Xtime[0] = Xor(Xtime[0], Xtime[0])
    BY <1>3, <2>1
  <2>. QED BY <1>1, <2>1, <2>2, XorSelf
<1>8. Thrice(0) = 0
  BY <1>7, ByteFacts, XorSelf DEF Thrice
<1>. QED BY <1>1, <1>2, <1>4, <1>5, <1>6, <1>7, <1>8

\* The next power multiplies once more by the generator.
LEMMA PowerNext ==
    ASSUME NEW e \in 0..(N - 3), NEW x \in Byte
    PROVE  Power(e + 1)[x] = Thrice(Power(e)[x])
<1>0. e \in 0..(N - 1) /\ e + 1 \in 0..(N - 1)
  BY ByteFacts
<1>1. CASE x = 0
  BY <1>1, ThriceType DEF Power
<1>2. CASE x # 0
  <2> DEFINE l == Log[x]
  <2>1. l \in 0..(N - 2) /\ N \in Nat
    BY LogFacts, ByteFacts
  <2>2. Power(e)[x] = ALog[AddLogs(l, e)] /\ Power(e + 1)[x] = ALog[AddLogs(l, e + 1)]
    BY <1>2 DEF Power
  <2> HIDE DEF l
  <2>3. CASE l + e + 1 < N
    <3>1. AddLogs(l, e) = l + e /\ AddLogs(l, e + 1) = (l + e) + 1 /\ l + e \in 0..(N - 2)
      BY <2>1, <2>3 DEF AddLogs
    <3>. QED BY <2>2, <3>1, LogFacts
  <2>4. CASE l + e + 1 = N
    <3>1. AddLogs(l, e) = N - 1 /\ AddLogs(l, e + 1) = 0 + 1 /\ 0 \in 0..(N - 2)
      BY <2>1, <2>4 DEF AddLogs
    <3>. QED BY <2>2, <3>1, LogFacts
  <2>5. CASE l + e + 1 > N
    <3>1. /\ AddLogs(l, e) = l + e + 1 - N /\ AddLogs(l, e + 1) = (l + e + 1 - N) + 1
          /\ l + e + 1 - N \in 0..(N - 2)
      BY <2>1, <2>5 DEF AddLogs
    <3>. QED BY <2>2, <3>1, LogFacts
  <2>. QED BY <2>1, <2>3, <2>4, <2>5
<1>. QED BY <1>1, <1>2

\* Products are linear and commute with doubling, by induction on the power.
LEMMA PowerLinear ==
    ASSUME NEW e \in 0..(N - 2)
    PROVE  Linear(Power(e)) /\ \A x \in Byte : Xtime[Power(e)[x]] = Power(e)[Xtime[x]]
<1> DEFINE Good == {k \in 0..(N - 2) :
                      /\ \A x, y \in Byte : Power(k)[Xor(x, y)] = Xor(Power(k)[x], Power(k)[y])
                      /\ \A x \in Byte : Xtime[Power(k)[x]] = Power(k)[Xtime[x]]}
<1>0. N \in Nat /\ N - 2 \in Nat
  BY ByteFacts
<1>1. 0 \in Good
  <2>1. \A x, y \in Byte : Xor(x, y) \in Byte /\ Xtime[x] \in Byte
    BY XorType, ThriceType
  <2>. QED BY <1>0, <2>1, PowerZero
<1>2. ASSUME NEW k \in 0..((N - 2) - 1), k \in Good
      PROVE  k + 1 \in Good
  <2>1. k \in 0..(N - 3) /\ k + 1 \in 0..(N - 2) /\ k \in 0..(N - 1)
    BY <1>0
  <2>2. \A x \in Byte : Power(k)[x] \in Byte /\ Power(k + 1)[x] = Thrice(Power(k)[x])
    BY <2>1, PowerType, PowerNext
  <2>3. ASSUME NEW x \in Byte, NEW y \in Byte
        PROVE  Power(k + 1)[Xor(x, y)] = Xor(Power(k + 1)[x], Power(k + 1)[y])
    <3>1. Xor(x, y) \in Byte /\ Power(k)[Xor(x, y)] = Xor(Power(k)[x], Power(k)[y])
      BY <1>2, XorType
    <3>. QED BY <2>2, <3>1, ThriceType
  <2>4. ASSUME NEW x \in Byte
        PROVE  Xtime[Power(k + 1)[x]] = Power(k + 1)[Xtime[x]]
    <3>1. Xtime[x] \in Byte /\ Xtime[Power(k)[x]] = Power(k)[Xtime[x]]
      BY <1>2, ThriceType
    <3>. QED BY <2>2, <3>1, ThriceType
  <2>. QED BY <2>1, <2>3, <2>4
<1>3. 0..(N - 2) \subseteq Good
  <2> HIDE DEF Good
  <2>. QED BY <1>0, <1>1, <1>2, Data!UpTo
<1>4. e \in 0..(N - 1)
  BY <1>0
<1>. QED BY <1>3, <1>4, PowerType DEF Linear

(***************************************************************************)
(* The tables of products, and what undoes them.                           *)
(***************************************************************************)
\* Two exponents that differ by the order of the generator.
SameExponent(d) == d = 0 \/ d = N - 1 \/ d = -(N - 1)

LEMMA SamePower ==
    ASSUME NEW a \in 0..(N - 1), NEW b \in 0..(N - 1), SameExponent(a - b)
    PROVE  ALog[a] = ALog[b]
<1>1. a = b \/ (a = N - 1 /\ b = 0) \/ (a = 0 /\ b = N - 1)
  BY ByteFacts DEF SameExponent
<1>. QED BY <1>1, LogFacts

\* Exponents are below the order of the generator, or equal to it.
LEMMA Bounded ==
    ASSUME NEW a \in 0..(N - 1), NEW b \in 0..(N - 1), NEW M, M = N - 1,
           \/ a - b = 0 \/ a - b = M \/ a - b = -M \/ a - b = 2 * M \/ a - b = -(2 * M)
           \/ a - b = 3 * M \/ a - b = -(3 * M) \/ a - b = 4 * M \/ a - b = -(4 * M)
    PROVE  SameExponent(a - b)
<1>1. M \in Nat /\ M > 0 /\ a \in 0..M /\ b \in 0..M
  BY ByteFacts
<1>2. a - b = 0 \/ a - b = M \/ a - b = -M
  BY <1>1
<1>. QED BY <1>2 DEF SameExponent

LEMMA LogOfPower ==
    ASSUME NEW e \in 0..(N - 1)
    PROVE  Log[ALog[e]] \in 0..(N - 2) /\ (Log[ALog[e]] = e \/ Log[ALog[e]] = e - (N - 1))
<1>1. CASE e \in 0..(N - 2)
  BY <1>1, LogFacts
<1>2. CASE e = N - 1
  BY <1>2, LogFacts, ByteFacts
<1>. QED BY <1>1, <1>2, ByteFacts

LEMMA Products ==
    ASSUME NEW r \in Byte
    PROVE  /\ Compute_GTab(r) = Power(Log[r]) /\ Compute_GTab(r)[0] = 0
           /\ Linear(Compute_GTab(r))
           /\ \A x \in Byte : Xtime[Compute_GTab(r)[x]] = Compute_GTab(r)[Xtime[x]]
<1>1. Compute_GTab(r) = Power(Log[r])
  BY DEF Compute_GTab, Power, Product
<1>2. Log[r] \in 0..(N - 2) /\ Log[r] \in 0..(N - 1)
  BY LogFacts, ByteFacts
<1>3. Power(Log[r])[0] = 0 /\ Linear(Power(Log[r]))
      /\ \A x \in Byte : Xtime[Power(Log[r])[x]] = Power(Log[r])[Xtime[x]]
  BY <1>2, PowerType, PowerLinear
<1>. QED BY <1>1, <1>3

LEMMA ProductLog ==
    ASSUME NEW r \in Byte, NEW x \in 1..(N - 1)
    PROVE  LET y == Compute_GTab(r)[x]
           IN  /\ y \in Byte /\ y # 0 /\ Log[y] \in 0..(N - 2) /\ y = ALog[AddLogs(Log[x], Log[r])]
               /\ SameExponent(Log[y] - (Log[x] + Log[r]))
<1> DEFINE e == AddLogs(Log[x], Log[r])
           y == Compute_GTab(r)[x]
<1>1. x \in Byte /\ x # 0
  BY ByteFacts
<1>2. y = ALog[e]
  BY <1>1 DEF Compute_GTab, Product
<1>3. Log[x] \in 0..(N - 2) /\ Log[r] \in 0..(N - 2) /\ Log[x] \in 0..(N - 1) /\ Log[r] \in 0..(N - 1)
  BY <1>1, LogFacts, ByteFacts
<1>4. e \in 0..(N - 1) /\ (e = Log[x] + Log[r] \/ e = Log[x] + Log[r] - (N - 1))
  BY <1>3, AddLogsType
<1> HIDE DEF e
<1>5. Log[ALog[e]] \in 0..(N - 2) /\ (Log[ALog[e]] = e \/ Log[ALog[e]] = e - (N - 1))
  BY <1>4, LogOfPower
<1>6. ALog[e] \in Byte /\ ALog[e] # 0
  BY <1>4, LogFacts
<1> DEFINE l == Log[x]
           k == Log[r]
           m == Log[ALog[e]]
<1>7. SameExponent(m - (l + k))
  <2>1. l \in 0..(N - 2) /\ k \in 0..(N - 2) /\ m \in 0..(N - 2) /\ N \in Nat
        /\ (e = l + k \/ e = l + k - (N - 1)) /\ (m = e \/ m = e - (N - 1))
    BY <1>3, <1>4, <1>5, ByteFacts
  <2> HIDE DEF l, k, m
  <2>. QED BY <2>1 DEF SameExponent
<1> HIDE DEF y
<1>8. Log[y] = Log[ALog[e]]
  BY <1>2
<1>. QED BY <1>2, <1>5, <1>6, <1>7, <1>8 DEF e, y

\* One byte of Multiplicative_unmasking.
Undo(r, x) == IF x = 0 THEN 0 ELSE Quotient(x, r)

\* The power that quotients look up.
LEMMA QuotientLog ==
    ASSUME NEW r \in Byte, NEW x \in 1..(N - 1)
    PROVE  LET e == AddLogs(Log[x], MinusLog(r))
           IN  /\ Quotient(x, r) = ALog[e] /\ e \in 0..(N - 1)
               /\ e = Log[x] - Log[r] \/ e = Log[x] - Log[r] + (N - 1)
               /\ Log[x] \in 0..(N - 2) /\ Log[r] \in 0..(N - 2)
<1>1. x \in Byte /\ Log[x] \in 0..(N - 2) /\ Log[r] \in 0..(N - 2) /\ Log[x] \in 0..(N - 1)
  BY LogFacts, ByteFacts
<1>2. MinusLog(r) = N - 1 - Log[r] /\ MinusLog(r) \in 0..(N - 1)
  BY <1>1, ByteFacts DEF MinusLog
<1> DEFINE l == Log[x]
           k == Log[r]
           e == AddLogs(l, MinusLog(r))
<1>3. e \in 0..(N - 1) /\ (e = l + MinusLog(r) \/ e = l + MinusLog(r) - (N - 1))
  BY <1>1, <1>2, AddLogsType
<1>4. e = l - k \/ e = l - k + (N - 1)
  <2>1. l \in Nat /\ k \in Nat /\ N \in Nat /\ MinusLog(r) = N - 1 - k
    BY <1>1, <1>2, ByteFacts
  <2> HIDE DEF l, k, e
  <2>. QED BY <1>3, <2>1
<1>. QED BY <1>1, <1>3, <1>4 DEF Quotient

LEMMA UndoProduct ==
    ASSUME NEW r \in Byte, NEW x \in Byte
    PROVE  Undo(r, Compute_GTab(r)[x]) = x
<1> DEFINE y == Compute_GTab(r)[x]
<1>1. CASE x = 0
  BY <1>1, Products DEF Undo
<1>2. CASE x # 0
  <2>1. x \in 1..(N - 1)
    BY <1>2, LogFacts
  <2>2. /\ y \in Byte /\ y # 0 /\ Log[y] \in 0..(N - 2)
        /\ SameExponent(Log[y] - (Log[x] + Log[r]))
    BY <2>1, ProductLog
  <2> HIDE DEF y
  <2> DEFINE e == AddLogs(Log[y], MinusLog(r))
  <2>3. y \in 1..(N - 1)
    BY <2>2, LogFacts
  <2>4. /\ Quotient(y, r) = ALog[e] /\ e \in 0..(N - 1)
        /\ e = Log[y] - Log[r] \/ e = Log[y] - Log[r] + (N - 1)
        /\ Log[r] \in 0..(N - 2)
    BY <2>3, QuotientLog
  <2> HIDE DEF e
  <2>5. Log[x] \in 0..(N - 2) /\ Log[x] \in 0..(N - 1) /\ ALog[Log[x]] = x
    BY <2>1, LogFacts, ByteFacts
  <2>6. SameExponent(e - Log[x])
    <3> DEFINE ly == Log[y]
               lx == Log[x]
               k == Log[r]
               M == N - 1
    <3>1. /\ ly \in Nat /\ lx \in Nat /\ k \in Nat /\ e \in 0..(N - 1) /\ lx \in 0..(N - 1) /\ M \in Nat
          /\ ly - (lx + k) = 0 \/ ly - (lx + k) = M \/ ly - (lx + k) = -M
          /\ e = ly - k \/ e = ly - k + M
      BY <2>2, <2>4, <2>5, ByteFacts DEF SameExponent
    <3>2. M = N - 1
      OBVIOUS
    <3> HIDE DEF ly, lx, k, M
    <3>3. e - lx = 0 \/ e - lx = M \/ e - lx = -M \/ e - lx = 2 * M
      BY <3>1
    <3>4. SameExponent(e - lx)
      BY <3>1, <3>2, <3>3, Bounded
    <3>. QED BY <3>4 DEF lx
  <2>7. ALog[e] = ALog[Log[x]]
    BY <2>4, <2>5, <2>6, SamePower
  <2>. QED BY <2>2, <2>4, <2>5, <2>7 DEF Undo, y
<1>. QED BY <1>1, <1>2

LEMMA ProductUndo ==
    ASSUME NEW r \in Byte, NEW x \in Byte
    PROVE  Undo(r, x) \in Byte /\ Compute_GTab(r)[Undo(r, x)] = x
<1>1. CASE x = 0
  BY <1>1, Products, ByteFacts DEF Undo
<1>2. CASE x # 0
  <2> DEFINE e == AddLogs(Log[x], MinusLog(r))
             z == ALog[e]
             f == AddLogs(Log[z], Log[r])
  <2>1. x \in 1..(N - 1)
    BY <1>2, LogFacts
  <2>2. /\ Quotient(x, r) = ALog[e] /\ e \in 0..(N - 1)
        /\ e = Log[x] - Log[r] \/ e = Log[x] - Log[r] + (N - 1)
        /\ Log[x] \in 0..(N - 2) /\ Log[r] \in 0..(N - 2)
    BY <2>1, QuotientLog
  <2> HIDE DEF e
  <2>3. z \in 1..(N - 1) /\ z \in Byte /\ Log[z] \in 0..(N - 2)
        /\ (Log[z] = e \/ Log[z] = e - (N - 1))
    BY <2>2, LogFacts, LogOfPower
  <2> HIDE DEF z
  <2>4. Compute_GTab(r)[z] = ALog[f]
    BY <2>3, ProductLog
  <2>5. f \in 0..(N - 1) /\ (f = Log[z] + Log[r] \/ f = Log[z] + Log[r] - (N - 1))
    <3>1. Log[z] \in 0..(N - 1) /\ Log[r] \in 0..(N - 1)
      BY <2>2, <2>3, ByteFacts
    <3>. QED BY <3>1, AddLogsType
  <2> HIDE DEF f
  <2>6. SameExponent(f - Log[x]) /\ Log[x] \in 0..(N - 1)
    <3> DEFINE lz == Log[z]
               lx == Log[x]
               k == Log[r]
               M == N - 1
    <3>1. /\ lz \in Nat /\ lx \in Nat /\ k \in Nat /\ f \in 0..(N - 1) /\ lx \in 0..(N - 1) /\ M \in Nat
          /\ e \in Int
          /\ lz = e \/ lz = e - M
          /\ e = lx - k \/ e = lx - k + M
          /\ f = lz + k \/ f = lz + k - M
      BY <2>2, <2>3, <2>5, ByteFacts
    <3>2. M = N - 1
      OBVIOUS
    <3> HIDE DEF lz, lx, k, M
    <3>3. f - lx = 0 \/ f - lx = M \/ f - lx = -M \/ f - lx = -(2 * M)
      BY <3>1
    <3>4. SameExponent(f - lx)
      BY <3>1, <3>2, <3>3, Bounded
    <3>. QED BY <3>1, <3>4 DEF lx
  <2>7. ALog[f] = x
    BY <2>1, <2>5, <2>6, SamePower, LogFacts
  <2>8. Undo(r, x) = z
    BY <1>2, <2>2 DEF Undo, z
  <2>. QED BY <2>3, <2>4, <2>7, <2>8
<1>. QED BY <1>1, <1>2

\* The product by the quotient of two multipliers goes from one to the other.
LEMMA Division ==
    ASSUME NEW k \in Byte, NEW a \in Byte, NEW x \in Byte
    PROVE  /\ field_division(k, a) \in Byte
           /\ Compute_GTab(field_division(k, a))[Compute_GTab(k)[x]] = Compute_GTab(a)[x]
<1> DEFINE d == AddLogs(Log[a], MinusLog(k))
           D == ALog[d]
<1>1. field_division(k, a) = D
  BY DEF field_division, Quotient
<1>2. Log[a] \in 0..(N - 2) /\ Log[k] \in 0..(N - 2) /\ N \in Nat /\ N > 1
  BY LogFacts, ByteFacts
<1>3. d \in 0..(N - 1) /\ (d = Log[a] - Log[k] \/ d = Log[a] - Log[k] + (N - 1))
  <2>1. MinusLog(k) = N - 1 - Log[k] /\ MinusLog(k) \in 0..(N - 1) /\ Log[a] \in 0..(N - 1)
    BY <1>2 DEF MinusLog
  <2>2. d \in 0..(N - 1) /\ (d = Log[a] + MinusLog(k) \/ d = Log[a] + MinusLog(k) - (N - 1))
    BY <2>1, AddLogsType
  <2> HIDE DEF d
  <2>. QED BY <1>2, <2>1, <2>2
<1> HIDE DEF d
<1>4. D \in Byte /\ Log[D] \in 0..(N - 2) /\ (Log[D] = d \/ Log[D] = d - (N - 1))
  BY <1>3, LogFacts, LogOfPower
<1> HIDE DEF D
<1>5. CASE x = 0
  BY <1>1, <1>4, <1>5, Products
<1>6. CASE x # 0
  <2> DEFINE y == Compute_GTab(k)[x]
             f == AddLogs(Log[y], Log[D])
             g == AddLogs(Log[x], Log[a])
  <2>1. x \in 1..(N - 1) /\ Log[x] \in 0..(N - 2)
    BY <1>6, LogFacts
  <2>2. /\ y \in Byte /\ y # 0 /\ Log[y] \in 0..(N - 2)
        /\ y = ALog[AddLogs(Log[x], Log[k])]
    BY <2>1, ProductLog
  <2>3. SameExponent(Log[y] - (Log[x] + Log[k]))
    BY <2>1, ProductLog
  <2> HIDE DEF y
  <2>4. y \in 1..(N - 1)
    BY <2>2, LogFacts
  <2>5. Compute_GTab(D)[y] = ALog[f] /\ Compute_GTab(a)[x] = ALog[g]
    BY <1>4, <2>1, <2>4, ProductLog
  <2>6. /\ f \in 0..(N - 1) /\ (f = Log[y] + Log[D] \/ f = Log[y] + Log[D] - (N - 1))
        /\ g \in 0..(N - 1) /\ (g = Log[x] + Log[a] \/ g = Log[x] + Log[a] - (N - 1))
    <3>1. Log[y] \in 0..(N - 1) /\ Log[D] \in 0..(N - 1) /\ Log[x] \in 0..(N - 1) /\ Log[a] \in 0..(N - 1)
      BY <1>2, <1>4, <2>1, <2>2
    <3>. QED BY <3>1, AddLogsType
  <2> HIDE DEF f, g
  <2>7. SameExponent(f - g)
    <3> DEFINE ly == Log[y]
               lx == Log[x]
               la == Log[a]
               lk == Log[k]
               lD == Log[D]
    <3>1. /\ ly \in Nat /\ lx \in Nat /\ la \in Nat /\ lk \in Nat /\ lD \in Nat
          /\ f \in 0..(N - 1) /\ g \in 0..(N - 1) /\ d \in 0..(N - 1)
          /\ ly - (lx + lk) = 0 \/ ly - (lx + lk) = N - 1 \/ ly - (lx + lk) = -(N - 1)
          /\ lD = d \/ lD = d - (N - 1)
          /\ d = la - lk \/ d = la - lk + (N - 1)
          /\ f = ly + lD \/ f = ly + lD - (N - 1)
          /\ g = lx + la \/ g = lx + la - (N - 1)
      BY <1>2, <1>3, <1>4, <2>1, <2>2, <2>3, <2>6 DEF SameExponent
    <3> HIDE DEF ly, lx, la, lk, lD
    <3> DEFINE M == N - 1
    <3>2. M \in Nat /\ M > 0
      BY <1>2
    <3>3. f - g = 0 \/ f - g = M \/ f - g = -M \/ f - g = 2 * M \/ f - g = -(2 * M)
             \/ f - g = 3 * M \/ f - g = -(3 * M) \/ f - g = 4 * M \/ f - g = -(4 * M)
      <4>1. ly - (lx + lk) = 0 \/ ly - (lx + lk) = M \/ ly - (lx + lk) = -M
        BY <3>1
      <4>2. lD = d \/ lD = d - M
        BY <3>1
      <4>3. d = la - lk \/ d = la - lk + M
        BY <3>1
      <4>4. (f = ly + lD \/ f = ly + lD - M) /\ (g = lx + la \/ g = lx + la - M)
        BY <3>1
      <4>5. f \in Int /\ g \in Int /\ d \in Int
        BY <3>1
      <4> HIDE DEF M
      <4>. QED BY <3>1, <3>2, <4>1, <4>2, <4>3, <4>4, <4>5
    <3>4. M = N - 1
      OBVIOUS
    <3> HIDE DEF M
    <3>. QED BY <3>1, <3>3, <3>4, Bounded
  <2>8. ALog[f] = ALog[g]
    BY <2>6, <2>7, SamePower
  <2>. QED BY <1>1, <1>4, <2>5, <2>8 DEF y
<1>. QED BY <1>5, <1>6

(***************************************************************************)
(* The random orders.  Each step of Turn is onto the sixteen cells.        *)
(***************************************************************************)
LEMMA SmallPowers == 2^0 = 1 /\ 2^1 = 2 /\ 2^2 = 4 /\ 2^3 = 8
  BY SMT

\* The four bits of a nibble.
LEMMA NibbleBits ==
    ASSUME NEW a \in Nibble
    PROVE  /\ Bit(a, 0) \in 0..1 /\ Bit(a, 1) \in 0..1 /\ Bit(a, 2) \in 0..1 /\ Bit(a, 3) \in 0..1
           /\ a = Bit(a, 0) + 2 * Bit(a, 1) + 4 * Bit(a, 2) + 8 * Bit(a, 3)
<1>1. /\ Bit(a, 0) = (a \div 1) % 2 /\ Bit(a, 1) = (a \div 2) % 2
      /\ Bit(a, 2) = (a \div 4) % 2 /\ Bit(a, 3) = (a \div 8) % 2
  BY SmallPowers DEF Bit
<1>2. a \in Int /\ 0 <= a /\ a <= 15
  BY DEF Nibble
<1>3. /\ Bit(a, 0) \in 0..1 /\ Bit(a, 1) \in 0..1
      /\ Bit(a, 2) \in 0..1 /\ Bit(a, 3) \in 0..1
  BY <1>1, <1>2
<1>4. a = ((a \div 1) % 2) + 2 * ((a \div 2) % 2) + 4 * ((a \div 4) % 2) + 8 * ((a \div 8) % 2)
  BY <1>2
<1>. QED BY <1>1, <1>3, <1>4

LEMMA BitsOfSum ==
    ASSUME NEW p \in 0..1, NEW q \in 0..1, NEW r \in 0..1, NEW s \in 0..1
    PROVE  LET a == p + 2 * q + 4 * r + 8 * s
           IN  /\ a \in Nibble
               /\ Bit(a, 0) = p /\ Bit(a, 1) = q /\ Bit(a, 2) = r /\ Bit(a, 3) = s
<1> DEFINE a == p + 2 * q + 4 * r + 8 * s
<1>1. a \in 0..15
  OBVIOUS
<1>2. (a \div 1) % 2 = p /\ (a \div 2) % 2 = q /\ (a \div 4) % 2 = r /\ (a \div 8) % 2 = s
  OBVIOUS
<1> HIDE DEF a
<1>3. Bit(a, 0) = p /\ Bit(a, 1) = q /\ Bit(a, 2) = r /\ Bit(a, 3) = s
  BY <1>2, SmallPowers DEF Bit
<1>. QED BY <1>1, <1>3 DEF Nibble, a

LEMMA NibbleXor ==
    ASSUME NEW a \in Nibble, NEW v \in Nibble
    PROVE  XorNibble[a][v] \in Nibble /\ XorNibble[XorNibble[a][v]][v] = a
<1> DEFINE Sum(x, y) == ((Bit(x, 0) + Bit(y, 0)) % 2) + 2 * ((Bit(x, 1) + Bit(y, 1)) % 2)
                          + 4 * ((Bit(x, 2) + Bit(y, 2)) % 2) + 8 * ((Bit(x, 3) + Bit(y, 3)) % 2)
<1>1. ASSUME NEW x \in Nibble, NEW y \in Nibble PROVE XorNibble[x][y] = Sum(x, y)
  <2>1. /\ Bit(x, 0) \in 0..1 /\ Bit(x, 1) \in 0..1 /\ Bit(x, 2) \in 0..1 /\ Bit(x, 3) \in 0..1
        /\ Bit(y, 0) \in 0..1 /\ Bit(y, 1) \in 0..1 /\ Bit(y, 2) \in 0..1 /\ Bit(y, 3) \in 0..1
    BY NibbleBits
  <2>2. XorNibble[x][y] = Flip(x, y, 0) + Flip(x, y, 1) + Flip(x, y, 2) + Flip(x, y, 3)
    BY DEF XorNibble
  <2>3. /\ Flip(x, y, 0) = ((Bit(x, 0) + Bit(y, 0)) % 2) * 1
        /\ Flip(x, y, 1) = ((Bit(x, 1) + Bit(y, 1)) % 2) * 2
        /\ Flip(x, y, 2) = ((Bit(x, 2) + Bit(y, 2)) % 2) * 4
        /\ Flip(x, y, 3) = ((Bit(x, 3) + Bit(y, 3)) % 2) * 8
    BY SmallPowers DEF Flip
  <2> DEFINE p == (Bit(x, 0) + Bit(y, 0)) % 2
             q == (Bit(x, 1) + Bit(y, 1)) % 2
             r == (Bit(x, 2) + Bit(y, 2)) % 2
             s == (Bit(x, 3) + Bit(y, 3)) % 2
  <2>4. p \in Int /\ q \in Int /\ r \in Int /\ s \in Int
    BY <2>1
  <2>5. XorNibble[x][y] = p * 1 + q * 2 + r * 4 + s * 8
    BY <2>2, <2>3
  <2> HIDE DEF p, q, r, s
  <2>6. p * 1 + q * 2 + r * 4 + s * 8 = p + 2 * q + 4 * r + 8 * s
    BY <2>4
  <2>. QED BY <2>5, <2>6 DEF p, q, r, s
<1> DEFINE x == XorNibble[a][v]
<1>2. /\ Bit(a, 0) \in 0..1 /\ Bit(a, 1) \in 0..1 /\ Bit(a, 2) \in 0..1 /\ Bit(a, 3) \in 0..1
      /\ Bit(v, 0) \in 0..1 /\ Bit(v, 1) \in 0..1 /\ Bit(v, 2) \in 0..1 /\ Bit(v, 3) \in 0..1
  BY NibbleBits
<1>3. x = Sum(a, v)
  BY <1>1
<1> HIDE DEF x
<1>4. /\ x \in Nibble
      /\ Bit(x, 0) = (Bit(a, 0) + Bit(v, 0)) % 2 /\ Bit(x, 1) = (Bit(a, 1) + Bit(v, 1)) % 2
      /\ Bit(x, 2) = (Bit(a, 2) + Bit(v, 2)) % 2 /\ Bit(x, 3) = (Bit(a, 3) + Bit(v, 3)) % 2
  <2> DEFINE p == (Bit(a, 0) + Bit(v, 0)) % 2
             q == (Bit(a, 1) + Bit(v, 1)) % 2
             r == (Bit(a, 2) + Bit(v, 2)) % 2
             s == (Bit(a, 3) + Bit(v, 3)) % 2
  <2>1. p \in 0..1 /\ q \in 0..1 /\ r \in 0..1 /\ s \in 0..1
    BY <1>2
  <2>2. x = p + 2 * q + 4 * r + 8 * s
    BY <1>3
  <2> HIDE DEF p, q, r, s
  <2>3. x \in Nibble /\ Bit(x, 0) = p /\ Bit(x, 1) = q /\ Bit(x, 2) = r /\ Bit(x, 3) = s
    BY <2>1, <2>2, BitsOfSum
  <2>. QED BY <2>3 DEF p, q, r, s
<1>5. /\ (Bit(x, 0) + Bit(v, 0)) % 2 = Bit(a, 0) /\ (Bit(x, 1) + Bit(v, 1)) % 2 = Bit(a, 1)
      /\ (Bit(x, 2) + Bit(v, 2)) % 2 = Bit(a, 2) /\ (Bit(x, 3) + Bit(v, 3)) % 2 = Bit(a, 3)
  BY <1>2, <1>4
<1>6. XorNibble[x][v] = Sum(x, v)
  BY <1>1, <1>4
<1>7. XorNibble[x][v] = a
  BY <1>5, <1>6, NibbleBits
<1>. QED BY <1>4, <1>7 DEF x

LEMMA PermOnto ==
    /\ \A x \in Nibble : permGFSixteen[x] \in Nibble
    /\ \A d \in Nibble : \E x \in Nibble : permGFSixteen[x] = d
<1> DEFINE p == permGFSixteen
<1>1. /\ p[0] = 12 /\ p[1] = 5 /\ p[2] = 6 /\ p[3] = 11 /\ p[4] = 9 /\ p[5] = 0
      /\ p[6] = 10 /\ p[7] = 13 /\ p[8] = 3 /\ p[9] = 14 /\ p[10] = 15 /\ p[11] = 8
      /\ p[12] = 4 /\ p[13] = 7 /\ p[14] = 1 /\ p[15] = 2
  BY DEF permGFSixteen, Nibble
<1>2. \A x \in Nibble : \/ x = 0 \/ x = 1 \/ x = 2 \/ x = 3 \/ x = 4 \/ x = 5 \/ x = 6 \/ x = 7
                        \/ x = 8 \/ x = 9 \/ x = 10 \/ x = 11 \/ x = 12 \/ x = 13 \/ x = 14 \/ x = 15
  BY DEF Nibble
<1> HIDE DEF p
<1>3. \A x \in Nibble : p[x] \in Nibble
  BY <1>1, <1>2 DEF Nibble
<1>4. \A d \in Nibble : \E x \in Nibble : p[x] = d
  <2>1. /\ 0 \in Nibble /\ 1 \in Nibble /\ 2 \in Nibble /\ 3 \in Nibble /\ 4 \in Nibble /\ 5 \in Nibble
        /\ 6 \in Nibble /\ 7 \in Nibble /\ 8 \in Nibble /\ 9 \in Nibble /\ 10 \in Nibble /\ 11 \in Nibble
        /\ 12 \in Nibble /\ 13 \in Nibble /\ 14 \in Nibble /\ 15 \in Nibble
    BY DEF Nibble
  <2>. QED BY <1>1, <1>2, <2>1
<1>. QED BY <1>3, <1>4 DEF p

\* One of the four steps of Turn.
Stir(v, x) == permGFSixteen[XorNibble[x][v]]

LEMMA StirOnto ==
    ASSUME NEW v \in Nibble
    PROVE  /\ \A x \in Nibble : Stir(v, x) \in Nibble
           /\ \A d \in Nibble : \E x \in Nibble : Stir(v, x) = d
<1>1. ASSUME NEW d \in Nibble PROVE \E x \in Nibble : Stir(v, x) = d
  <2>1. PICK y \in Nibble : permGFSixteen[y] = d
    BY PermOnto
  <2>2. XorNibble[y][v] \in Nibble /\ XorNibble[XorNibble[y][v]][v] = y
    BY NibbleXor
  <2>. QED BY <2>1, <2>2 DEF Stir
<1>. QED BY <1>1, NibbleXor, PermOnto DEF Stir

LEMMA TurnOnto ==
    ASSUME NEW T, \A k \in 0..3 : T[k] \in Nat
    PROVE  /\ \A x \in Nibble : Turn(T, x) \in Nibble
           /\ \A d \in Nibble : \E x \in Nibble : Turn(T, x) = d
<1>1. /\ T[0] % 16 \in Nibble /\ T[1] % 16 \in Nibble /\ T[2] % 16 \in Nibble /\ T[3] % 16 \in Nibble
  <2>1. T[0] \in Nat /\ T[1] \in Nat /\ T[2] \in Nat /\ T[3] \in Nat
    OBVIOUS
  <2>. QED BY <2>1 DEF Nibble
<1>2. \A x : Turn(T, x) = Stir(T[3] % 16, Stir(T[2] % 16, Stir(T[1] % 16, Stir(T[0] % 16, x))))
  BY DEF Turn, Stir
<1>3. ASSUME NEW d \in Nibble PROVE \E x \in Nibble : Turn(T, x) = d
  <2>1. PICK x3 \in Nibble : Stir(T[3] % 16, x3) = d
    BY <1>1, StirOnto
  <2>2. PICK x2 \in Nibble : Stir(T[2] % 16, x2) = x3
    BY <1>1, StirOnto
  <2>3. PICK x1 \in Nibble : Stir(T[1] % 16, x1) = x2
    BY <1>1, StirOnto
  <2>4. PICK x0 \in Nibble : Stir(T[0] % 16, x0) = x1
    BY <1>1, StirOnto
  <2>. QED BY <1>2, <2>1, <2>2, <2>3, <2>4
<1>. QED BY <1>1, <1>2, <1>3, StirOnto

\* For every four bytes, the loops over the cells and over the columns reach each one.
LEMMA OrdersReachAll ==
    ASSUME NEW T, \A k \in 0..3 : T[k] \in Nat
    PROVE  /\ Reached(permIndices(T)) = Cells /\ Reached(permIndicesBis(T)) = Cells
           /\ permIndices(T) \in [Cells -> Cells] /\ permIndicesBis(T) \in [Cells -> Cells]
           /\ \A c \in Cells : (\E i \in DOMAIN permIndices(T) : permIndices(T)[i] = c)
           /\ \A c \in Cells : (\E i \in DOMAIN permIndicesBis(T) : permIndicesBis(T)[i] = c)
<1>1. Nibble = Cells
  BY DEF Nibble, Cells
<1>2. /\ \A x \in Nibble : Turn(T, x) \in Nibble
      /\ \A d \in Nibble : \E x \in Nibble : Turn(T, x) = d
  BY TurnOnto
<1>3. ASSUME NEW d \in Nibble PROVE \E x \in Nibble : Turn(T, Turn(T, x)) = d
  <2>1. PICK y \in Nibble : Turn(T, y) = d
    BY <1>2
  <2>2. PICK x \in Nibble : Turn(T, x) = y
    BY <1>2
  <2>. QED BY <2>1, <2>2
<1> DEFINE p == permIndices(T)
           q == permIndicesBis(T)
<1>4. p \in [Nibble -> Nibble] /\ \A d \in Nibble : \E i \in Nibble : p[i] = d
  BY <1>2 DEF permIndices
<1>5. q \in [Nibble -> Nibble] /\ \A d \in Nibble : \E i \in Nibble : q[i] = d
  BY <1>2, <1>3 DEF permIndicesBis
<1> HIDE DEF p, q
<1>6. Reached(p) = Nibble /\ Reached(q) = Nibble
  BY <1>4, <1>5 DEF Reached
<1>. QED BY <1>1, <1>4, <1>5, <1>6 DEF p, q

LEMMA ColumnsReachAll ==
    ASSUME NEW b \in Nat
    PROVE  Reached(permIndicesMC(b)) = 0..3
<1> DEFINE v == b % 4
           p == permIndicesMC(b)
<1>1. v \in 0..3 /\ v \in Nibble /\ \A i \in 0..3 : i \in Nibble
  BY DEF Nibble
<1> HIDE DEF v
<1>2. ASSUME NEW i \in 0..3 PROVE XorNibble[i][v] \in 0..3
  <2>1. XorNibble[i][v] = Flip(i, v, 0) + Flip(i, v, 1) + Flip(i, v, 2) + Flip(i, v, 3)
    BY <1>1 DEF XorNibble
  <2>2. /\ Bit(i, 2) = 0 /\ Bit(v, 2) = 0 /\ Bit(i, 3) = 0 /\ Bit(v, 3) = 0
    BY <1>1, SmallPowers DEF Bit
  <2>3. Bit(i, 0) \in 0..1 /\ Bit(v, 0) \in 0..1 /\ Bit(i, 1) \in 0..1 /\ Bit(v, 1) \in 0..1
    BY <1>1, NibbleBits
  <2>4. Flip(i, v, 2) = 0 /\ Flip(i, v, 3) = 0
    BY <2>2, SmallPowers DEF Flip
  <2>5. Flip(i, v, 0) = ((Bit(i, 0) + Bit(v, 0)) % 2) * 1 /\ Flip(i, v, 1) = ((Bit(i, 1) + Bit(v, 1)) % 2) * 2
    BY SmallPowers DEF Flip
  <2> DEFINE m == (Bit(i, 0) + Bit(v, 0)) % 2
             n == (Bit(i, 1) + Bit(v, 1)) % 2
  <2>6. m \in 0..1 /\ n \in 0..1
    BY <2>3
  <2>7. XorNibble[i][v] = m * 1 + n * 2 + 0 + 0
    BY <2>1, <2>4, <2>5
  <2> HIDE DEF m, n
  <2>8. m * 1 + n * 2 + 0 + 0 \in 0..3
    BY <2>6
  <2>. QED BY <2>7, <2>8
<1>3. p = [i \in 0..3 |-> XorNibble[i][v]]
  BY DEF permIndicesMC, v
<1>4. ASSUME NEW d \in 0..3 PROVE \E i \in 0..3 : p[i] = d
  <2>1. XorNibble[d][v] \in 0..3 /\ XorNibble[XorNibble[d][v]][v] = d
    BY <1>1, <1>2, NibbleXor
  <2>. QED BY <1>3, <2>1
<1>5. p \in [0..3 -> 0..3]
  BY <1>2, <1>3
<1> HIDE DEF p
<1>. QED BY <1>4, <1>5 DEF Reached, p

(***************************************************************************)
(* MixColumns, byte by byte.                                               *)
(***************************************************************************)
LEMMA Times ==
    ASSUME NEW x \in Byte, NEW y \in Byte
    PROVE  /\ Times2(x) \in Byte /\ Times4(x) \in Byte /\ Times8(x) \in Byte
           /\ Times2(Xor(x, y)) = Xor(Times2(x), Times2(y))
           /\ Times4(Xor(x, y)) = Xor(Times4(x), Times4(y))
           /\ Times8(Xor(x, y)) = Xor(Times8(x), Times8(y))
           /\ Fourtime[x] = Times4(x) /\ Eighttime[x] = Times8(x)
<1>1. \A z \in Byte : Xtime[z] \in Byte
  BY TableAssumption
<1>2. \A u, v \in Byte : Xtime[Xor(u, v)] = Xor(Xtime[u], Xtime[v])
  BY TableAssumption
<1>3. Fourtime[x] = Times4(x) /\ Eighttime[x] = Times8(x)
  BY TimesAssumption
<1>. QED BY <1>1, <1>2, <1>3 DEF Times2, Times4, Times8

\* The multiplier commutes with doubling.
Factor(G) == Linear(G) /\ \A x \in Byte : Xtime[G[x]] = G[Xtime[x]]

LEMMA FactorTimes ==
    ASSUME NEW G, Factor(G), NEW x \in Byte
    PROVE  /\ G[x] \in Byte
           /\ Times2(G[x]) = G[Times2(x)] /\ Times4(G[x]) = G[Times4(x)] /\ Times8(G[x]) = G[Times8(x)]
<1>1. \A z \in Byte : G[z] \in Byte /\ Xtime[G[z]] = G[Xtime[z]] /\ Xtime[z] \in Byte
  BY TableAssumption DEF Factor, Linear
<1>. QED BY <1>1 DEF Times2, Times4, Times8

LEMMA Xor4Type ==
    ASSUME NEW p \in Byte, NEW q \in Byte, NEW r \in Byte, NEW s \in Byte
    PROVE  Xor4(p, q, r, s) \in Byte
  BY XorType DEF Xor4

LEMMA Xor4Bits ==
    ASSUME NEW p \in Byte, NEW q \in Byte, NEW r \in Byte, NEW s \in Byte, NEW i \in 0..(Width - 1)
    PROVE  Odd(Xor4(p, q, r, s), i)
             <=> ~((~(Odd(p, i) <=> Odd(q, i))) <=> (~(Odd(r, i) <=> Odd(s, i))))
<1>1. Xor(p, q) \in Byte /\ Xor(r, s) \in Byte
  BY XorType
<1>2. /\ Odd(Xor(p, q), i) <=> ~(Odd(p, i) <=> Odd(q, i))
      /\ Odd(Xor(r, s), i) <=> ~(Odd(r, i) <=> Odd(s, i))
  BY XorBits
<1>3. Odd(Xor4(p, q, r, s), i) <=> ~(Odd(Xor(p, q), i) <=> Odd(Xor(r, s), i))
  BY <1>1, XorBits DEF Xor4
<1>. QED BY <1>2, <1>3

LEMMA FactorXor4 ==
    ASSUME NEW G, Linear(G), NEW p \in Byte, NEW q \in Byte, NEW r \in Byte, NEW s \in Byte
    PROVE  G[Xor4(p, q, r, s)] = Xor4(G[p], G[q], G[r], G[s])
<1>1. Xor(p, q) \in Byte /\ Xor(r, s) \in Byte
  BY XorType
<1>. QED BY <1>1 DEF Xor4, Linear

\* One byte of MixColumns and of InvMixColumns, from a column read downwards.
MixByte(p, q, r, s) == Xor4(Times2(p), Xor(Times2(q), q), r, s)
TimesE(x) == Xor(Times8(x), Xor(Times4(x), Times2(x)))
TimesB(x) == Xor(Times8(x), Xor(Times2(x), x))
TimesD(x) == Xor(Times8(x), Xor(Times4(x), x))
Times9(x) == Xor(Times8(x), x)
InvMixByte(p, q, r, s) == Xor4(TimesE(p), TimesB(q), TimesD(r), Times9(s))

LEMMA CoefficientType ==
    ASSUME NEW x \in Byte
    PROVE  TimesE(x) \in Byte /\ TimesB(x) \in Byte /\ TimesD(x) \in Byte /\ Times9(x) \in Byte
  BY Times, XorType DEF TimesE, TimesB, TimesD, Times9

LEMMA CoefficientLinear ==
    ASSUME NEW x \in Byte, NEW y \in Byte
    PROVE  /\ TimesE(Xor(x, y)) = Xor(TimesE(x), TimesE(y))
           /\ TimesB(Xor(x, y)) = Xor(TimesB(x), TimesB(y))
           /\ TimesD(Xor(x, y)) = Xor(TimesD(x), TimesD(y))
           /\ Times9(Xor(x, y)) = Xor(Times9(x), Times9(y))
<1>1. /\ Times2(x) \in Byte /\ Times4(x) \in Byte /\ Times8(x) \in Byte
      /\ Times2(y) \in Byte /\ Times4(y) \in Byte /\ Times8(y) \in Byte
      /\ Times2(Xor(x, y)) = Xor(Times2(x), Times2(y))
      /\ Times4(Xor(x, y)) = Xor(Times4(x), Times4(y))
      /\ Times8(Xor(x, y)) = Xor(Times8(x), Times8(y))
  BY Times
<1>2. \A a, b, c, d \in Byte : /\ Xor(a, b) \in Byte
                               /\ Xor(Xor(a, b), Xor(c, d)) = Xor(Xor(a, c), Xor(b, d))
  BY XorType, XorMedial
<1>3. TimesE(Xor(x, y)) = Xor(TimesE(x), TimesE(y))
  BY <1>1, <1>2 DEF TimesE
<1>4. TimesB(Xor(x, y)) = Xor(TimesB(x), TimesB(y))
  BY <1>1, <1>2 DEF TimesB
<1>5. TimesD(Xor(x, y)) = Xor(TimesD(x), TimesD(y))
  BY <1>1, <1>2 DEF TimesD
<1>6. Times9(Xor(x, y)) = Xor(Times9(x), Times9(y))
  BY <1>1, <1>2 DEF Times9
<1>. QED BY <1>3, <1>4, <1>5, <1>6

LEMMA CoefficientFactor ==
    ASSUME NEW G, Factor(G), NEW x \in Byte
    PROVE  /\ TimesE(G[x]) = G[TimesE(x)] /\ TimesB(G[x]) = G[TimesB(x)]
           /\ TimesD(G[x]) = G[TimesD(x)] /\ Times9(G[x]) = G[Times9(x)]
<1>1. /\ Times2(G[x]) = G[Times2(x)] /\ Times4(G[x]) = G[Times4(x)] /\ Times8(G[x]) = G[Times8(x)]
      /\ Times2(x) \in Byte /\ Times4(x) \in Byte /\ Times8(x) \in Byte
  BY FactorTimes, Times
<1>2. \A u, v \in Byte : Xor(u, v) \in Byte /\ G[Xor(u, v)] = Xor(G[u], G[v])
  BY XorType DEF Factor, Linear
<1>. QED BY <1>1, <1>2 DEF TimesE, TimesB, TimesD, Times9

\* The subroutine doubles the sum of two bytes instead of each.
LEMMA MaskedMixByte ==
    ASSUME NEW p \in Byte, NEW q \in Byte, NEW r \in Byte, NEW s \in Byte
    PROVE  /\ Xor(Xor(Xtime[Xor(p, q)], p), Xor4(p, q, r, s)) = MixByte(p, q, r, s)
           /\ MixByte(p, q, r, s) \in Byte
<1> DEFINE x == Times2(p)
           y == Times2(q)
           left == Xor(Xor(Xor(x, y), p), Xor4(p, q, r, s))
           right == Xor4(x, Xor(y, q), r, s)
<1>1. x \in Byte /\ y \in Byte /\ Xtime[Xor(p, q)] = Xor(x, y)
  BY Times DEF Times2
<1> HIDE DEF x, y
<1>2. /\ Xor(x, y) \in Byte /\ Xor(Xor(x, y), p) \in Byte /\ Xor4(p, q, r, s) \in Byte
      /\ Xor(y, q) \in Byte /\ left \in Byte /\ right \in Byte
  BY <1>1, XorType, Xor4Type
<1>3. ASSUME NEW i \in 0..(Width - 1) PROVE Odd(left, i) <=> Odd(right, i)
  <2>1. Odd(left, i) <=> ~(~(~(Odd(x, i) <=> Odd(y, i)) <=> Odd(p, i)) <=> Odd(Xor4(p, q, r, s), i))
    BY <1>1, <1>2, XorBits
  <2>2. Odd(right, i) <=> ~((~(Odd(x, i) <=> Odd(Xor(y, q), i))) <=> (~(Odd(r, i) <=> Odd(s, i))))
    BY <1>1, <1>2, Xor4Bits
  <2>3. Odd(Xor4(p, q, r, s), i) <=> ~((~(Odd(p, i) <=> Odd(q, i))) <=> (~(Odd(r, i) <=> Odd(s, i))))
    BY Xor4Bits
  <2>4. Odd(Xor(y, q), i) <=> ~(Odd(y, i) <=> Odd(q, i))
    BY <1>1, XorBits
  <2>. QED BY <2>1, <2>2, <2>3, <2>4
<1>4. left = right
  <2> HIDE DEF left, right
  <2>. QED BY <1>2, <1>3, SameBits
<1>. QED BY <1>1, <1>2, <1>4 DEF MixByte, x, y

\* InvMixColumns is MixColumns and the second part.
LEMMA Part2Byte ==
    ASSUME NEW p \in Byte, NEW q \in Byte, NEW r \in Byte, NEW s \in Byte
    PROVE  LET second == Xor(Fourtime[Xor(p, r)], Eighttime[Xor4(p, q, r, s)])
           IN  second \in Byte /\ Xor(MixByte(p, q, r, s), second) = InvMixByte(p, q, r, s)
<1> DEFINE p2 == Times2(p)
           p4 == Times4(p)
           p8 == Times8(p)
           q2 == Times2(q)
           q8 == Times8(q)
           r4 == Times4(r)
           r8 == Times8(r)
           s8 == Times8(s)
           mix == Xor4(p2, Xor(q2, q), r, s)
           second == Xor(Xor(p4, r4), Xor4(p8, q8, r8, s8))
           sum == Xor(mix, second)
           ep == Xor(p8, Xor(p4, p2))
           bq == Xor(q8, Xor(q2, q))
           dr == Xor(r8, Xor(r4, r))
           ns == Xor(s8, s)
           inv == Xor4(ep, bq, dr, ns)
<1>1. /\ p2 \in Byte /\ p4 \in Byte /\ p8 \in Byte /\ q2 \in Byte /\ q8 \in Byte
      /\ r4 \in Byte /\ r8 \in Byte /\ s8 \in Byte
  BY Times
<1>2. Fourtime[Xor(p, r)] = Xor(p4, r4)
  <2>1. Xor(p, r) \in Byte
    BY XorType
  <2>2. Fourtime[Xor(p, r)] = Times4(Xor(p, r))
    BY <2>1, Times
  <2>. QED BY <2>2, Times
<1>3. Eighttime[Xor4(p, q, r, s)] = Xor4(p8, q8, r8, s8)
  <2>1. Xor(p, q) \in Byte /\ Xor(r, s) \in Byte /\ Xor4(p, q, r, s) \in Byte
    BY XorType, Xor4Type
  <2>2. Eighttime[Xor4(p, q, r, s)] = Times8(Xor4(p, q, r, s))
    BY <2>1, Times
  <2>3. Times8(Xor4(p, q, r, s)) = Xor(Times8(Xor(p, q)), Times8(Xor(r, s)))
    BY <2>1, Times DEF Xor4
  <2>4. Times8(Xor(p, q)) = Xor(p8, q8) /\ Times8(Xor(r, s)) = Xor(r8, s8)
    BY Times
  <2>. QED BY <2>2, <2>3, <2>4 DEF Xor4
<1> HIDE DEF p2, p4, p8, q2, q8, r4, r8, s8
<1>4. /\ Xor(q2, q) \in Byte /\ mix \in Byte /\ Xor(p4, r4) \in Byte /\ Xor4(p8, q8, r8, s8) \in Byte
      /\ Xor(p4, p2) \in Byte /\ Xor(r4, r) \in Byte
  BY <1>1, XorType, Xor4Type
<1>5. second \in Byte /\ ep \in Byte /\ bq \in Byte /\ dr \in Byte /\ ns \in Byte
  BY <1>1, <1>4, XorType
<1>6. sum \in Byte /\ inv \in Byte
  BY <1>4, <1>5, XorType, Xor4Type
<1>7. ASSUME NEW i \in 0..(Width - 1) PROVE Odd(sum, i) <=> Odd(inv, i)
  <2>1. Odd(sum, i) <=> ~(Odd(mix, i) <=> Odd(second, i))
    <3> HIDE DEF mix, second
    <3>. QED BY <1>4, <1>5, XorBits
  <2>2. Odd(second, i) <=> ~(~(Odd(p4, i) <=> Odd(r4, i)) <=> Odd(Xor4(p8, q8, r8, s8), i))
    BY <1>1, <1>4, XorBits
  <2>3. Odd(Xor4(p8, q8, r8, s8), i)
          <=> ~((~(Odd(p8, i) <=> Odd(q8, i))) <=> (~(Odd(r8, i) <=> Odd(s8, i))))
    BY <1>1, Xor4Bits
  <2>4. Odd(mix, i) <=> ~((~(Odd(p2, i) <=> Odd(Xor(q2, q), i))) <=> (~(Odd(r, i) <=> Odd(s, i))))
    <3> DEFINE qq == Xor(q2, q)
    <3>1. qq \in Byte
      BY <1>4
    <3> HIDE DEF qq
    <3>2. Odd(Xor4(p2, qq, r, s), i) <=> ~((~(Odd(p2, i) <=> Odd(qq, i))) <=> (~(Odd(r, i) <=> Odd(s, i))))
      BY <1>1, <3>1, Xor4Bits
    <3>. QED BY <3>2 DEF qq
  <2>5. Odd(Xor(q2, q), i) <=> ~(Odd(q2, i) <=> Odd(q, i))
    BY <1>1, XorBits
  <2>6. Odd(inv, i) <=> ~((~(Odd(ep, i) <=> Odd(bq, i))) <=> (~(Odd(dr, i) <=> Odd(ns, i))))
    <3> HIDE DEF ep, bq, dr, ns
    <3>. QED BY <1>5, Xor4Bits
  <2>7. Odd(ep, i) <=> ~(Odd(p8, i) <=> ~(Odd(p4, i) <=> Odd(p2, i)))
    BY <1>1, <1>4, XorBits
  <2>8. Odd(bq, i) <=> ~(Odd(q8, i) <=> ~(Odd(q2, i) <=> Odd(q, i)))
    BY <1>1, <1>4, XorBits
  <2>9. Odd(dr, i) <=> ~(Odd(r8, i) <=> ~(Odd(r4, i) <=> Odd(r, i)))
    BY <1>1, <1>4, XorBits
  <2>10. Odd(ns, i) <=> ~(Odd(s8, i) <=> Odd(s, i))
    BY <1>1, XorBits
  <2> HIDE DEF sum, inv, mix, second, ep, bq, dr, ns
  <2>. QED BY <2>1, <2>2, <2>3, <2>4, <2>5, <2>6, <2>7, <2>8, <2>9, <2>10
<1>8. sum = inv
  <2> HIDE DEF sum, inv
  <2>. QED BY <1>6, <1>7, SameBits
<1>9. mix = MixByte(p, q, r, s) /\ inv = InvMixByte(p, q, r, s)
  BY DEF MixByte, InvMixByte, TimesE, TimesB, TimesD, Times9, p2, p4, p8, q2, q8, r4, r8, s8
<1>. QED BY <1>2, <1>3, <1>5, <1>8, <1>9

LEMMA MixByteLinear ==
    ASSUME NEW x \in [0..3 -> Byte], NEW y \in [0..3 -> Byte]
    PROVE  /\ MixByte(Xor(x[0], y[0]), Xor(x[1], y[1]), Xor(x[2], y[2]), Xor(x[3], y[3]))
                = Xor(MixByte(x[0], x[1], x[2], x[3]), MixByte(y[0], y[1], y[2], y[3]))
           /\ InvMixByte(Xor(x[0], y[0]), Xor(x[1], y[1]), Xor(x[2], y[2]), Xor(x[3], y[3]))
                = Xor(InvMixByte(x[0], x[1], x[2], x[3]), InvMixByte(y[0], y[1], y[2], y[3]))
<1> DEFINE p == x[0]
           q == x[1]
           r == x[2]
           s == x[3]
           t == y[0]
           u == y[1]
           v == y[2]
           w == y[3]
<1>0. /\ p \in Byte /\ q \in Byte /\ r \in Byte /\ s \in Byte
      /\ t \in Byte /\ u \in Byte /\ v \in Byte /\ w \in Byte
  OBVIOUS
<1> HIDE DEF p, q, r, s, t, u, v, w
<1>1. /\ Times2(p) \in Byte /\ Times2(q) \in Byte /\ Times2(t) \in Byte /\ Times2(u) \in Byte
      /\ Xor(Times2(q), q) \in Byte /\ Xor(Times2(u), u) \in Byte
  BY <1>0, Times, XorType
<1>2. /\ Times2(Xor(p, t)) = Xor(Times2(p), Times2(t))
      /\ Xor(Times2(Xor(q, u)), Xor(q, u)) = Xor(Xor(Times2(q), q), Xor(Times2(u), u))
  <2>1. Times2(Xor(p, t)) = Xor(Times2(p), Times2(t)) /\ Times2(Xor(q, u)) = Xor(Times2(q), Times2(u))
    BY <1>0, Times
  <2>. QED BY <1>0, <1>1, <2>1, XorMedial
<1>3. MixByte(Xor(p, t), Xor(q, u), Xor(r, v), Xor(s, w))
        = Xor(MixByte(p, q, r, s), MixByte(t, u, v, w))
  <2> DEFINE a == Times2(p)
             b == Times2(t)
             c == Xor(Times2(q), q)
             d == Xor(Times2(u), u)
  <2>1. a \in Byte /\ b \in Byte /\ c \in Byte /\ d \in Byte
    BY <1>1
  <2>2. MixByte(Xor(p, t), Xor(q, u), Xor(r, v), Xor(s, w))
          = Xor4(Xor(a, b), Xor(c, d), Xor(r, v), Xor(s, w))
    BY <1>2 DEF MixByte
  <2>3. MixByte(p, q, r, s) = Xor4(a, c, r, s) /\ MixByte(t, u, v, w) = Xor4(b, d, v, w)
    BY DEF MixByte
  <2> HIDE DEF a, b, c, d
  <2>4. Xor4(Xor(a, b), Xor(c, d), Xor(r, v), Xor(s, w)) = Xor(Xor4(a, c, r, s), Xor4(b, d, v, w))
    <3>1. /\ Xor(a, b) \in Byte /\ Xor(c, d) \in Byte /\ Xor(r, v) \in Byte /\ Xor(s, w) \in Byte
          /\ Xor(a, c) \in Byte /\ Xor(r, s) \in Byte /\ Xor(b, d) \in Byte /\ Xor(v, w) \in Byte
      BY <1>0, <2>1, XorType
    <3>2. /\ Xor(Xor(a, b), Xor(c, d)) = Xor(Xor(a, c), Xor(b, d))
          /\ Xor(Xor(r, v), Xor(s, w)) = Xor(Xor(r, s), Xor(v, w))
      BY <1>0, <2>1, XorMedial
    <3>3. Xor(Xor(Xor(a, c), Xor(b, d)), Xor(Xor(r, s), Xor(v, w)))
            = Xor(Xor(Xor(a, c), Xor(r, s)), Xor(Xor(b, d), Xor(v, w)))
      BY <3>1, XorMedial
    <3>. QED BY <3>2, <3>3 DEF Xor4
  <2>. QED BY <2>2, <2>3, <2>4
<1>4. /\ TimesE(p) \in Byte /\ TimesB(q) \in Byte /\ TimesD(r) \in Byte /\ Times9(s) \in Byte
      /\ TimesE(t) \in Byte /\ TimesB(u) \in Byte /\ TimesD(v) \in Byte /\ Times9(w) \in Byte
  BY <1>0, CoefficientType
<1>5. /\ TimesE(Xor(p, t)) = Xor(TimesE(p), TimesE(t)) /\ TimesB(Xor(q, u)) = Xor(TimesB(q), TimesB(u))
      /\ TimesD(Xor(r, v)) = Xor(TimesD(r), TimesD(v)) /\ Times9(Xor(s, w)) = Xor(Times9(s), Times9(w))
  BY <1>0, CoefficientLinear
<1>6. InvMixByte(Xor(p, t), Xor(q, u), Xor(r, v), Xor(s, w))
        = Xor(InvMixByte(p, q, r, s), InvMixByte(t, u, v, w))
  <2> DEFINE a == TimesE(p)
             b == TimesB(q)
             c == TimesD(r)
             d == Times9(s)
             e == TimesE(t)
             f == TimesB(u)
             g == TimesD(v)
             h == Times9(w)
  <2>1. InvMixByte(Xor(p, t), Xor(q, u), Xor(r, v), Xor(s, w))
          = Xor4(Xor(a, e), Xor(b, f), Xor(c, g), Xor(d, h))
    BY <1>5 DEF InvMixByte
  <2>2. InvMixByte(p, q, r, s) = Xor4(a, b, c, d) /\ InvMixByte(t, u, v, w) = Xor4(e, f, g, h)
    BY DEF InvMixByte
  <2>3. /\ a \in Byte /\ b \in Byte /\ c \in Byte /\ d \in Byte
        /\ e \in Byte /\ f \in Byte /\ g \in Byte /\ h \in Byte
    BY <1>4
  <2> HIDE DEF a, b, c, d, e, f, g, h
  <2>4. Xor4(Xor(a, e), Xor(b, f), Xor(c, g), Xor(d, h)) = Xor(Xor4(a, b, c, d), Xor4(e, f, g, h))
    <3>1. /\ Xor(a, e) \in Byte /\ Xor(b, f) \in Byte /\ Xor(c, g) \in Byte /\ Xor(d, h) \in Byte
          /\ Xor(a, b) \in Byte /\ Xor(c, d) \in Byte /\ Xor(e, f) \in Byte /\ Xor(g, h) \in Byte
      BY <2>3, XorType
    <3>2. /\ Xor(Xor(a, e), Xor(b, f)) = Xor(Xor(a, b), Xor(e, f))
          /\ Xor(Xor(c, g), Xor(d, h)) = Xor(Xor(c, d), Xor(g, h))
      BY <2>3, XorMedial
    <3>3. Xor(Xor(Xor(a, b), Xor(e, f)), Xor(Xor(c, d), Xor(g, h)))
            = Xor(Xor(Xor(a, b), Xor(c, d)), Xor(Xor(e, f), Xor(g, h)))
      BY <3>1, XorMedial
    <3>. QED BY <3>2, <3>3 DEF Xor4
  <2>. QED BY <2>1, <2>2, <2>4
<1>. QED BY <1>3, <1>6 DEF p, q, r, s, t, u, v, w

LEMMA MixByteFactor ==
    ASSUME NEW G, Factor(G), NEW p \in Byte, NEW q \in Byte, NEW r \in Byte, NEW s \in Byte
    PROVE  /\ MixByte(G[p], G[q], G[r], G[s]) = G[MixByte(p, q, r, s)]
           /\ InvMixByte(G[p], G[q], G[r], G[s]) = G[InvMixByte(p, q, r, s)]
           /\ MixByte(p, q, r, s) \in Byte /\ InvMixByte(p, q, r, s) \in Byte
<1>0. Linear(G)
  BY DEF Factor
<1>1. Times2(p) \in Byte /\ Times2(q) \in Byte /\ Xor(Times2(q), q) \in Byte
  BY Times, XorType
<1>2. Times2(G[p]) = G[Times2(p)] /\ Xor(Times2(G[q]), G[q]) = G[Xor(Times2(q), q)]
  BY <1>1, FactorTimes DEF Factor, Linear
<1>3. MixByte(G[p], G[q], G[r], G[s]) = G[MixByte(p, q, r, s)]
  BY <1>0, <1>1, <1>2, FactorXor4 DEF MixByte
<1>4. TimesE(p) \in Byte /\ TimesB(q) \in Byte /\ TimesD(r) \in Byte /\ Times9(s) \in Byte
  BY CoefficientType
<1>5. InvMixByte(G[p], G[q], G[r], G[s]) = G[InvMixByte(p, q, r, s)]
  BY <1>0, <1>4, CoefficientFactor, FactorXor4 DEF InvMixByte
<1>6. MixByte(p, q, r, s) \in Byte /\ InvMixByte(p, q, r, s) \in Byte
  BY <1>1, <1>4, Xor4Type DEF MixByte, InvMixByte
<1>. QED BY <1>3, <1>5, <1>6

(***************************************************************************)
(* Blocks.  Masked(G, a, m, p): the block a, with the masks m, stands for  *)
(* the clear block p under the multiplier G.                               *)
(***************************************************************************)
LEMMA CellFacts ==
    ASSUME NEW c \in Cells
    PROVE  /\ Col(c) \in 0..3 /\ Row(c) \in 0..3 /\ c = 4 * Col(c) + Row(c) /\ c \in Nat
           /\ \A i \in 0..3 : 4 * Col(c) + ((Row(c) + i) % 4) \in Cells
           /\ 4 * ((Col(c) + Row(c)) % 4) + Row(c) \in Cells
           /\ 4 * ((Col(c) + 4 - Row(c)) % 4) + Row(c) \in Cells
  BY DEF Cells, Col, Row

LEMMA WordCells ==
    ASSUME NEW r \in 0..3
    PROVE  r \in Cells /\ 4 + r \in Cells /\ 8 + r \in Cells /\ 12 + r \in Cells
           /\ (r + 1) % 4 \in 0..3 /\ 12 + ((r + 1) % 4) \in Cells
  BY DEF Cells

LEMMA BelowType ==
    ASSUME NEW a \in Block, NEW c \in Cells, NEW i \in 0..3
    PROVE  Below(a, c, i) \in Byte
  BY CellFacts DEF Below, Block

LEMMA SameBlock ==
    ASSUME NEW a \in Block, NEW b \in Block, \A c \in Cells : a[c] = b[c]
    PROVE  a = b
  BY DEF Block

Masked(G, a, m, p) ==
  /\ a \in Block /\ m \in Block /\ p \in Block
  /\ \A c \in Cells : Xor(a[c], m[c]) = G[p[c]]

LEMMA XorsType ==
    ASSUME NEW a \in Block, NEW b \in Block
    PROVE  Xors(a, b) \in Block
  BY XorType DEF Xors, Block

LEMMA MapType ==
    ASSUME NEW f \in [Byte -> Byte], NEW a \in Block
    PROVE  Map(f, a) \in Block
  BY DEF Map, Block

LEMMA XorAllType ==
    ASSUME NEW a \in Block, NEW b \in Byte
    PROVE  XorAll(a, b) \in Block /\ XorAll(XorAll(a, b), b) = a
<1>1. \A c \in Cells : a[c] \in Byte /\ Xor(a[c], b) \in Byte /\ Xor(Xor(a[c], b), b) = a[c]
  BY XorType, XorCancel DEF Block
<1>2. XorAll(a, b) \in Block
  BY <1>1 DEF XorAll, Block
<1>3. XorAll(XorAll(a, b), b) \in Block
  BY <1>1 DEF XorAll, Block
<1>4. \A c \in Cells : XorAll(XorAll(a, b), b)[c] = a[c]
  BY <1>1 DEF XorAll
<1>. QED BY <1>2, <1>3, <1>4, SameBlock

(***************************************************************************)
(* Unmasking undoes masking, and a masked block stands for what unmasking  *)
(* makes of it.                                                            *)
(***************************************************************************)
LEMMA ClearCell ==
    ASSUME NEW r \in Byte, NEW a, NEW m, NEW c \in Cells
    PROVE  Clear(r, a, m)[c] = Undo(r, Xor(a[c], m[c]))
  BY DEF Clear, Multiplicative_unmasking, Xors, Undo

LEMMA ClearMasked ==
    ASSUME NEW r \in Byte, NEW a \in Block, NEW m \in Block
    PROVE  Masked(Compute_GTab(r), a, m, Clear(r, a, m))
<1>1. \A c \in Cells : Xor(a[c], m[c]) \in Byte
  BY XorType DEF Block
<1>2. \A c \in Cells : /\ Clear(r, a, m)[c] \in Byte
                       /\ Compute_GTab(r)[Clear(r, a, m)[c]] = Xor(a[c], m[c])
  BY <1>1, ClearCell, ProductUndo
<1>3. Clear(r, a, m) \in Block
  <2>1. Clear(r, a, m) = [c \in Cells |-> Clear(r, a, m)[c]]
    BY DEF Clear, Multiplicative_unmasking
  <2>. QED BY <1>2, <2>1 DEF Block
<1>. QED BY <1>2, <1>3 DEF Masked

LEMMA MaskedClear ==
    ASSUME NEW r \in Byte, NEW a, NEW m, NEW p, Masked(Compute_GTab(r), a, m, p)
    PROVE  Clear(r, a, m) = p
<1>1. a \in Block /\ m \in Block /\ p \in Block /\ \A c \in Cells : p[c] \in Byte
  BY DEF Masked, Block
<1>2. Clear(r, a, m) \in Block
  BY <1>1, ClearMasked DEF Masked
<1>3. ASSUME NEW c \in Cells PROVE Clear(r, a, m)[c] = p[c]
  <2>1. Xor(a[c], m[c]) = Compute_GTab(r)[p[c]]
    BY DEF Masked
  <2>. QED BY <1>1, <2>1, ClearCell, UndoProduct
<1>. QED BY <1>1, <1>2, <1>3, SameBlock

(***************************************************************************)
(* Masking a block, and adding two masked blocks or a round key.           *)
(***************************************************************************)
LEMMA Masking ==
    ASSUME NEW G \in [Byte -> Byte], NEW p \in Block, NEW m \in Block
    PROVE  Masked(G, Xors(Map(G, p), m), m, p)
<1>1. \A c \in Cells : p[c] \in Byte /\ m[c] \in Byte /\ G[p[c]] \in Byte
  BY DEF Block
<1>2. Map(G, p) \in Block /\ Xors(Map(G, p), m) \in Block
  BY MapType, XorsType
<1>3. \A c \in Cells : Xor(Xor(G[p[c]], m[c]), m[c]) = G[p[c]]
  BY <1>1, XorCancel
<1>. QED BY <1>1, <1>2, <1>3 DEF Masked, Xors, Map

LEMMA MaskedSum ==
    ASSUME NEW G, Linear(G),
           NEW a \in Byte, NEW m \in Byte, NEW p \in Byte, Xor(a, m) = G[p],
           NEW b \in Byte, NEW n \in Byte, NEW q \in Byte, Xor(b, n) = G[q]
    PROVE  /\ Xor(Xor(a, b), Xor(m, n)) = G[Xor(p, q)]
           /\ Xor(a, b) \in Byte /\ Xor(m, n) \in Byte /\ Xor(p, q) \in Byte
<1>1. Xor(Xor(a, b), Xor(m, n)) = Xor(Xor(a, m), Xor(b, n))
  BY XorMedial
<1>2. Xor(Xor(a, m), Xor(b, n)) = G[Xor(p, q)]
  BY DEF Linear
<1>. QED BY <1>1, <1>2, XorType

\* D carries the multiplier K of the key to the multiplier G of the block.
LEMMA AddMasked ==
    ASSUME NEW G, Linear(G), NEW K, NEW D, Linear(D), \A x \in Byte : D[K[x]] = G[x],
           NEW a, NEW m, NEW p, Masked(G, a, m, p), NEW k, NEW n, NEW q, Masked(K, k, n, q)
    PROVE  Masked(G, Xors(a, Map(D, k)), Xors(m, Map(D, n)), Xors(p, q))
<1>1. /\ a \in Block /\ m \in Block /\ p \in Block /\ k \in Block /\ n \in Block /\ q \in Block
      /\ D \in [Byte -> Byte]
  BY DEF Masked, Linear
<1>2. /\ Map(D, k) \in Block /\ Map(D, n) \in Block
      /\ Xors(a, Map(D, k)) \in Block /\ Xors(m, Map(D, n)) \in Block /\ Xors(p, q) \in Block
  BY <1>1, MapType, XorsType
<1>3. ASSUME NEW c \in Cells
      PROVE  Xor(Xor(a[c], D[k[c]]), Xor(m[c], D[n[c]])) = G[Xor(p[c], q[c])]
  <2>1. /\ a[c] \in Byte /\ m[c] \in Byte /\ p[c] \in Byte
        /\ k[c] \in Byte /\ n[c] \in Byte /\ q[c] \in Byte
    BY <1>1 DEF Block
  <2>2. Xor(D[k[c]], D[n[c]]) = D[Xor(k[c], n[c])]
    BY <2>1 DEF Linear
  <2>3. Xor(k[c], n[c]) = K[q[c]] /\ Xor(a[c], m[c]) = G[p[c]]
    BY DEF Masked
  <2>4. Xor(D[k[c]], D[n[c]]) = G[q[c]]
    BY <2>1, <2>2, <2>3
  <2>5. D[k[c]] \in Byte /\ D[n[c]] \in Byte
    BY <1>1, <2>1
  <2>. QED BY <2>1, <2>3, <2>4, <2>5, MaskedSum
<1>. QED BY <1>2, <1>3 DEF Masked, Xors, Map

(***************************************************************************)
(* A loop that reaches every cell replaces the whole block.                *)
(***************************************************************************)
LEMMA VisitAll ==
    ASSUME NEW perm, Reached(perm) = Cells, NEW new \in Block, NEW old
    PROVE  Visit(perm, new, old) = new
<1>1. Visit(perm, new, old) = [c \in Cells |-> new[c]]
  BY DEF Visit
<1>. QED BY <1>1 DEF Block

LEMMA VisitAllColumns ==
    ASSUME NEW perm, Reached(perm) = 0..3, NEW new \in Block, NEW old
    PROVE  VisitColumns(perm, new, old) = new
<1>1. VisitColumns(perm, new, old) = [c \in Cells |-> new[c]]
  BY CellFacts DEF VisitColumns
<1>. QED BY <1>1 DEF Block

LEMMA AddRoundkeyAll ==
    ASSUME NEW ctx, Reached(ctx.permIndices) = Cells,
           NEW G \in [Byte -> Byte], NEW k \in Block, NEW a \in Block
    PROVE  Add_roundkey_masked(ctx, G, k, a) = Xors(a, Map(G, k))
  BY MapType, XorsType, VisitAll DEF Add_roundkey_masked

(***************************************************************************)
(* Substitution.  The masked box at G[y] ^ rin is the box at y, because    *)
(* the product is one-to-one.                                              *)
(***************************************************************************)
MasksBox(table, b, G, rin, rout) ==
  \A y \in Byte : table[Xor(G[y], rin)] = Xor(G[b[y]], rout)

LEMMA MaskedBox ==
    ASSUME NEW r \in Byte, NEW b \in [Byte -> Byte], NEW rin \in Byte, NEW rout \in Byte
    PROVE  MasksBox(Compute_Affine_sboxMasked(b, Compute_GTab(r), rin, rout), b,
                    Compute_GTab(r), rin, rout)
<1> DEFINE G == Compute_GTab(r)
<1>1. \A x \in Byte : G[x] \in Byte
  BY Products DEF Linear
<1>2. ASSUME NEW y \in Byte
      PROVE  Compute_Affine_sboxMasked(b, G, rin, rout)[Xor(G[y], rin)] = Xor(G[b[y]], rout)
  <2> DEFINE i == Xor(G[y], rin)
             z == CHOOSE x \in Byte : Xor(G[x], rin) = i
  <2>1. i \in Byte
    BY <1>1, XorType
  <2>2. z \in Byte /\ Xor(G[z], rin) = i
    <3>1. \E x \in Byte : Xor(G[x], rin) = i
      OBVIOUS
    <3> HIDE DEF G, i
    <3>. QED BY <3>1
  <2>3. z = y
    <3> HIDE DEF z
    <3>1. G[z] = G[y]
      BY <1>1, <2>2, XorCancel
    <3>2. Undo(r, G[z]) = z /\ Undo(r, G[y]) = y
      BY <2>2, UndoProduct
    <3>. QED BY <3>1, <3>2
  <2>4. Compute_Affine_sboxMasked(b, G, rin, rout)[i] = Xor(G[b[z]], rout)
    <3> HIDE DEF G, i
    <3>. QED BY <2>1 DEF Compute_Affine_sboxMasked, z
  <2>. QED BY <2>3, <2>4
<1>. QED BY <1>2 DEF MasksBox

LEMMA SubBytesMasked ==
    ASSUME NEW r \in Byte, NEW b \in [Byte -> Byte],
           NEW ctx, Reached(ctx.permIndices) = Cells, ctx.rin \in Byte, ctx.rout \in Byte,
           MasksBox(ctx.sboxMasked, b, Compute_GTab(r), ctx.rin, ctx.rout),
           NEW a \in Block, NEW m, NEW p, Masked(Compute_GTab(r), XorAll(a, ctx.rin), m, p)
    PROVE  Masked(Compute_GTab(r), SubBytesWithMask(ctx, a, m), m, Map(b, p))
<1> DEFINE G == Compute_GTab(r)
           new == [c \in Cells |-> Xor(ctx.sboxMasked[Xor(a[c], m[c])], m[c])]
<1>1. m \in Block /\ p \in Block /\ \A c \in Cells : m[c] \in Byte /\ p[c] \in Byte /\ a[c] \in Byte
  BY DEF Masked, Block
<1>2. G \in [Byte -> Byte]
  BY Products DEF Linear
<1>3. ASSUME NEW c \in Cells
      PROVE  new[c] = Xor(Xor(G[b[p[c]]], ctx.rout), m[c])
  <2>1. Xor(Xor(a[c], ctx.rin), m[c]) = G[p[c]]
    BY DEF Masked, XorAll
  <2>2. Xor(a[c], m[c]) = Xor(G[p[c]], ctx.rin)
    <3>1. Xor(Xor(a[c], ctx.rin), m[c]) = Xor(Xor(a[c], m[c]), ctx.rin)
      BY <1>1, XorAssoc, XorComm
    <3>2. Xor(a[c], m[c]) \in Byte
      BY <1>1, XorType
    <3>. QED BY <2>1, <3>1, <3>2, XorCancel
  <2>3. ctx.sboxMasked[Xor(a[c], m[c])] = Xor(G[b[p[c]]], ctx.rout)
    <3>1. ctx.sboxMasked[Xor(G[p[c]], ctx.rin)] = Xor(G[b[p[c]]], ctx.rout)
      BY <1>1 DEF MasksBox
    <3>. QED BY <2>2, <3>1
  <2>. QED BY <2>3
<1>4. \A c \in Cells : b[p[c]] \in Byte /\ G[b[p[c]]] \in Byte /\ Xor(G[b[p[c]]], ctx.rout) \in Byte
  BY <1>1, <1>2, XorType
<1>5. new \in Block
  <2>1. \A c \in Cells : new[c] \in Byte
    BY <1>1, <1>3, <1>4, XorType
  <2>2. new = [c \in Cells |-> new[c]]
    OBVIOUS
  <2> HIDE DEF new
  <2>. QED BY <2>1, <2>2 DEF Block
<1> HIDE DEF G
<1>6. SubBytesWithMask(ctx, a, m) = XorAll(new, ctx.rout)
  BY <1>5, VisitAll DEF SubBytesWithMask
<1> HIDE DEF new
<1>7. XorAll(new, ctx.rout) \in Block /\ Map(b, p) \in Block
  BY <1>1, <1>5, XorAllType, MapType
<1>8. ASSUME NEW c \in Cells
      PROVE  Xor(XorAll(new, ctx.rout)[c], m[c]) = G[Map(b, p)[c]]
  <2> DEFINE g == G[b[p[c]]]
  <2>1. g \in Byte /\ Xor(g, ctx.rout) \in Byte /\ m[c] \in Byte
    BY <1>1, <1>4
  <2>2. XorAll(new, ctx.rout)[c] = Xor(Xor(Xor(g, ctx.rout), m[c]), ctx.rout)
    BY <1>3 DEF XorAll
  <2>3. G[Map(b, p)[c]] = g
    BY DEF Map
  <2> HIDE DEF g
  <2>4. Xor(Xor(Xor(g, ctx.rout), m[c]), ctx.rout) = Xor(g, m[c])
    <3>1. Xor(Xor(g, ctx.rout), m[c]) = Xor(Xor(g, m[c]), ctx.rout)
      BY <2>1, XorAssoc, XorComm
    <3>. QED BY <2>1, <3>1, XorType, XorCancel
  <2>5. Xor(Xor(g, m[c]), m[c]) = g
    BY <2>1, XorCancel
  <2>. QED BY <2>2, <2>3, <2>4, <2>5
<1>. QED BY <1>1, <1>6, <1>7, <1>8 DEF Masked, G

(***************************************************************************)
(* Rows.  table sends a cell where the row shift src takes it from.        *)
(***************************************************************************)
Inverse(table, src) ==
  \A c \in Cells : /\ src[c] \in Cells /\ table[c] \in Cells
                   /\ table[src[c]] = c /\ src[table[c]] = c

LEMMA ScatterAll ==
    ASSUME NEW table, NEW src, Inverse(table, src),
           NEW perm, \A c \in Cells : \E i \in DOMAIN perm : perm[i] = c,
           NEW old, NEW temp
    PROVE  Scatter(perm, table, old, temp) = [c \in Cells |-> old[src[c]]]
<1>1. ASSUME NEW d \in Cells
      PROVE  /\ \E i \in DOMAIN perm : table[perm[i]] = d
             /\ (CHOOSE c \in Cells : table[c] = d) = src[d]
  <2>1. src[d] \in Cells /\ table[src[d]] = d
    BY DEF Inverse
  <2>2. PICK i \in DOMAIN perm : perm[i] = src[d]
    BY <2>1
  <2>3. \A c \in Cells : table[c] = d => c = src[d]
    BY DEF Inverse
  <2> DEFINE e == CHOOSE c \in Cells : table[c] = d
  <2>4. e \in Cells /\ table[e] = d
    BY <2>1
  <2> HIDE DEF e
  <2>5. e = src[d]
    BY <2>3, <2>4
  <2>. QED BY <2>1, <2>2, <2>5 DEF e
<1>2. ASSUME NEW d \in Cells PROVE Scatter(perm, table, old, temp)[d] = old[src[d]]
  BY <1>1 DEF Scatter
<1>3. Scatter(perm, table, old, temp) = [d \in Cells |-> Scatter(perm, table, old, temp)[d]]
  BY DEF Scatter
<1> DEFINE moved == Scatter(perm, table, old, temp)
<1> HIDE DEF moved
<1>4. \A d \in Cells : moved[d] = old[src[d]]
  BY <1>2 DEF moved
<1>5. moved = [d \in Cells |-> moved[d]]
  BY <1>3 DEF moved
<1>6. moved = [c \in Cells |-> old[src[c]]]
  BY <1>4, <1>5
<1>. QED BY <1>6 DEF moved

\* Where ShiftRows and its inverse take each cell from.
RowSource == [c \in Cells |-> 4 * ((Col(c) + Row(c)) % 4) + Row(c)]
InvRowSource == [c \in Cells |-> 4 * ((Col(c) + 4 - Row(c)) % 4) + Row(c)]

LEMMA ShiftRowsSource ==
    ASSUME NEW a
    PROVE  /\ ShiftRows(a) = [c \in Cells |-> a[RowSource[c]]]
           /\ InvShiftRows(a) = [c \in Cells |-> a[InvRowSource[c]]]
  BY DEF ShiftRows, InvShiftRows, RowSource, InvRowSource

LEMMA RowSourceCells ==
    /\ RowSource = ShiftRows([c \in Cells |-> c]) /\ InvRowSource = InvShiftRows([c \in Cells |-> c])
    /\ \A c \in Cells : RowSource[c] \in Cells /\ InvRowSource[c] \in Cells
<1>1. \A c \in Cells : RowSource[c] \in Cells /\ InvRowSource[c] \in Cells
  BY CellFacts DEF RowSource, InvRowSource
<1>2. RowSource = [c \in Cells |-> RowSource[c]] /\ InvRowSource = [c \in Cells |-> InvRowSource[c]]
  BY DEF RowSource, InvRowSource
<1>3. /\ ShiftRows([c \in Cells |-> c]) = [d \in Cells |-> RowSource[d]]
      /\ InvShiftRows([c \in Cells |-> c]) = [d \in Cells |-> InvRowSource[d]]
  BY <1>1, ShiftRowsSource
<1>. QED BY <1>1, <1>2, <1>3

LEMMA RowsType ==
    ASSUME NEW a \in Block
    PROVE  ShiftRows(a) \in Block /\ InvShiftRows(a) \in Block
  BY ShiftRowsSource, RowSourceCells DEF Block

\* Moving the cells of a block and of its masks alike.
LEMMA MovedMasked ==
    ASSUME NEW G, NEW a, NEW m, NEW p, Masked(G, a, m, p)
    PROVE  /\ Masked(G, ShiftRows(a), ShiftRows(m), ShiftRows(p))
           /\ Masked(G, InvShiftRows(a), InvShiftRows(m), InvShiftRows(p))
<1>1. a \in Block /\ m \in Block /\ p \in Block
  BY DEF Masked
<1>2. \A c \in Cells : Xor(a[RowSource[c]], m[RowSource[c]]) = G[p[RowSource[c]]]
  BY RowSourceCells DEF Masked
<1>3. \A c \in Cells : Xor(a[InvRowSource[c]], m[InvRowSource[c]]) = G[p[InvRowSource[c]]]
  BY RowSourceCells DEF Masked
<1>4. Masked(G, ShiftRows(a), ShiftRows(m), ShiftRows(p))
  BY <1>1, <1>2, RowsType, ShiftRowsSource DEF Masked
<1>5. Masked(G, InvShiftRows(a), InvShiftRows(m), InvShiftRows(p))
  BY <1>1, <1>3, RowsType, ShiftRowsSource DEF Masked
<1>. QED BY <1>4, <1>5

(***************************************************************************)
(* Columns.                                                                *)
(***************************************************************************)
LEMMA MixColumnsCell ==
    ASSUME NEW a \in Block, NEW c \in Cells
    PROVE  LET p == a[c]
               q == Below(a, c, 1)
               r == Below(a, c, 2)
               s == Below(a, c, 3)
           IN  /\ p \in Byte /\ q \in Byte /\ r \in Byte /\ s \in Byte
               /\ MixColumns(a)[c] = MixByte(p, q, r, s)
               /\ InvMixColumns(a)[c] = InvMixByte(p, q, r, s)
               /\ MixByte(p, q, r, s) \in Byte /\ InvMixByte(p, q, r, s) \in Byte
<1>1. /\ a[c] \in Byte /\ Below(a, c, 1) \in Byte /\ Below(a, c, 2) \in Byte /\ Below(a, c, 3) \in Byte
  BY BelowType DEF Block
<1>2. MixColumns(a)[c] = MixByte(a[c], Below(a, c, 1), Below(a, c, 2), Below(a, c, 3))
  BY DEF MixColumns, MixByte
<1>3. InvMixColumns(a)[c] = InvMixByte(a[c], Below(a, c, 1), Below(a, c, 2), Below(a, c, 3))
  BY DEF InvMixColumns, InvMixByte, TimesE, TimesB, TimesD, Times9
<1>4. \A p, q, r, s \in Byte : MixByte(p, q, r, s) \in Byte /\ InvMixByte(p, q, r, s) \in Byte
  <2> SUFFICES ASSUME NEW p \in Byte, NEW q \in Byte, NEW r \in Byte, NEW s \in Byte
               PROVE  MixByte(p, q, r, s) \in Byte /\ InvMixByte(p, q, r, s) \in Byte
    OBVIOUS
  <2>1. MixByte(p, q, r, s) \in Byte
    BY MaskedMixByte
  <2>2. TimesE(p) \in Byte /\ TimesB(q) \in Byte /\ TimesD(r) \in Byte /\ Times9(s) \in Byte
    BY CoefficientType
  <2>. QED BY <2>1, <2>2, Xor4Type DEF InvMixByte
<1>. QED BY <1>1, <1>2, <1>3, <1>4

LEMMA MixColumnsType ==
    ASSUME NEW a \in Block
    PROVE  MixColumns(a) \in Block /\ InvMixColumns(a) \in Block
<1>1. \A c \in Cells : MixColumns(a)[c] \in Byte /\ InvMixColumns(a)[c] \in Byte
  BY MixColumnsCell
<1>2. /\ MixColumns(a) = [c \in Cells |-> MixColumns(a)[c]]
      /\ InvMixColumns(a) = [c \in Cells |-> InvMixColumns(a)[c]]
  BY DEF MixColumns, InvMixColumns
<1>. QED BY <1>1, <1>2 DEF Block

\* The transformation of a block is that of what it stands for.
LEMMA MixMasked ==
    ASSUME NEW G, Factor(G), NEW a, NEW m, NEW p, Masked(G, a, m, p)
    PROVE  /\ Masked(G, MixColumns(a), MixColumns(m), MixColumns(p))
           /\ Masked(G, InvMixColumns(a), InvMixColumns(m), InvMixColumns(p))
<1>1. a \in Block /\ m \in Block /\ p \in Block
  BY DEF Masked
<1>2. /\ MixColumns(a) \in Block /\ MixColumns(m) \in Block /\ MixColumns(p) \in Block
      /\ InvMixColumns(a) \in Block /\ InvMixColumns(m) \in Block /\ InvMixColumns(p) \in Block
  BY <1>1, MixColumnsType
<1>3. ASSUME NEW c \in Cells
      PROVE  /\ Xor(MixColumns(a)[c], MixColumns(m)[c]) = G[MixColumns(p)[c]]
             /\ Xor(InvMixColumns(a)[c], InvMixColumns(m)[c]) = G[InvMixColumns(p)[c]]
  <2> DEFINE a1 == Below(a, c, 1)
             a2 == Below(a, c, 2)
             a3 == Below(a, c, 3)
             m1 == Below(m, c, 1)
             m2 == Below(m, c, 2)
             m3 == Below(m, c, 3)
             p1 == Below(p, c, 1)
             p2 == Below(p, c, 2)
             p3 == Below(p, c, 3)
  <2>1. /\ a[c] \in Byte /\ a1 \in Byte /\ a2 \in Byte /\ a3 \in Byte
        /\ m[c] \in Byte /\ m1 \in Byte /\ m2 \in Byte /\ m3 \in Byte
        /\ p[c] \in Byte /\ p1 \in Byte /\ p2 \in Byte /\ p3 \in Byte
    BY <1>1, MixColumnsCell
  <2>2. /\ Xor(a[c], m[c]) = G[p[c]] /\ Xor(a1, m1) = G[p1]
        /\ Xor(a2, m2) = G[p2] /\ Xor(a3, m3) = G[p3]
    BY CellFacts DEF Masked, Below
  <2>3. /\ MixColumns(a)[c] = MixByte(a[c], a1, a2, a3) /\ MixColumns(m)[c] = MixByte(m[c], m1, m2, m3)
        /\ MixColumns(p)[c] = MixByte(p[c], p1, p2, p3)
        /\ InvMixColumns(a)[c] = InvMixByte(a[c], a1, a2, a3)
        /\ InvMixColumns(m)[c] = InvMixByte(m[c], m1, m2, m3)
        /\ InvMixColumns(p)[c] = InvMixByte(p[c], p1, p2, p3)
    BY <1>1, MixColumnsCell
  <2> DEFINE a0 == a[c]
             m0 == m[c]
             p0 == p[c]
  <2>4. /\ a0 \in Byte /\ m0 \in Byte /\ p0 \in Byte /\ Xor(a0, m0) = G[p0]
    BY <2>1, <2>2
  <2> HIDE DEF a0, a1, a2, a3, m0, m1, m2, m3, p0, p1, p2, p3
  <2>5. /\ Xor(MixByte(a0, a1, a2, a3), MixByte(m0, m1, m2, m3))
             = MixByte(Xor(a0, m0), Xor(a1, m1), Xor(a2, m2), Xor(a3, m3))
        /\ Xor(InvMixByte(a0, a1, a2, a3), InvMixByte(m0, m1, m2, m3))
             = InvMixByte(Xor(a0, m0), Xor(a1, m1), Xor(a2, m2), Xor(a3, m3))
    <3> DEFINE x == [i \in 0..3 |-> CASE i = 0 -> a0 [] i = 1 -> a1 [] i = 2 -> a2 [] i = 3 -> a3]
               y == [i \in 0..3 |-> CASE i = 0 -> m0 [] i = 1 -> m1 [] i = 2 -> m2 [] i = 3 -> m3]
    <3>1. /\ x[0] = a0 /\ x[1] = a1 /\ x[2] = a2 /\ x[3] = a3
          /\ y[0] = m0 /\ y[1] = m1 /\ y[2] = m2 /\ y[3] = m3
      OBVIOUS
    <3>2. x \in [0..3 -> Byte] /\ y \in [0..3 -> Byte]
      BY <2>1, <2>4
    <3> HIDE DEF x, y
    <3>3. /\ MixByte(Xor(x[0], y[0]), Xor(x[1], y[1]), Xor(x[2], y[2]), Xor(x[3], y[3]))
               = Xor(MixByte(x[0], x[1], x[2], x[3]), MixByte(y[0], y[1], y[2], y[3]))
          /\ InvMixByte(Xor(x[0], y[0]), Xor(x[1], y[1]), Xor(x[2], y[2]), Xor(x[3], y[3]))
               = Xor(InvMixByte(x[0], x[1], x[2], x[3]), InvMixByte(y[0], y[1], y[2], y[3]))
      BY <3>2, MixByteLinear
    <3>. QED BY <3>1, <3>3
  <2>6. /\ MixByte(G[p0], G[p1], G[p2], G[p3]) = G[MixByte(p0, p1, p2, p3)]
        /\ InvMixByte(G[p0], G[p1], G[p2], G[p3]) = G[InvMixByte(p0, p1, p2, p3)]
    BY <2>1, <2>4, MixByteFactor
  <2>. QED BY <2>2, <2>3, <2>4, <2>5, <2>6 DEF a0, m0, p0
<1>. QED BY <1>2, <1>3 DEF Masked

\* The subroutine for a whole block, and the part that completes the inverse.
LEMMA MixColumnAll ==
    ASSUME NEW perm, Reached(perm) = 0..3, NEW a \in Block
    PROVE  MixColumn_masked(perm, a) = MixColumns(a)
<1> DEFINE t(c) == Xor4(a[c], Below(a, c, 1), Below(a, c, 2), Below(a, c, 3))
           new == [c \in Cells |-> Xor(Xor(Xtime[Xor(a[c], Below(a, c, 1))], a[c]), t(c))]
<1>1. \A c \in Cells : new[c] = MixColumns(a)[c]
  BY MixColumnsCell, MaskedMixByte
<1>2. new = [c \in Cells |-> new[c]] /\ MixColumns(a) = [c \in Cells |-> MixColumns(a)[c]]
  BY DEF MixColumns
<1>3. MixColumn_masked(perm, a) = VisitColumns(perm, new, a)
  BY DEF MixColumn_masked
<1> HIDE DEF new
<1>4. new = MixColumns(a)
  BY <1>1, <1>2
<1>. QED BY <1>3, <1>4, MixColumnsType, VisitAllColumns

SecondPart(a) ==
  [c \in Cells |-> Xor(Fourtime[Xor(a[c], Below(a, c, 2))],
                       Eighttime[Xor4(a[c], Below(a, c, 1), Below(a, c, 2), Below(a, c, 3))])]

LEMMA SecondPartType ==
    ASSUME NEW a \in Block
    PROVE  SecondPart(a) \in Block /\ Xors(MixColumns(a), SecondPart(a)) = InvMixColumns(a)
<1>1. ASSUME NEW c \in Cells
      PROVE  SecondPart(a)[c] \in Byte /\ Xor(MixColumns(a)[c], SecondPart(a)[c]) = InvMixColumns(a)[c]
  <2> DEFINE p == a[c]
             q == Below(a, c, 1)
             r == Below(a, c, 2)
             s == Below(a, c, 3)
  <2>1. /\ p \in Byte /\ q \in Byte /\ r \in Byte /\ s \in Byte
        /\ MixColumns(a)[c] = MixByte(p, q, r, s) /\ InvMixColumns(a)[c] = InvMixByte(p, q, r, s)
    BY MixColumnsCell
  <2>2. SecondPart(a)[c] = Xor(Fourtime[Xor(p, r)], Eighttime[Xor4(p, q, r, s)])
    BY DEF SecondPart
  <2> HIDE DEF p, q, r, s
  <2>. QED BY <2>1, <2>2, Part2Byte
<1>2. SecondPart(a) = [c \in Cells |-> SecondPart(a)[c]]
  BY DEF SecondPart
<1>3. SecondPart(a) \in Block
  <2> DEFINE b == SecondPart(a)
  <2>1. b = [c \in Cells |-> b[c]] /\ \A c \in Cells : b[c] \in Byte
    BY <1>1, <1>2
  <2> HIDE DEF b
  <2>2. b \in Block
    BY <2>1 DEF Block
  <2>. QED BY <2>2 DEF b
<1>4. Xors(MixColumns(a), SecondPart(a)) \in Block /\ InvMixColumns(a) \in Block
  BY <1>3, XorsType, MixColumnsType
<1>5. \A c \in Cells : Xors(MixColumns(a), SecondPart(a))[c] = InvMixColumns(a)[c]
  BY <1>1 DEF Xors
<1>. QED BY <1>3, <1>4, <1>5, SameBlock

LEMMA SecondPartAll ==
    ASSUME NEW perm, Reached(perm) = 0..3, NEW a \in Block, NEW temp
    PROVE  InvMixColumns_part2(perm, a, temp) = SecondPart(a)
<1>1. InvMixColumns_part2(perm, a, temp) = VisitColumns(perm, SecondPart(a), temp)
  BY DEF InvMixColumns_part2, SecondPart
<1>. QED BY <1>1, SecondPartType, VisitAllColumns

(***************************************************************************)
(* InvMixColumns undoes MixColumns: the product of the two circulants is   *)
(* the identity.  Linearity is enough, as the powers of x above x^3 cancel.*)
(***************************************************************************)
LEMMA XtimeFactor == Factor(Xtime)
  BY TableAssumption DEF Factor, Linear

\* The product by a coefficient of the inverse matrix goes through MixByte.
LEMMA CoefficientMix ==
    ASSUME NEW p \in Byte, NEW q \in Byte, NEW r \in Byte, NEW s \in Byte
    PROVE  /\ TimesE(MixByte(p, q, r, s)) = MixByte(TimesE(p), TimesE(q), TimesE(r), TimesE(s))
           /\ TimesB(MixByte(p, q, r, s)) = MixByte(TimesB(p), TimesB(q), TimesB(r), TimesB(s))
           /\ TimesD(MixByte(p, q, r, s)) = MixByte(TimesD(p), TimesD(q), TimesD(r), TimesD(s))
           /\ Times9(MixByte(p, q, r, s)) = MixByte(Times9(p), Times9(q), Times9(r), Times9(s))
<1> DEFINE e == [x \in Byte |-> TimesE(x)]
           b == [x \in Byte |-> TimesB(x)]
           d == [x \in Byte |-> TimesD(x)]
           n == [x \in Byte |-> Times9(x)]
<1>1. \A x \in Byte : /\ Xtime[x] \in Byte
                      /\ TimesE(x) \in Byte /\ TimesB(x) \in Byte /\ TimesD(x) \in Byte /\ Times9(x) \in Byte
                      /\ TimesE(Xtime[x]) = Xtime[TimesE(x)] /\ TimesB(Xtime[x]) = Xtime[TimesB(x)]
                      /\ TimesD(Xtime[x]) = Xtime[TimesD(x)] /\ Times9(Xtime[x]) = Xtime[Times9(x)]
  BY TableAssumption, CoefficientType, CoefficientFactor, XtimeFactor
<1>2. \A x, y \in Byte : /\ Xor(x, y) \in Byte
                         /\ TimesE(Xor(x, y)) = Xor(TimesE(x), TimesE(y))
                         /\ TimesB(Xor(x, y)) = Xor(TimesB(x), TimesB(y))
                         /\ TimesD(Xor(x, y)) = Xor(TimesD(x), TimesD(y))
                         /\ Times9(Xor(x, y)) = Xor(Times9(x), Times9(y))
  BY XorType, CoefficientLinear
<1>3. Factor(e)
  BY <1>1, <1>2 DEF Factor, Linear
<1>4. Factor(b)
  BY <1>1, <1>2 DEF Factor, Linear
<1>5. Factor(d)
  BY <1>1, <1>2 DEF Factor, Linear
<1>6. Factor(n)
  BY <1>1, <1>2 DEF Factor, Linear
<1>7. MixByte(p, q, r, s) \in Byte
  BY MaskedMixByte
<1>8. e[MixByte(p, q, r, s)] = MixByte(e[p], e[q], e[r], e[s])
  <2> HIDE DEF e
  <2>. QED BY <1>3, MixByteFactor
<1>9. b[MixByte(p, q, r, s)] = MixByte(b[p], b[q], b[r], b[s])
  <2> HIDE DEF b
  <2>. QED BY <1>4, MixByteFactor
<1>10. d[MixByte(p, q, r, s)] = MixByte(d[p], d[q], d[r], d[s])
  <2> HIDE DEF d
  <2>. QED BY <1>5, MixByteFactor
<1>11. n[MixByte(p, q, r, s)] = MixByte(n[p], n[q], n[r], n[s])
  <2> HIDE DEF n
  <2>. QED BY <1>6, MixByteFactor
<1>. QED BY <1>7, <1>8, <1>9, <1>10, <1>11

\* The columns of the product, 2e + b + d + 3*9 and the three others.
LEMMA CoefficientSums ==
    ASSUME NEW x \in Byte
    PROVE  /\ Xor4(Times2(TimesE(x)), TimesB(x), TimesD(x), Xor(Times2(Times9(x)), Times9(x))) = x
           /\ Xor4(Xor(Times2(TimesE(x)), TimesE(x)), Times2(TimesB(x)), TimesD(x), Times9(x)) = 0
           /\ Xor4(TimesE(x), Xor(Times2(TimesB(x)), TimesB(x)), Times2(TimesD(x)), Times9(x)) = 0
           /\ Xor4(TimesE(x), TimesB(x), Xor(Times2(TimesD(x)), TimesD(x)), Times2(Times9(x))) = 0
<1> DEFINE x2 == Times2(x)
           x4 == Times4(x)
           x8 == Times8(x)
           x16 == Times2(x8)
           e == Xor(x8, Xor(x4, x2))
           b == Xor(x8, Xor(x2, x))
           d == Xor(x8, Xor(x4, x))
           n == Xor(x8, x)
           e2 == Xor(x16, Xor(x8, x4))
           b2 == Xor(x16, Xor(x4, x2))
           d2 == Xor(x16, Xor(x8, x2))
           n2 == Xor(x16, x2)
<1>1. x2 \in Byte /\ x4 \in Byte /\ x8 \in Byte
  BY Times
<1>2. x16 \in Byte
  BY <1>1, Times
<1>3. Times2(x2) = x4 /\ Times2(x4) = x8
  BY DEF Times2, Times4, Times8
<1>4. TimesE(x) = e /\ TimesB(x) = b /\ TimesD(x) = d /\ Times9(x) = n
  BY DEF TimesE, TimesB, TimesD, Times9
<1> HIDE DEF x2, x4, x8
<1>5. \A u, v \in Byte : Xor(u, v) \in Byte /\ Times2(Xor(u, v)) = Xor(Times2(u), Times2(v))
  BY XorType, Times
<1>6. Times2(e) = e2 /\ Times2(b) = b2 /\ Times2(d) = d2 /\ Times2(n) = n2
  BY <1>1, <1>3, <1>5 DEF x2
<1> HIDE DEF x16
<1>7. /\ e \in Byte /\ b \in Byte /\ d \in Byte /\ n \in Byte
      /\ e2 \in Byte /\ b2 \in Byte /\ d2 \in Byte /\ n2 \in Byte
  BY <1>1, <1>2, <1>5
<1>8. ASSUME NEW i \in 0..(Width - 1)
      PROVE  /\ Odd(e, i) <=> ~(Odd(x8, i) <=> ~(Odd(x4, i) <=> Odd(x2, i)))
             /\ Odd(b, i) <=> ~(Odd(x8, i) <=> ~(Odd(x2, i) <=> Odd(x, i)))
             /\ Odd(d, i) <=> ~(Odd(x8, i) <=> ~(Odd(x4, i) <=> Odd(x, i)))
             /\ Odd(n, i) <=> ~(Odd(x8, i) <=> Odd(x, i))
             /\ Odd(e2, i) <=> ~(Odd(x16, i) <=> ~(Odd(x8, i) <=> Odd(x4, i)))
             /\ Odd(b2, i) <=> ~(Odd(x16, i) <=> ~(Odd(x4, i) <=> Odd(x2, i)))
             /\ Odd(d2, i) <=> ~(Odd(x16, i) <=> ~(Odd(x8, i) <=> Odd(x2, i)))
             /\ Odd(n2, i) <=> ~(Odd(x16, i) <=> Odd(x2, i))
             /\ ~Odd(0, i)
  <2>1. \A u, v \in Byte : Odd(Xor(u, v), i) <=> ~(Odd(u, i) <=> Odd(v, i))
    BY XorBits
  <2>2. \A u, v, w \in Byte : Odd(Xor(u, Xor(v, w)), i) <=> ~(Odd(u, i) <=> ~(Odd(v, i) <=> Odd(w, i)))
    BY <1>5, <2>1
  <2>3. ~Odd(0, i)
    BY XorBits
  <2>. QED BY <1>1, <1>2, <2>1, <2>2, <2>3
<1> HIDE DEF e, b, d, n, e2, b2, d2, n2
<1>9. 0 \in Byte
  BY ByteFacts
<1>10. Xor4(e2, b, d, Xor(n2, n)) = x
  <2>1. Xor(n2, n) \in Byte /\ Xor4(e2, b, d, Xor(n2, n)) \in Byte
    BY <1>7, XorType, Xor4Type
  <2>2. ASSUME NEW i \in 0..(Width - 1) PROVE Odd(Xor4(e2, b, d, Xor(n2, n)), i) <=> Odd(x, i)
    <3>1. Odd(Xor(n2, n), i) <=> ~(Odd(n2, i) <=> Odd(n, i))
      BY <1>7, XorBits
    <3>2. Odd(Xor4(e2, b, d, Xor(n2, n)), i)
            <=> ~((~(Odd(e2, i) <=> Odd(b, i))) <=> (~(Odd(d, i) <=> Odd(Xor(n2, n), i))))
      BY <1>7, <2>1, Xor4Bits
    <3>. QED BY <1>8, <3>1, <3>2
  <2>. QED BY <2>1, <2>2, SameBits
<1>11. Xor4(Xor(e2, e), b2, d, n) = 0
  <2>1. Xor(e2, e) \in Byte /\ Xor4(Xor(e2, e), b2, d, n) \in Byte
    BY <1>7, XorType, Xor4Type
  <2>2. ASSUME NEW i \in 0..(Width - 1) PROVE Odd(Xor4(Xor(e2, e), b2, d, n), i) <=> Odd(0, i)
    <3>1. Odd(Xor(e2, e), i) <=> ~(Odd(e2, i) <=> Odd(e, i))
      BY <1>7, XorBits
    <3>2. Odd(Xor4(Xor(e2, e), b2, d, n), i)
            <=> ~((~(Odd(Xor(e2, e), i) <=> Odd(b2, i))) <=> (~(Odd(d, i) <=> Odd(n, i))))
      BY <1>7, <2>1, Xor4Bits
    <3>. QED BY <1>8, <3>1, <3>2
  <2>. QED BY <1>9, <2>1, <2>2, SameBits
<1>12. Xor4(e, Xor(b2, b), d2, n) = 0
  <2>1. Xor(b2, b) \in Byte /\ Xor4(e, Xor(b2, b), d2, n) \in Byte
    BY <1>7, XorType, Xor4Type
  <2>2. ASSUME NEW i \in 0..(Width - 1) PROVE Odd(Xor4(e, Xor(b2, b), d2, n), i) <=> Odd(0, i)
    <3>1. Odd(Xor(b2, b), i) <=> ~(Odd(b2, i) <=> Odd(b, i))
      BY <1>7, XorBits
    <3>2. Odd(Xor4(e, Xor(b2, b), d2, n), i)
            <=> ~((~(Odd(e, i) <=> Odd(Xor(b2, b), i))) <=> (~(Odd(d2, i) <=> Odd(n, i))))
      BY <1>7, <2>1, Xor4Bits
    <3>. QED BY <1>8, <3>1, <3>2
  <2>. QED BY <1>9, <2>1, <2>2, SameBits
<1>13. Xor4(e, b, Xor(d2, d), n2) = 0
  <2>1. Xor(d2, d) \in Byte /\ Xor4(e, b, Xor(d2, d), n2) \in Byte
    BY <1>7, XorType, Xor4Type
  <2>2. ASSUME NEW i \in 0..(Width - 1) PROVE Odd(Xor4(e, b, Xor(d2, d), n2), i) <=> Odd(0, i)
    <3>1. Odd(Xor(d2, d), i) <=> ~(Odd(d2, i) <=> Odd(d, i))
      BY <1>7, XorBits
    <3>2. Odd(Xor4(e, b, Xor(d2, d), n2), i)
            <=> ~((~(Odd(e, i) <=> Odd(b, i))) <=> (~(Odd(Xor(d2, d), i) <=> Odd(n2, i))))
      BY <1>7, <2>1, Xor4Bits
    <3>. QED BY <1>8, <3>1, <3>2
  <2>. QED BY <1>9, <2>1, <2>2, SameBits
<1>. QED BY <1>4, <1>6, <1>10, <1>11, <1>12, <1>13

\* The terms of a sum in another order.
LEMMA Xor4Sum ==
    ASSUME NEW a \in [1..4 -> Byte], NEW b \in [1..4 -> Byte]
    PROVE  /\ Xor(Xor4(a[1], a[2], a[3], a[4]), Xor4(b[1], b[2], b[3], b[4]))
                = Xor4(Xor(a[1], b[1]), Xor(a[2], b[2]), Xor(a[3], b[3]), Xor(a[4], b[4]))
           /\ Xor4(a[1], a[2], a[3], a[4]) = Xor4(a[4], a[1], a[2], a[3])
<1> DEFINE p == a[1]
           q == a[2]
           r == a[3]
           s == a[4]
           t == b[1]
           u == b[2]
           v == b[3]
           w == b[4]
<1>1. /\ p \in Byte /\ q \in Byte /\ r \in Byte /\ s \in Byte
      /\ t \in Byte /\ u \in Byte /\ v \in Byte /\ w \in Byte
  OBVIOUS
<1> HIDE DEF p, q, r, s, t, u, v, w
<1>2. \A x, y \in Byte : Xor(x, y) \in Byte /\ Xor(x, y) = Xor(y, x)
  BY XorType, XorComm
<1>3. \A x, y, z, o \in Byte : Xor(Xor(x, y), Xor(z, o)) = Xor(Xor(x, z), Xor(y, o))
  BY XorMedial
<1>4. Xor(Xor4(p, q, r, s), Xor4(t, u, v, w)) = Xor4(Xor(p, t), Xor(q, u), Xor(r, v), Xor(s, w))
  <2>1. Xor(Xor(Xor(p, q), Xor(r, s)), Xor(Xor(t, u), Xor(v, w)))
          = Xor(Xor(Xor(p, q), Xor(t, u)), Xor(Xor(r, s), Xor(v, w)))
    <3>1. Xor(p, q) \in Byte /\ Xor(r, s) \in Byte /\ Xor(t, u) \in Byte /\ Xor(v, w) \in Byte
      BY <1>1, <1>2
    <3>. QED BY <3>1, XorMedial
  <2>2. /\ Xor(Xor(p, q), Xor(t, u)) = Xor(Xor(p, t), Xor(q, u))
        /\ Xor(Xor(r, s), Xor(v, w)) = Xor(Xor(r, v), Xor(s, w))
    BY <1>1, <1>3
  <2>. QED BY <2>1, <2>2 DEF Xor4
<1>5. Xor4(p, q, r, s) = Xor4(s, p, q, r)
  <2>1. Xor(Xor(p, q), Xor(r, s)) = Xor(Xor(p, q), Xor(s, r))
    BY <1>1, <1>2
  <2>2. Xor(Xor(p, q), Xor(s, r)) = Xor(Xor(p, s), Xor(q, r))
    BY <1>1, <1>3
  <2>3. Xor(p, s) = Xor(s, p)
    BY <1>1, <1>2
  <2>. QED BY <2>1, <2>2, <2>3 DEF Xor4
<1>. QED BY <1>4, <1>5 DEF p, q, r, s, t, u, v, w

LEMMA MixByteInverse ==
    ASSUME NEW p \in Byte, NEW q \in Byte, NEW r \in Byte, NEW s \in Byte
    PROVE  InvMixByte(MixByte(p, q, r, s), MixByte(q, r, s, p),
                      MixByte(r, s, p, q), MixByte(s, p, q, r)) = p
<1> DEFINE Twice(x) == Times2(x)
           Three(x) == Xor(Times2(x), x)
<1>1. \A x \in Byte : /\ TimesE(x) \in Byte /\ TimesB(x) \in Byte /\ TimesD(x) \in Byte /\ Times9(x) \in Byte
                      /\ Times2(x) \in Byte /\ Xor(Times2(x), x) \in Byte
  BY CoefficientType, Times, XorType
<1>2. \A w, x, y, z \in Byte : Xor4(w, x, y, z) \in Byte /\ Xor4(w, x, y, z) = Xor4(z, w, x, y)
  <2> SUFFICES ASSUME NEW w \in Byte, NEW x \in Byte, NEW y \in Byte, NEW z \in Byte
               PROVE  Xor4(w, x, y, z) \in Byte /\ Xor4(w, x, y, z) = Xor4(z, w, x, y)
    OBVIOUS
  <2> DEFINE a == <<w, x, y, z>>
  <2>1. a \in [1..4 -> Byte] /\ a[1] = w /\ a[2] = x /\ a[3] = y /\ a[4] = z
    OBVIOUS
  <2> HIDE DEF a
  <2>2. Xor4(a[1], a[2], a[3], a[4]) = Xor4(a[4], a[1], a[2], a[3])
    BY <2>1, Xor4Sum
  <2>. QED BY <2>1, <2>2, Xor4Type
\* The four products, each with the terms of p, q, r and s in this order.
<1> DEFINE a == <<Times2(TimesE(p)), Three(TimesE(q)), TimesE(r), TimesE(s)>>
           b == <<TimesB(p), Times2(TimesB(q)), Three(TimesB(r)), TimesB(s)>>
           d == <<TimesD(p), TimesD(q), Times2(TimesD(r)), Three(TimesD(s))>>
           n == <<Three(Times9(p)), Times9(q), Times9(r), Times2(Times9(s))>>
           Sum(f) == Xor4(f[1], f[2], f[3], f[4])
<1>3. TimesE(MixByte(p, q, r, s)) = Sum(a)
  BY CoefficientMix DEF MixByte
<1>4. TimesB(MixByte(q, r, s, p)) = Sum(b)
  <2>1. TimesB(MixByte(q, r, s, p)) = Xor4(Times2(TimesB(q)), Three(TimesB(r)), TimesB(s), TimesB(p))
    BY CoefficientMix DEF MixByte
  <2> DEFINE w == TimesB(p)
             x == Times2(TimesB(q))
             y == Three(TimesB(r))
             z == TimesB(s)
  <2>2. w \in Byte /\ x \in Byte /\ y \in Byte /\ z \in Byte
    BY <1>1
  <2>3. Sum(b) = Xor4(w, x, y, z)
    OBVIOUS
  <2>4. TimesB(MixByte(q, r, s, p)) = Xor4(x, y, z, w)
    BY <2>1
  <2> HIDE DEF w, x, y, z, b
  <2>5. Xor4(x, y, z, w) = Xor4(w, x, y, z)
    BY <1>2, <2>2
  <2>. QED BY <2>3, <2>4, <2>5
<1>5. TimesD(MixByte(r, s, p, q)) = Sum(d)
  <2>1. TimesD(MixByte(r, s, p, q)) = Xor4(Times2(TimesD(r)), Three(TimesD(s)), TimesD(p), TimesD(q))
    BY CoefficientMix DEF MixByte
  <2> DEFINE w == TimesD(p)
             x == TimesD(q)
             y == Times2(TimesD(r))
             z == Three(TimesD(s))
  <2>2. w \in Byte /\ x \in Byte /\ y \in Byte /\ z \in Byte
    BY <1>1
  <2>3. Sum(d) = Xor4(w, x, y, z)
    OBVIOUS
  <2>4. TimesD(MixByte(r, s, p, q)) = Xor4(y, z, w, x)
    BY <2>1
  <2> HIDE DEF w, x, y, z, d
  <2>5. Xor4(y, z, w, x) = Xor4(x, y, z, w) /\ Xor4(x, y, z, w) = Xor4(w, x, y, z)
    BY <1>2, <2>2
  <2>. QED BY <2>3, <2>4, <2>5
<1>6. Times9(MixByte(s, p, q, r)) = Sum(n)
  <2>1. Times9(MixByte(s, p, q, r)) = Xor4(Times2(Times9(s)), Three(Times9(p)), Times9(q), Times9(r))
    BY CoefficientMix DEF MixByte
  <2> DEFINE w == Three(Times9(p))
             x == Times9(q)
             y == Times9(r)
             z == Times2(Times9(s))
  <2>2. w \in Byte /\ x \in Byte /\ y \in Byte /\ z \in Byte
    BY <1>1
  <2>3. Sum(n) = Xor4(w, x, y, z)
    OBVIOUS
  <2>4. Times9(MixByte(s, p, q, r)) = Xor4(z, w, x, y)
    BY <2>1
  <2> HIDE DEF w, x, y, z, n
  <2>5. Xor4(z, w, x, y) = Xor4(w, x, y, z)
    BY <1>2, <2>2
  <2>. QED BY <2>3, <2>4, <2>5
<1>7. a \in [1..4 -> Byte] /\ b \in [1..4 -> Byte] /\ d \in [1..4 -> Byte] /\ n \in [1..4 -> Byte]
  BY <1>1
<1>8. /\ Xor4(a[1], b[1], d[1], n[1]) = p /\ Xor4(a[2], b[2], d[2], n[2]) = 0
      /\ Xor4(a[3], b[3], d[3], n[3]) = 0 /\ Xor4(a[4], b[4], d[4], n[4]) = 0
  BY CoefficientSums
<1> HIDE DEF a, b, d, n
<1> DEFINE g == [k \in 1..4 |-> Xor(a[k], b[k])]
           h == [k \in 1..4 |-> Xor(d[k], n[k])]
<1>9. g \in [1..4 -> Byte] /\ h \in [1..4 -> Byte]
  BY <1>7, XorType
<1>10. Xor(Sum(a), Sum(b)) = Sum(g) /\ Xor(Sum(d), Sum(n)) = Sum(h)
  BY <1>7, Xor4Sum
<1>11. /\ Xor(g[1], h[1]) = p /\ Xor(g[2], h[2]) = 0 /\ Xor(g[3], h[3]) = 0 /\ Xor(g[4], h[4]) = 0
  BY <1>8 DEF Xor4
<1> HIDE DEF g, h
<1>12. Xor(Sum(g), Sum(h)) = Xor4(p, 0, 0, 0)
  BY <1>9, <1>11, Xor4Sum
<1>13. Xor4(p, 0, 0, 0) = p
  BY XorSelf, ByteFacts DEF Xor4
<1>14. Xor4(Sum(a), Sum(b), Sum(d), Sum(n)) = p
  BY <1>10, <1>12, <1>13 DEF Xor4
<1>. QED BY <1>3, <1>4, <1>5, <1>6, <1>14 DEF InvMixByte

LEMMA MixColumnsInverse ==
    ASSUME NEW a \in Block
    PROVE  InvMixColumns(MixColumns(a)) = a
<1> DEFINE mix == MixColumns(a)
<1>1. mix \in Block /\ InvMixColumns(mix) \in Block
  BY MixColumnsType
<1>2. ASSUME NEW c \in Cells PROVE InvMixColumns(mix)[c] = a[c]
  <2> DEFINE at(k) == 4 * Col(c) + ((Row(c) + k) % 4)
             p == a[c]
             q == Below(a, c, 1)
             r == Below(a, c, 2)
             s == Below(a, c, 3)
  <2>1. p \in Byte /\ q \in Byte /\ r \in Byte /\ s \in Byte
    BY MixColumnsCell
  <2>2. /\ at(1) \in Cells /\ at(2) \in Cells /\ at(3) \in Cells
        /\ Below(mix, c, 1) = mix[at(1)] /\ Below(mix, c, 2) = mix[at(2)] /\ Below(mix, c, 3) = mix[at(3)]
        /\ q = a[at(1)] /\ r = a[at(2)] /\ s = a[at(3)]
    BY CellFacts DEF Below
  <2>3. /\ Below(a, at(1), 1) = r /\ Below(a, at(1), 2) = s /\ Below(a, at(1), 3) = p
        /\ Below(a, at(2), 1) = s /\ Below(a, at(2), 2) = p /\ Below(a, at(2), 3) = q
        /\ Below(a, at(3), 1) = p /\ Below(a, at(3), 2) = q /\ Below(a, at(3), 3) = r
    <3>1. /\ Col(c) \in 0..3 /\ Row(c) \in 0..3 /\ c = 4 * Col(c) + Row(c)
      BY CellFacts
    <3>2. ASSUME NEW k \in 1..3
          PROVE  Col(at(k)) = Col(c) /\ Row(at(k)) = (Row(c) + k) % 4
      <4> DEFINE y == Col(c)
                 m == (Row(c) + k) % 4
      <4>1. y \in 0..3 /\ m \in 0..3
        BY <3>1
      <4> HIDE DEF y, m
      <4>2. (4 * y + m) \div 4 = y /\ (4 * y + m) % 4 = m
        BY <4>1
      <4>. QED BY <4>2 DEF Col, Row, y, m
    <3>3. \A k, j \in 1..3 : Below(a, at(k), j) = a[4 * Col(c) + ((((Row(c) + k) % 4) + j) % 4)]
      BY <3>2 DEF Below
    <3> DEFINE z == Row(c)
    <3>4. z \in 0..3
      BY <3>1
    <3> HIDE DEF z
    <3>5. /\ (((z + 1) % 4) + 1) % 4 = (z + 2) % 4 /\ (((z + 1) % 4) + 2) % 4 = (z + 3) % 4
          /\ (((z + 1) % 4) + 3) % 4 = z
          /\ (((z + 2) % 4) + 1) % 4 = (z + 3) % 4 /\ (((z + 2) % 4) + 2) % 4 = z
          /\ (((z + 2) % 4) + 3) % 4 = (z + 1) % 4
          /\ (((z + 3) % 4) + 1) % 4 = z /\ (((z + 3) % 4) + 2) % 4 = (z + 1) % 4
          /\ (((z + 3) % 4) + 3) % 4 = (z + 2) % 4
      <4>1. z = 0 \/ z = 1 \/ z = 2 \/ z = 3
        BY <3>4
      <4>. QED BY <4>1
    <3>6. 1 \in 1..3 /\ 2 \in 1..3 /\ 3 \in 1..3
      OBVIOUS
    <3>. QED BY <3>1, <3>3, <3>5, <3>6 DEF Below, z
  <2>4. /\ mix[c] = MixByte(p, q, r, s) /\ mix[at(1)] = MixByte(q, r, s, p)
        /\ mix[at(2)] = MixByte(r, s, p, q) /\ mix[at(3)] = MixByte(s, p, q, r)
    BY <2>2, <2>3, MixColumnsCell
  <2>5. InvMixColumns(mix)[c] = InvMixByte(mix[c], Below(mix, c, 1), Below(mix, c, 2), Below(mix, c, 3))
    BY <1>1, MixColumnsCell
  <2> HIDE DEF mix, at, p, q, r, s
  <2>6. InvMixColumns(mix)[c] = p
    BY <2>1, <2>2, <2>4, <2>5, MixByteInverse
  <2>. QED BY <2>6 DEF p
<1>. QED BY <1>1, <1>2, SameBlock

(***************************************************************************)
(* The properties of the subroutines alone, at every value of a byte.      *)
(***************************************************************************)
LEMMA WalkBytes == WalkSpec => [](byte \in Byte)
<1>1. WalkInit => byte \in Byte
  BY ByteFacts DEF WalkInit
<1>2. byte \in Byte /\ [WalkNext]_byte => (byte \in Byte)'
  <2> SUFFICES ASSUME byte \in Byte, [WalkNext]_byte PROVE byte' \in Byte
    OBVIOUS
  <2>1. byte \in Nat /\ N \in Nat /\ N > 1 /\ Byte = 0..(N - 1)
    BY ByteFacts
  <2>2. (byte + 1) % N \in 0..(N - 1)
    BY <2>1
  <2>. QED BY <2>1, <2>2 DEF WalkNext
<1>. QED BY <1>1, <1>2, PTL DEF WalkSpec

\* ShufflesArePermutations: whatever the random bytes, each of the orders that
\* affine_aes.S computes from them visits every byte, or every column, of a block.
THEOREM ShufflesCorrect == WalkSpec => []ShufflesArePermutations
<1>1. byte \in Byte => ShufflesArePermutations
  <2> SUFFICES ASSUME byte \in Byte PROVE ShufflesArePermutations
    OBVIOUS
  <2>1. byte \in Nat
    BY ByteFacts
  <2>2. Nibble = Cells
    BY DEF Nibble, Cells
  <2>3. ASSUME NEW r2 \in Nibble, NEW r3 \in Nibble
        PROVE  LET rand == <<byte % 16, byte \div 16, r2, r3>>
                   from == [k \in 0..3 |-> rand[k + 1]]
               IN  /\ Reached(permIndices(from)) = Nibble
                   /\ Reached(permIndicesBis(from)) = Nibble
    <3> DEFINE rand == <<byte % 16, byte \div 16, r2, r3>>
               from == [k \in 0..3 |-> rand[k + 1]]
    <3>1. byte % 16 \in Nat /\ byte \div 16 \in Nat /\ r2 \in Nat /\ r3 \in Nat
      BY <2>1 DEF Nibble
    <3>2. \A k \in 0..3 : from[k] \in Nat
      <4>1. from[0] = byte % 16 /\ from[1] = byte \div 16 /\ from[2] = r2 /\ from[3] = r3
        OBVIOUS
      <4> HIDE DEF from
      <4>2. \A k \in 0..3 : k = 0 \/ k = 1 \/ k = 2 \/ k = 3
        OBVIOUS
      <4>. QED BY <3>1, <4>1, <4>2
    <3> HIDE DEF from
    <3>3. Reached(permIndices(from)) = Cells /\ Reached(permIndicesBis(from)) = Cells
      BY <3>2, OrdersReachAll
    <3>. QED BY <2>2, <3>3 DEF from
  <2>4. Reached(permIndicesMC(byte)) = 0..3
    BY <2>1, ColumnsReachAll
  <2>. QED BY <2>3, <2>4 DEF ShufflesArePermutations
<1>. QED BY <1>1, WalkBytes, PTL

\* InvMixColumnsSplits: the subroutine is MixColumns, adding the second part that aes_dec
\* computes makes it InvMixColumns, and InvMixColumns undoes MixColumns.
THEOREM SplitCorrect == WalkSpec => []InvMixColumnsSplits
<1>1. byte \in Byte => InvMixColumnsSplits
  <2> SUFFICES ASSUME byte \in Byte,
                      NEW i \in Cells, NEW perm \in {permIndicesMC(r) : r \in 0..3}
               PROVE  LET a   == [Zeros EXCEPT ![i] = byte]
                          mix == MixColumn_masked(perm, a)
                      IN  /\ mix = MixColumns(a)
                          /\ Xors(mix, InvMixColumns_part2(perm, a, Zeros)) = InvMixColumns(a)
                          /\ InvMixColumns(mix) = a
    BY DEF InvMixColumnsSplits
  <2> DEFINE a == [Zeros EXCEPT ![i] = byte]
  <2>1. a \in Block
    BY ByteFacts DEF Zeros, Block
  <2>2. Reached(perm) = 0..3
    BY ColumnsReachAll
  <2> HIDE DEF a
  <2>3. MixColumn_masked(perm, a) = MixColumns(a)
    BY <2>1, <2>2, MixColumnAll
  <2>4. InvMixColumns_part2(perm, a, Zeros) = SecondPart(a)
    BY <2>1, <2>2, SecondPartAll
  <2>5. Xors(MixColumns(a), SecondPart(a)) = InvMixColumns(a) /\ InvMixColumns(MixColumns(a)) = a
    BY <2>1, SecondPartType, MixColumnsInverse
  <2>. QED BY <2>3, <2>4, <2>5 DEF a
<1>. QED BY <1>1, WalkBytes, PTL

(***************************************************************************)
(* The key schedule, word by word.                                         *)
(***************************************************************************)
MaskedWord(G, a, m, p) ==
  \A r \in 0..3 : /\ a[r] \in Byte /\ m[r] \in Byte /\ p[r] \in Byte
                  /\ Xor(a[r], m[r]) = G[p[r]]

\* A word of the next key from the word before it and the block k at offset o.
NextWord(w, k, o) == [r \in 0..3 |-> Xor(w[r], k[o + r])]

LEMMA NextWordMasked ==
    ASSUME NEW G, Linear(G), NEW a, NEW m, NEW p, MaskedWord(G, a, m, p),
           NEW k, NEW n, NEW q, Masked(G, k, n, q), NEW o \in {0, 4, 8, 12}
    PROVE  MaskedWord(G, NextWord(a, k, o), NextWord(m, n, o), NextWord(p, q, o))
<1> SUFFICES ASSUME NEW r \in 0..3
             PROVE  /\ Xor(a[r], k[o + r]) \in Byte /\ Xor(m[r], n[o + r]) \in Byte
                    /\ Xor(p[r], q[o + r]) \in Byte
                    /\ Xor(Xor(a[r], k[o + r]), Xor(m[r], n[o + r])) = G[Xor(p[r], q[o + r])]
  BY DEF MaskedWord, NextWord
<1>1. o + r \in Cells
  BY DEF Cells
<1>2. /\ k[o + r] \in Byte /\ n[o + r] \in Byte /\ q[o + r] \in Byte
      /\ Xor(k[o + r], n[o + r]) = G[q[o + r]]
  BY <1>1 DEF Masked, Block
<1>3. a[r] \in Byte /\ m[r] \in Byte /\ p[r] \in Byte /\ Xor(a[r], m[r]) = G[p[r]]
  BY DEF MaskedWord
<1>. QED BY <1>2, <1>3, MaskedSum

LEMMA ChainedWords ==
    ASSUME NEW h, NEW k
    PROVE  LET w0 == NextWord(h, k, 0)
               w1 == NextWord(w0, k, 4)
               w2 == NextWord(w1, k, 8)
               w3 == NextWord(w2, k, 12)
           IN  \A c \in Cells :
                 Chained(h, k)[c] = CASE Col(c) = 0 -> w0[Row(c)] [] Col(c) = 1 -> w1[Row(c)]
                                      [] Col(c) = 2 -> w2[Row(c)] [] Col(c) = 3 -> w3[Row(c)]
<1> DEFINE w0 == NextWord(h, k, 0)
           w1 == NextWord(w0, k, 4)
           w2 == NextWord(w1, k, 8)
           w3 == NextWord(w2, k, 12)
<1>1. \A r \in 0..3 : 0 + r = r
  OBVIOUS
<1>2. w0 = [r \in 0..3 |-> Xor(h[r], k[r])]
  BY <1>1 DEF NextWord
<1>3. Chained(h, k) = [c \in Cells |-> <<w0, w1, w2, w3>>[Col(c) + 1][Row(c)]]
  BY <1>2 DEF Chained, NextWord
<1> HIDE DEF w0, w1, w2, w3
<1>4. <<w0, w1, w2, w3>>[1] = w0 /\ <<w0, w1, w2, w3>>[2] = w1
      /\ <<w0, w1, w2, w3>>[3] = w2 /\ <<w0, w1, w2, w3>>[4] = w3
  OBVIOUS
<1>5. ASSUME NEW c \in Cells
      PROVE  Chained(h, k)[c] = CASE Col(c) = 0 -> w0[Row(c)] [] Col(c) = 1 -> w1[Row(c)]
                                  [] Col(c) = 2 -> w2[Row(c)] [] Col(c) = 3 -> w3[Row(c)]
  <2>1. Col(c) \in 0..3
    BY CellFacts
  <2> DEFINE j == Col(c)
             i == Row(c)
  <2>2. Chained(h, k)[c] = <<w0, w1, w2, w3>>[j + 1][i]
    BY <1>3
  <2> HIDE DEF j, i
  <2>3. <<w0, w1, w2, w3>>[j + 1][i] = CASE j = 0 -> w0[i] [] j = 1 -> w1[i]
                                         [] j = 2 -> w2[i] [] j = 3 -> w3[i]
    BY <1>4, <2>1 DEF j
  <2>. QED BY <2>2, <2>3 DEF i, j
<1>. QED BY <1>5 DEF w0, w1, w2, w3

LEMMA ChainedMasked ==
    ASSUME NEW G, Linear(G), NEW a, NEW m, NEW p, MaskedWord(G, a, m, p),
           NEW k, NEW n, NEW q, Masked(G, k, n, q)
    PROVE  Masked(G, Chained(a, k), Chained(m, n), Chained(p, q))
<1> DEFINE a0 == NextWord(a, k, 0)
           a1 == NextWord(a0, k, 4)
           a2 == NextWord(a1, k, 8)
           a3 == NextWord(a2, k, 12)
           m0 == NextWord(m, n, 0)
           m1 == NextWord(m0, n, 4)
           m2 == NextWord(m1, n, 8)
           m3 == NextWord(m2, n, 12)
           p0 == NextWord(p, q, 0)
           p1 == NextWord(p0, q, 4)
           p2 == NextWord(p1, q, 8)
           p3 == NextWord(p2, q, 12)
           Pick(c, x0, x1, x2, x3) ==
             CASE Col(c) = 0 -> x0[Row(c)] [] Col(c) = 1 -> x1[Row(c)]
               [] Col(c) = 2 -> x2[Row(c)] [] Col(c) = 3 -> x3[Row(c)]
<1>1. \A c \in Cells : /\ Chained(a, k)[c] = Pick(c, a0, a1, a2, a3)
                       /\ Chained(m, n)[c] = Pick(c, m0, m1, m2, m3)
                       /\ Chained(p, q)[c] = Pick(c, p0, p1, p2, p3)
  BY ChainedWords
<1> HIDE DEF a0, a1, a2, a3, m0, m1, m2, m3, p0, p1, p2, p3
<1>2. MaskedWord(G, a0, m0, p0)
  BY NextWordMasked DEF a0, m0, p0
<1>3. MaskedWord(G, a1, m1, p1)
  BY <1>2, NextWordMasked DEF a1, m1, p1
<1>4. MaskedWord(G, a2, m2, p2)
  BY <1>3, NextWordMasked DEF a2, m2, p2
<1>5. MaskedWord(G, a3, m3, p3)
  BY <1>4, NextWordMasked DEF a3, m3, p3
<1>6. ASSUME NEW c \in Cells
      PROVE  /\ Chained(a, k)[c] \in Byte /\ Chained(m, n)[c] \in Byte /\ Chained(p, q)[c] \in Byte
             /\ Xor(Chained(a, k)[c], Chained(m, n)[c]) = G[Chained(p, q)[c]]
  <2>1. Col(c) \in 0..3 /\ Row(c) \in 0..3
    BY CellFacts
  <2>2. Col(c) = 0 \/ Col(c) = 1 \/ Col(c) = 2 \/ Col(c) = 3
    BY <2>1
  <2>. QED BY <1>1, <1>2, <1>3, <1>4, <1>5, <2>1, <2>2 DEF MaskedWord
<1>7. Chained(a, k) \in Block /\ Chained(m, n) \in Block /\ Chained(p, q) \in Block
  <2>1. /\ Chained(a, k) = [c \in Cells |-> Chained(a, k)[c]]
        /\ Chained(m, n) = [c \in Cells |-> Chained(m, n)[c]]
        /\ Chained(p, q) = [c \in Cells |-> Chained(p, q)[c]]
    BY DEF Chained
  <2>. QED BY <1>6, <2>1 DEF Block
<1>. QED BY <1>6, <1>7 DEF Masked

\* The masked schedule computes the next key and its masks.
LEMMA ExpansionMasked ==
    ASSUME NEW r \in Byte,
           NEW ctx, Reached(ctx.permIndicesMC) = 0..3, ctx.rin \in Byte, ctx.rout \in Byte,
           MasksBox(ctx.maskedSBox, Sbox, Compute_GTab(r), ctx.rin, ctx.rout),
           ctx.rcon_mult = Map_in_G_rcon_key(Compute_GTab(r)),
           NEW i \in 0..(Rounds - 1),
           NEW w, NEW wm, NEW k, Masked(Compute_GTab(r), w, wm, k)
    PROVE  Masked(Compute_GTab(r), KeyExpansion_masked(ctx, w, wm, i), KeyExpansion_masks(wm),
                  NextKey(k, i))
<1> DEFINE G == Compute_GTab(r)
           sub == [j \in 0..3 |->
                     IF j \in Reached(ctx.permIndicesMC)
                     THEN Xor(Xor(ctx.maskedSBox[Xor(Xor(RotWord(w)[j], ctx.rin), RotWord(wm)[j])],
                                  RotWord(wm)[j]), ctx.rout)
                     ELSE RotWord(w)[j]]
           head == [j \in 0..3 |-> Xor(sub[j], ctx.rcon_mult[4 * i + j])]
           next == [j \in 0..3 |-> IF j = 0 THEN Xor(Sbox[RotWord(k)[j]], Rcon[4 * i])
                                            ELSE Sbox[RotWord(k)[j]]]
<1>1. /\ KeyExpansion_masked(ctx, w, wm, i) = Chained(head, w)
      /\ KeyExpansion_masks(wm) = Chained(RotWord(wm), wm)
      /\ NextKey(k, i) = Chained(next, k)
  BY DEF KeyExpansion_masked, KeyExpansion_masks, NextKey
<1>2. Linear(G) /\ G[0] = 0 /\ \A x \in Byte : G[x] \in Byte
  BY Products DEF Linear
<1> HIDE DEF head, next, G
<1>3. ASSUME NEW j \in 0..3
      PROVE  /\ head[j] \in Byte /\ RotWord(wm)[j] \in Byte /\ next[j] \in Byte
             /\ Xor(head[j], RotWord(wm)[j]) = G[next[j]]
  <2> DEFINE a == RotWord(w)[j]
             m == RotWord(wm)[j]
             p == RotWord(k)[j]
             t == ctx.rcon_mult[4 * i + j]
             s == Sbox[p]
             e == IF j = 0 THEN Rcon[4 * i] ELSE 0
  <2>1. /\ a = w[12 + ((j + 1) % 4)] /\ m = wm[12 + ((j + 1) % 4)] /\ p = k[12 + ((j + 1) % 4)]
        /\ 12 + ((j + 1) % 4) \in Cells
    BY WordCells DEF RotWord
  <2>2. a \in Byte /\ m \in Byte /\ p \in Byte /\ Xor(a, m) = G[p]
    BY <2>1 DEF Masked, Block, G
  <2>3. s \in Byte
    BY <2>2, TableAssumption
  <2>4. e \in Byte /\ t = G[e]
    <3>1. 4 * i \in 0..(4 * Rounds - 1) /\ 4 * i + j \in 0..(4 * Rounds - 1) /\ 0 \in Byte
      BY ByteAssumption, ByteFacts
    <3>2. (4 * i + j) % 4 = j
      BY ByteAssumption
    <3>3. t = IF j = 0 THEN G[Rcon[4 * i + j]] ELSE 0
      BY <3>1, <3>2 DEF Map_in_G_rcon_key, G
    <3>4. Rcon[4 * i] \in Byte
      BY <3>1, TableAssumption
    <3>5. j = 0 => 4 * i + j = 4 * i
      BY ByteAssumption
    <3>. QED BY <1>2, <3>1, <3>3, <3>4, <3>5
  <2>5. next[j] = Xor(s, e)
    <3>1. next[j] = IF j = 0 THEN Xor(s, Rcon[4 * i]) ELSE s
      BY DEF next
    <3>. QED BY <2>3, <3>1, XorSelf
  <2>6. head[j] = Xor(Xor(Xor(ctx.maskedSBox[Xor(Xor(a, ctx.rin), m)], m), ctx.rout), t)
    BY DEF head
  <2>7. ctx.maskedSBox[Xor(G[p], ctx.rin)] = Xor(G[s], ctx.rout)
    BY <2>2 DEF MasksBox, G
  <2> HIDE DEF a, m, p, t, s, e
  <2>8. Xor(Xor(a, ctx.rin), m) = Xor(G[p], ctx.rin)
    <3>1. Xor(Xor(a, ctx.rin), m) = Xor(Xor(a, m), ctx.rin)
      BY <2>2, XorAssoc, XorComm
    <3>. QED BY <2>2, <3>1
  <2>9. G[s] \in Byte
    BY <1>2, <2>3
  <2> DEFINE g == G[s]
  <2>10. Xor(Xor(Xor(g, ctx.rout), m), ctx.rout) = Xor(g, m)
    <3>1. g \in Byte
      BY <2>9
    <3> HIDE DEF g
    <3>2. Xor(Xor(g, ctx.rout), m) = Xor(Xor(g, m), ctx.rout)
      BY <2>2, <3>1, XorAssoc, XorComm
    <3>. QED BY <2>2, <3>1, <3>2, XorType, XorCancel
  <2>11. head[j] = Xor(Xor(G[s], m), t)
    BY <2>6, <2>7, <2>8, <2>10
  <2>12. /\ Xor(G[s], m) \in Byte /\ Xor(Xor(G[s], m), m) = G[s]
         /\ t \in Byte /\ 0 \in Byte /\ Xor(t, 0) = G[e] /\ Xor(m, 0) = m
    BY <1>2, <2>2, <2>4, <2>9, XorType, XorCancel, XorSelf, ByteFacts
  <2>13. /\ Xor(Xor(Xor(G[s], m), t), Xor(m, 0)) = G[Xor(s, e)]
         /\ Xor(Xor(G[s], m), t) \in Byte /\ Xor(s, e) \in Byte
    BY <1>2, <2>2, <2>3, <2>4, <2>12, MaskedSum
  <2>. QED BY <2>2, <2>5, <2>11, <2>12, <2>13 DEF m
<1>4. MaskedWord(G, head, RotWord(wm), next)
  BY <1>3 DEF MaskedWord
<1>. QED BY <1>1, <1>2, <1>4, ChainedMasked DEF G

(***************************************************************************)
(* The contexts and the operations.                                        *)
(***************************************************************************)
TableOf(o) == IF o = "enc" THEN Sbox ELSE InvSbox

KeyGood(k) ==
  /\ k.rmult \in Byte /\ k.rin \in Byte /\ k.rout \in Byte
  /\ Reached(k.permIndicesMC) = 0..3
  /\ k.rcon_mult = Map_in_G_rcon_key(Compute_GTab(k.rmult))
  /\ MasksBox(k.maskedSBox, Sbox, Compute_GTab(k.rmult), k.rin, k.rout)

Onto(perm) == Reached(perm) = Cells /\ \A c \in Cells : \E i \in DOMAIN perm : perm[i] = c

AesGood(x, table) ==
  /\ x.rmult \in Byte /\ x.rin \in Byte /\ x.rout \in Byte /\ x.masksState \in Block
  /\ x.GTab = Compute_GTab(x.rmult)
  /\ Reached(x.permIndicesMC) = 0..3 /\ Reached(x.permIndicesBisMC) = 0..3
  /\ Onto(x.permIndices) /\ Onto(x.permIndicesBis)
  /\ MasksBox(x.sboxMasked, table, Compute_GTab(x.rmult), x.rin, x.rout)

Phases == {"idle", "expand", "key", "rin", "sub", "shift", "part2mask", "mixMask",
           "foldMask", "part2", "mix", "fold", "unmask"}
Running == pc \notin {"idle", "expand"}

TypeInv ==
  /\ maskedState \in [0..Rounds -> Block] /\ masksState \in [0..Rounds -> Block]
  /\ state \in Block /\ state2 \in Block /\ t_temp \in Block
  /\ expanded \in 0..(Rounds + 1) /\ round \in 0..Rounds
  /\ op \in {"enc", "dec"} /\ box \in {"none", "enc", "dec"} /\ pc \in Phases

Contexts ==
  /\ expanded > 0 => KeyGood(key)
  /\ box # "none" => AesGood(aes, TableOf(box))

Control ==
  /\ pc = "idle" => expanded \in {0, Rounds + 1}
  /\ pc = "expand" => expanded \in 1..Rounds
  /\ Running => expanded = Rounds + 1 /\ box = op /\ GTab_key = GTabKey
  /\ pc \in {"foldMask", "part2", "fold"} => op = "dec"

Scratch ==
  op = "dec" => /\ pc = "mixMask" => t_temp = SecondPart(state2)
                /\ pc = "mix" => t_temp = SecondPart(state)

IInv == TypeInv /\ Contexts /\ Control /\ Scratch

(***************************************************************************)
(* The contexts.                                                           *)
(***************************************************************************)
LEMMA SeedFacts ==
    ASSUME NEW T \in Seeds
    PROVE  /\ T \in [0..18 -> Byte] /\ T[16] \in Byte /\ T[17] \in Byte /\ T[18] \in Byte
           /\ Masks(T) \in Block
           /\ \A k \in 0..3 : T[k] \in Nat
<1>1. T \in [0..18 -> Byte] /\ \A i \in 0..18 : T[i] \in Byte
  BY InputAssumption
<1>2. \A c \in Cells : c \in 0..18
  BY DEF Cells
<1>3. \A b \in Byte : b \in Nat
  BY ByteFacts
<1>4. \A k \in 0..3 : k \in 0..18
  OBVIOUS
<1>. QED BY <1>1, <1>2, <1>3, <1>4 DEF Masks, Block

LEMMA KeyContextGood ==
    ASSUME NEW T \in Seeds
    PROVE  KeyGood(KeyContext(T)) /\ KeyContext(T).rmult = T[18]
<1> DEFINE k == KeyContext(T)
<1>1. /\ k.rmult = T[18] /\ k.rin = T[16] /\ k.rout = T[17] /\ k.permIndicesMC = permIndicesMC(T[0])
      /\ k.rcon_mult = Map_in_G_rcon_key(Compute_GTab(T[18]))
      /\ k.maskedSBox = Compute_Affine_sboxMasked(Sbox, Compute_GTab(T[18]), T[16], T[17])
  BY DEF KeyContext
<1> HIDE DEF k
<1>2. T[0] \in Nat /\ T[16] \in Byte /\ T[17] \in Byte /\ T[18] \in Byte
  BY SeedFacts
<1>3. Reached(k.permIndicesMC) = 0..3
  BY <1>1, <1>2, ColumnsReachAll
<1>4. MasksBox(k.maskedSBox, Sbox, Compute_GTab(k.rmult), k.rin, k.rout)
  BY <1>1, <1>2, MaskedBox, TableAssumption
<1>5. KeyGood(k) /\ k.rmult = T[18]
  BY <1>1, <1>2, <1>3, <1>4 DEF KeyGood
<1>. QED BY <1>5 DEF k

LEMMA AesContextGood ==
    ASSUME NEW T \in Seeds, NEW table \in [Byte -> Byte]
    PROVE  AesGood(AesContext(T, table), table)
<1> DEFINE x == AesContext(T, table)
<1>1. /\ x.rmult = T[18] /\ x.rin = T[16] /\ x.rout = T[17] /\ x.masksState = Masks(T)
      /\ x.GTab = Compute_GTab(T[18])
      /\ x.permIndicesMC = permIndicesMC(T[0]) /\ x.permIndicesBisMC = permIndicesMC(T[1])
      /\ x.permIndices = permIndices(T) /\ x.permIndicesBis = permIndicesBis(T)
      /\ x.sboxMasked = Compute_Affine_sboxMasked(table, Compute_GTab(T[18]), T[16], T[17])
  BY DEF AesContext
<1> HIDE DEF x
<1>2. /\ T[0] \in Nat /\ T[1] \in Nat /\ T[16] \in Byte /\ T[17] \in Byte /\ T[18] \in Byte
      /\ Masks(T) \in Block
  BY SeedFacts
<1>3. Reached(x.permIndicesMC) = 0..3 /\ Reached(x.permIndicesBisMC) = 0..3
  BY <1>1, <1>2, ColumnsReachAll
<1>4. Onto(x.permIndices) /\ Onto(x.permIndicesBis)
  BY <1>1, SeedFacts, OrdersReachAll DEF Onto
<1>5. MasksBox(x.sboxMasked, table, Compute_GTab(x.rmult), x.rin, x.rout)
  BY <1>1, <1>2, MaskedBox
<1>6. AesGood(x, table)
  BY <1>1, <1>2, <1>3, <1>4, <1>5 DEF AesGood
<1>. QED BY <1>6 DEF x

LEMMA TableType == \A o : TableOf(o) \in [Byte -> Byte]
  BY TableAssumption DEF TableOf

\* What a running operation finds.
LEMMA RunningFacts ==
    ASSUME IInv, Running
    PROVE  /\ KeyGood(key) /\ AesGood(aes, TableOf(op)) /\ expanded = Rounds + 1
           /\ Factor(aes.GTab) /\ Linear(aes.GTab) /\ aes.GTab = Compute_GTab(aes.rmult)
           /\ aes.rmult \in Byte /\ aes.rin \in Byte /\ key.rmult \in Byte
           /\ Linear(GTab_key) /\ GTab_key \in [Byte -> Byte]
           /\ \A x \in Byte : GTab_key[Compute_GTab(key.rmult)[x]] = aes.GTab[x]
           /\ Reached(OrderOfMasks) = 0..3 /\ Reached(OrderOfBlock) = 0..3
<1>1. /\ expanded = Rounds + 1 /\ box = op /\ op \in {"enc", "dec"} /\ GTab_key = GTabKey
      /\ expanded > 0
  BY ByteAssumption DEF IInv, TypeInv, Control
<1>2. KeyGood(key) /\ AesGood(aes, TableOf(op))
  BY <1>1 DEF IInv, Contexts
<1>3. aes.GTab = Compute_GTab(aes.rmult) /\ aes.rmult \in Byte /\ aes.rin \in Byte /\ key.rmult \in Byte
      /\ Reached(aes.permIndicesMC) = 0..3 /\ Reached(aes.permIndicesBisMC) = 0..3
  BY <1>2 DEF AesGood, KeyGood
<1>4. Linear(aes.GTab) /\ \A x \in Byte : Xtime[aes.GTab[x]] = aes.GTab[Xtime[x]]
  BY <1>3, Products
<1>5. field_division(key.rmult, aes.rmult) \in Byte
  BY <1>3, Division, ByteFacts
<1>6. Linear(GTab_key)
  BY <1>1, <1>5, Products DEF GTabKey
<1>7. \A x \in Byte : GTab_key[Compute_GTab(key.rmult)[x]] = aes.GTab[x]
  BY <1>1, <1>3, Division DEF GTabKey
<1>8. Reached(OrderOfMasks) = 0..3 /\ Reached(OrderOfBlock) = 0..3
  BY <1>3 DEF OrderOfMasks, OrderOfBlock
<1>. QED BY <1>1, <1>2, <1>3, <1>4, <1>6, <1>7, <1>8 DEF Factor, Linear

(***************************************************************************)
(* What each subroutine does to the two halves of the block.               *)
(***************************************************************************)
LEMMA KeyEffect ==
    ASSUME IInv, AddRoundkey
    PROVE  /\ state' = Xors(state, Map(GTab_key, maskedState[round])) /\ state' \in Block
           /\ state2' = Xors(state2, Map(GTab_key, masksState[round])) /\ state2' \in Block
<1>1. Running
  BY DEF AddRoundkey, Running
<1>2. GTab_key \in [Byte -> Byte] /\ Reached(aes.permIndices) = Cells
  BY <1>1, RunningFacts DEF AesGood, Onto
<1>3. state \in Block /\ state2 \in Block /\ maskedState[round] \in Block /\ masksState[round] \in Block
  BY DEF IInv, TypeInv
<1>4. /\ state2' = Add_roundkey_masked(aes, GTab_key, masksState[round], state2)
      /\ state' = Add_roundkey_masked(aes, GTab_key, maskedState[round], state)
  BY DEF AddRoundkey
<1>5. /\ Add_roundkey_masked(aes, GTab_key, masksState[round], state2)
           = Xors(state2, Map(GTab_key, masksState[round]))
      /\ Add_roundkey_masked(aes, GTab_key, maskedState[round], state)
           = Xors(state, Map(GTab_key, maskedState[round]))
  BY <1>2, <1>3, AddRoundkeyAll
<1>6. Map(GTab_key, masksState[round]) \in Block /\ Map(GTab_key, maskedState[round]) \in Block
  BY <1>2, <1>3, MapType
<1>7. /\ Xors(state2, Map(GTab_key, masksState[round])) \in Block
      /\ Xors(state, Map(GTab_key, maskedState[round])) \in Block
  BY <1>3, <1>6, XorsType
<1>. QED BY <1>4, <1>5, <1>7

LEMMA SubEffect ==
    ASSUME IInv, SubBytes
    PROVE  LET p == Clear(aes.rmult, XorAll(state, aes.rin), state2)
           IN  Masked(aes.GTab, state', state2, Map(TableOf(op), p)) /\ state' \in Block
<1> DEFINE p == Clear(aes.rmult, XorAll(state, aes.rin), state2)
<1>1. Running
  BY DEF SubBytes, Running
<1>2. AesGood(aes, TableOf(op)) /\ aes.GTab = Compute_GTab(aes.rmult)
  BY <1>1, RunningFacts
<1>3. state \in Block /\ state2 \in Block /\ state' = SubBytesWithMask(aes, state, state2)
  BY DEF IInv, TypeInv, SubBytes
<1>4. aes.rmult \in Byte /\ aes.rin \in Byte /\ aes.rout \in Byte /\ Reached(aes.permIndices) = Cells
      /\ MasksBox(aes.sboxMasked, TableOf(op), Compute_GTab(aes.rmult), aes.rin, aes.rout)
  BY <1>2 DEF AesGood, Onto
<1>5. Masked(Compute_GTab(aes.rmult), XorAll(state, aes.rin), state2, p)
  BY <1>3, <1>4, XorAllType, ClearMasked
<1> HIDE DEF p
<1>6. Masked(aes.GTab, state', state2, Map(TableOf(op), p))
  BY <1>2, <1>3, <1>4, <1>5, TableType, SubBytesMasked
<1>. QED BY <1>6 DEF Masked, p

Shifted(a) == IF op = "enc" THEN ShiftRows(a) ELSE InvShiftRows(a)

LEMMA ShiftEffect ==
    ASSUME IInv, ShiftRowsWithMasked
    PROVE  /\ state' = Shifted(state) /\ state' \in Block /\ state2' = Shifted(state2) /\ state2' \in Block
           /\ t_temp' \in Block
<1> DEFINE table == IF op = "enc" THEN ShiftTo ELSE ShiftTo_D
           src == IF op = "enc" THEN RowSource ELSE InvRowSource
           temp == Scatter(aes.permIndices, table, state, t_temp)
           temp2 == Scatter(aes.permIndicesBis, table, state2, temp)
<1>1. Running
  BY DEF ShiftRowsWithMasked, Running
<1>2. Onto(aes.permIndices) /\ Onto(aes.permIndicesBis)
  BY <1>1, RunningFacts DEF AesGood
<1>3. state \in Block /\ state2 \in Block
  BY DEF IInv, TypeInv
<1>4. /\ state' = Visit(aes.permIndices, temp, state)
      /\ t_temp' = temp2 /\ state2' = Visit(aes.permIndicesBis, temp2, state2)
  BY DEF ShiftRowsWithMasked
<1>5. Inverse(table, src)
  <2>1. Inverse(ShiftTo, RowSource) /\ Inverse(ShiftTo_D, InvRowSource)
    BY ShiftAssumption, RowSourceCells DEF Inverse
  <2>. QED BY <2>1
<1>6. \A a : Shifted(a) = [c \in Cells |-> a[src[c]]]
  BY ShiftRowsSource DEF Shifted
<1>7. Shifted(state) \in Block /\ Shifted(state2) \in Block
  BY <1>3, RowsType DEF Shifted
<1> HIDE DEF table, src
<1>8. temp = Shifted(state) /\ temp2 = Shifted(state2)
  BY <1>2, <1>5, <1>6, ScatterAll DEF Onto
<1> HIDE DEF temp, temp2
<1>. QED BY <1>2, <1>4, <1>7, <1>8, VisitAll DEF Onto

LEMMA MixEffects ==
    ASSUME IInv
    PROVE  /\ MixMask => state2' = MixColumns(state2) /\ state2' \in Block
           /\ Mix => state' = MixColumns(state) /\ state' \in Block
           /\ Part2Mask => t_temp' = SecondPart(state2) /\ t_temp' \in Block
           /\ Part2 => t_temp' = SecondPart(state) /\ t_temp' \in Block
           /\ FoldMask => state2' = Xors(state2, t_temp) /\ state2' \in Block
           /\ Fold => state' = Xors(state, t_temp) /\ state' \in Block
<1>1. state \in Block /\ state2 \in Block /\ t_temp \in Block
  BY DEF IInv, TypeInv
<1>2. /\ MixColumns(state) \in Block /\ MixColumns(state2) \in Block
      /\ SecondPart(state) \in Block /\ SecondPart(state2) \in Block
      /\ Xors(state, t_temp) \in Block /\ Xors(state2, t_temp) \in Block
  BY <1>1, MixColumnsType, SecondPartType, XorsType
<1>3. Running => Reached(OrderOfMasks) = 0..3 /\ Reached(OrderOfBlock) = 0..3
  BY RunningFacts
<1>4. MixMask => state2' = MixColumns(state2) /\ state2' \in Block
  BY <1>1, <1>2, <1>3, MixColumnAll DEF MixMask, Running
<1>5. Mix => state' = MixColumns(state) /\ state' \in Block
  BY <1>1, <1>2, <1>3, MixColumnAll DEF Mix, Running
<1>6. Part2Mask => t_temp' = SecondPart(state2) /\ t_temp' \in Block
  BY <1>1, <1>2, <1>3, SecondPartAll DEF Part2Mask, Running
<1>7. Part2 => t_temp' = SecondPart(state) /\ t_temp' \in Block
  BY <1>1, <1>2, <1>3, SecondPartAll DEF Part2, Running
<1>. QED BY <1>2, <1>4, <1>5, <1>6, <1>7 DEF FoldMask, Fold

LEMMA UnmaskEffect ==
    ASSUME IInv, Unmask
    PROVE  state' = Clear(aes.rmult, state, state2) /\ state' \in Block
<1>1. aes.rmult \in Byte
  BY RunningFacts DEF Unmask, Running
<1>2. state \in Block /\ state2 \in Block
  BY DEF IInv, TypeInv
<1>3. state' = Clear(aes.rmult, state, state2)
  BY DEF Unmask, Clear
<1>4. Clear(aes.rmult, state, state2) \in Block
  BY <1>1, <1>2, ClearMasked DEF Masked
<1>. QED BY <1>3, <1>4

\* The round key computed next, in clear.
LEMMA ExpandEffect ==
    ASSUME IInv, ExpandKey
    PROVE  LET i == expanded - 1
               k == Clear(key.rmult, maskedState[i], masksState[i])
               a == KeyExpansion_masked(key, maskedState[i], masksState[i], i)
               m == KeyExpansion_masks(masksState[i])
           IN  /\ maskedState' = [maskedState EXCEPT ![expanded] = a]
               /\ masksState' = [masksState EXCEPT ![expanded] = m]
               /\ Masked(Compute_GTab(key.rmult), a, m, NextKey(k, i))
               /\ a \in Block /\ m \in Block
               /\ expanded \in 1..Rounds /\ key.rmult \in Byte
<1> DEFINE i == expanded - 1
           k == Clear(key.rmult, maskedState[i], masksState[i])
           a == KeyExpansion_masked(key, maskedState[i], masksState[i], i)
           m == KeyExpansion_masks(masksState[i])
<1>1. /\ maskedState' = [maskedState EXCEPT ![expanded] = a]
      /\ masksState' = [masksState EXCEPT ![expanded] = m]
  BY DEF ExpandKey
<1>2. expanded \in 1..Rounds /\ KeyGood(key)
  BY DEF IInv, Control, Contexts, ExpandKey
<1>3. i \in 0..(Rounds - 1) /\ i \in 0..Rounds
  BY <1>2, ByteAssumption
<1>4. maskedState[i] \in Block /\ masksState[i] \in Block
  BY <1>3 DEF IInv, TypeInv
<1>5. /\ key.rmult \in Byte /\ key.rin \in Byte /\ key.rout \in Byte /\ Reached(key.permIndicesMC) = 0..3
      /\ key.rcon_mult = Map_in_G_rcon_key(Compute_GTab(key.rmult))
      /\ MasksBox(key.maskedSBox, Sbox, Compute_GTab(key.rmult), key.rin, key.rout)
  BY <1>2 DEF KeyGood
<1>6. Masked(Compute_GTab(key.rmult), maskedState[i], masksState[i], k)
  BY <1>4, <1>5, ClearMasked
<1> HIDE DEF i, k
<1>7. Masked(Compute_GTab(key.rmult), a, m, NextKey(k, i))
  BY <1>3, <1>5, <1>6, ExpansionMasked
<1>. QED BY <1>1, <1>2, <1>5, <1>7 DEF i, k, Masked

(***************************************************************************)
(* The invariant.                                                          *)
(***************************************************************************)
LEMMA ZerosType == Zeros \in Block /\ Zeros \in [Cells -> {0}]
  BY ByteFacts DEF Zeros, Block

LEMMA InvInit == Init => IInv
<1> SUFFICES ASSUME Init PROVE IInv
  OBVIOUS
<1>1. Rounds \in Nat \ {0}
  BY ByteAssumption
<1>2. TypeInv
  BY <1>1, ZerosType DEF Init, TypeInv, Phases
<1>3. Contexts /\ Control /\ Scratch
  BY <1>1 DEF Init, Contexts, Control, Scratch, Running
<1>. QED BY <1>2, <1>3 DEF IInv

LEMMA InvLoadKey ==
    ASSUME IInv, NEW masterkey \in Keys, NEW T \in Seeds, aes_loadKey(masterkey, T)
    PROVE  IInv'
<1>1. KeyGood(KeyContext(T)) /\ T[18] \in Byte /\ Masks(T) \in Block /\ masterkey \in Block
  BY KeyContextGood, SeedFacts, InputAssumption
<1> DEFINE a == Xors(Map(Compute_GTab(T[18]), masterkey), Masks(T))
<1>2. a \in Block
  <2>1. Compute_GTab(T[18]) \in [Byte -> Byte]
    BY <1>1, Products DEF Linear
  <2>. QED BY <1>1, <2>1, MapType, XorsType
<1>3. maskedState' = [maskedState EXCEPT ![0] = a] /\ masksState' = [masksState EXCEPT ![0] = Masks(T)]
  BY DEF aes_loadKey
<1> HIDE DEF a
<1>4. TypeInv'
  BY <1>1, <1>2, <1>3, ByteAssumption DEF IInv, TypeInv, aes_loadKey, aesVars, runVars, Phases
<1>5. Contexts'
  BY <1>1 DEF IInv, Contexts, aes_loadKey, aesVars
<1>6. Control' /\ Scratch'
  BY ByteAssumption DEF IInv, Control, Scratch, Running, aes_loadKey
<1>. QED BY <1>4, <1>5, <1>6 DEF IInv

LEMMA InvExpandKey ==
    ASSUME IInv, ExpandKey
    PROVE  IInv'
<1> DEFINE i == expanded - 1
           a == KeyExpansion_masked(key, maskedState[i], masksState[i], i)
           m == KeyExpansion_masks(masksState[i])
<1>1. /\ maskedState' = [maskedState EXCEPT ![expanded] = a]
      /\ masksState' = [masksState EXCEPT ![expanded] = m]
      /\ a \in Block /\ m \in Block /\ expanded \in 1..Rounds
  BY ExpandEffect
<1> HIDE DEF a, m
<1>2. Rounds \in Nat /\ expanded' = expanded + 1 /\ pc' = (IF expanded = Rounds THEN "idle" ELSE "expand")
      /\ UNCHANGED <<key, aesVars, runVars, output>>
  BY ByteAssumption DEF ExpandKey
<1>3. expanded' \in 0..(Rounds + 1) /\ (expanded = Rounds => expanded' \in {0, Rounds + 1})
      /\ (expanded # Rounds => expanded' \in 1..Rounds)
  BY <1>1, <1>2
<1>4. TypeInv'
  BY <1>1, <1>2, <1>3 DEF IInv, TypeInv, aesVars, runVars, Phases
<1>5. Contexts'
  BY <1>1, <1>2 DEF IInv, Contexts, aesVars
<1>6. Control' /\ Scratch'
  BY <1>2, <1>3 DEF Control, Scratch, Running
<1>. QED BY <1>4, <1>5, <1>6 DEF IInv

LEMMA InvContext ==
    ASSUME IInv, NEW T \in Seeds, aes_init_enc(T) \/ aes_init_dec(T)
    PROVE  IInv'
<1>1. PICK o \in {"enc", "dec"} : InitContext(o, TableOf(o), T)
  BY DEF aes_init_enc, aes_init_dec, TableOf
<1>2. AesGood(AesContext(T, TableOf(o)), TableOf(o))
  BY AesContextGood, TableType
<1>3. pc = "idle" /\ aes' = AesContext(T, TableOf(o)) /\ box' = o /\ UNCHANGED <<keyVars, runVars, pc, output>>
  BY <1>1 DEF InitContext
<1>4. TypeInv'
  BY <1>3 DEF IInv, TypeInv, keyVars, runVars
<1>5. Contexts'
  BY <1>2, <1>3 DEF IInv, Contexts, keyVars
<1>6. Control' /\ Scratch'
  BY <1>3 DEF IInv, Control, Scratch, Running, keyVars, runVars
<1>. QED BY <1>4, <1>5, <1>6 DEF IInv

LEMMA InvLoadData ==
    ASSUME IInv, NEW o \in {"enc", "dec"}, NEW input \in Inputs, Load_data(o, input)
    PROVE  IInv'
<1>1. box = o /\ expanded = Rounds + 1 /\ AesGood(aes, TableOf(o))
  BY DEF Load_data, IInv, Contexts
<1>2. aes.GTab = Compute_GTab(aes.rmult) /\ aes.rmult \in Byte /\ aes.masksState \in Block /\ input \in Block
  BY <1>1, InputAssumption DEF AesGood
<1>3. aes.GTab \in [Byte -> Byte]
  BY <1>2, Products DEF Linear
<1>4. state2' \in Block /\ state' \in Block
  BY <1>2, <1>3, MapType, XorsType DEF Load_data
<1>5. TypeInv'
  BY <1>4, ByteAssumption DEF IInv, TypeInv, Load_data, keyVars, aesVars, Phases
<1>6. Contexts'
  BY DEF IInv, Contexts, Load_data, keyVars, aesVars
<1>7. Control' /\ Scratch'
  BY <1>1 DEF Control, Scratch, Running, Load_data, keyVars, aesVars, GTabKey
<1>. QED BY <1>5, <1>6, <1>7 DEF IInv

\* The steps of a running operation leave the contexts and op alone.
RunStep == AddRoundkey \/ Xor_Word \/ SubBytes \/ ShiftRowsWithMasked
             \/ Part2Mask \/ MixMask \/ FoldMask \/ Part2 \/ Mix \/ Fold \/ Unmask

LEMMA RunFrame ==
    ASSUME IInv, RunStep
    PROVE  /\ Running /\ UNCHANGED <<keyVars, aesVars, op, GTab_key>>
           /\ Contexts' /\ pc' # "expand"
           /\ maskedState' \in [0..Rounds -> Block] /\ masksState' \in [0..Rounds -> Block]
           /\ expanded' \in 0..(Rounds + 1)
           /\ op' \in {"enc", "dec"} /\ box' \in {"none", "enc", "dec"}
           /\ expanded' = Rounds + 1 /\ box' = op' /\ GTab_key' = GTabKey'
<1>1. Running /\ UNCHANGED <<keyVars, aesVars, op, GTab_key>> /\ pc' # "expand"
  <2>1. CASE AddRoundkey
    BY <2>1 DEF AddRoundkey, Running
  <2>2. CASE Xor_Word
    BY <2>2 DEF Xor_Word, Running
  <2>3. CASE SubBytes
    BY <2>3 DEF SubBytes, Running
  <2>4. CASE ShiftRowsWithMasked
    BY <2>4 DEF ShiftRowsWithMasked, Running
  <2>5. CASE Part2Mask \/ MixMask \/ FoldMask
    BY <2>5 DEF Part2Mask, MixMask, FoldMask, Running
  <2>6. CASE Part2 \/ Mix \/ Fold \/ Unmask
    BY <2>6 DEF Part2, Mix, Fold, Unmask, Running
  <2>. QED BY <2>1, <2>2, <2>3, <2>4, <2>5, <2>6 DEF RunStep
<1>2. Contexts'
  BY <1>1 DEF IInv, Contexts, keyVars, aesVars
<1>3. expanded = Rounds + 1 /\ box = op /\ GTab_key = GTabKey
  BY <1>1 DEF IInv, Control
<1>4. expanded' = Rounds + 1 /\ box' = op' /\ GTab_key' = GTabKey'
  BY <1>1, <1>3 DEF keyVars, aesVars, GTabKey
<1>. QED BY <1>1, <1>2, <1>4 DEF IInv, TypeInv, keyVars, aesVars

LEMMA InvRunStep ==
    ASSUME IInv, RunStep
    PROVE  IInv'
<1>1. /\ UNCHANGED <<keyVars, aesVars, op, GTab_key>> /\ Contexts' /\ pc' # "expand"
      /\ maskedState' \in [0..Rounds -> Block] /\ masksState' \in [0..Rounds -> Block]
      /\ expanded' \in 0..(Rounds + 1)
      /\ op' \in {"enc", "dec"} /\ box' \in {"none", "enc", "dec"}
      /\ expanded' = Rounds + 1 /\ box' = op' /\ GTab_key' = GTabKey'
  BY RunFrame
<1>2. state \in Block /\ state2 \in Block /\ t_temp \in Block /\ round \in 0..Rounds /\ op \in {"enc", "dec"}
  BY DEF IInv, TypeInv
<1>3. /\ state' \in Block /\ state2' \in Block /\ t_temp' \in Block /\ round' \in 0..Rounds /\ pc' \in Phases
      /\ pc' \in {"foldMask", "part2", "fold"} => op' = "dec"
      /\ Scratch'
  <2>1. CASE AddRoundkey
    <3>1. state' \in Block /\ state2' \in Block
      BY <2>1, KeyEffect
    <3>2. round' \in 0..Rounds
      BY <1>2, <2>1, ByteAssumption DEF AddRoundkey
    <3>3. pc' \in {"unmask", "rin", "shift", "part2mask"} /\ t_temp' = t_temp
      BY <2>1 DEF AddRoundkey
    <3>. QED BY <1>2, <3>1, <3>2, <3>3 DEF Phases, Scratch
  <2>2. CASE Xor_Word
    <3>1. aes.rin \in Byte
      BY <2>2, RunningFacts DEF Xor_Word, Running
    <3>. QED BY <1>2, <2>2, <3>1, XorAllType DEF Xor_Word, Phases, Scratch
  <2>3. CASE SubBytes
    <3>1. state' \in Block
      BY <2>3, SubEffect
    <3>. QED BY <1>2, <2>3, <3>1 DEF SubBytes, Phases, Scratch
  <2>4. CASE ShiftRowsWithMasked
    <3>1. state' \in Block /\ state2' \in Block /\ t_temp' \in Block
      BY <2>4, ShiftEffect
    <3>2. round' = round /\ op' = op /\ (pc' = "rin" \/ pc' = "mixMask" \/ pc' = "key")
          /\ (pc' = "mixMask" => op = "enc")
      BY <1>2, <2>4 DEF ShiftRowsWithMasked
    <3>. QED BY <1>2, <3>1, <3>2 DEF Phases, Scratch
  <2>5. CASE Part2Mask
    <3>1. t_temp' = SecondPart(state2) /\ t_temp' \in Block
      BY <2>5, MixEffects
    <3>. QED BY <1>2, <2>5, <3>1 DEF Part2Mask, Phases, Scratch
  <2>6. CASE MixMask
    <3>1. state2' \in Block
      BY <2>6, MixEffects
    <3>. QED BY <1>2, <2>6, <3>1 DEF MixMask, Phases, Scratch
  <2>7. CASE FoldMask
    <3>1. state2' \in Block /\ op = "dec"
      BY <2>7, MixEffects DEF FoldMask, IInv, Control
    <3>. QED BY <1>2, <2>7, <3>1 DEF FoldMask, Phases, Scratch
  <2>8. CASE Part2
    <3>1. t_temp' = SecondPart(state) /\ t_temp' \in Block
      BY <2>8, MixEffects
    <3>. QED BY <1>2, <2>8, <3>1 DEF Part2, Phases, Scratch
  <2>9. CASE Mix
    <3>1. state' \in Block
      BY <2>9, MixEffects
    <3>. QED BY <1>2, <2>9, <3>1 DEF Mix, Phases, Scratch
  <2>10. CASE Fold
    <3>1. state' \in Block
      BY <2>10, MixEffects
    <3>. QED BY <1>2, <2>10, <3>1 DEF Fold, Phases, Scratch
  <2>11. CASE Unmask
    <3>1. state' \in Block
      BY <2>11, UnmaskEffect
    <3>. QED BY <1>2, <2>11, <3>1 DEF Unmask, Phases, Scratch
  <2>. QED BY <2>1, <2>2, <2>3, <2>4, <2>5, <2>6, <2>7, <2>8, <2>9, <2>10, <2>11 DEF RunStep
<1>4. TypeInv'
  BY <1>1, <1>3 DEF TypeInv
<1>5. Control'
  BY <1>1, <1>3 DEF Control, Running
<1>. QED BY <1>1, <1>3, <1>4, <1>5 DEF IInv

LEMMA InvStep == IInv /\ [Next]_vars => IInv'
<1> SUFFICES ASSUME IInv, [Next]_vars PROVE IInv'
  OBVIOUS
<1>1. CASE \E masterkey \in Keys, T \in Seeds : aes_loadKey(masterkey, T)
  BY <1>1, InvLoadKey
<1>2. CASE ExpandKey
  BY <1>2, InvExpandKey
<1>3. CASE \E T \in Seeds : aes_init_enc(T) \/ aes_init_dec(T)
  BY <1>3, InvContext
<1>4. CASE \E o \in {"enc", "dec"}, input \in Inputs : Load_data(o, input)
  BY <1>4, InvLoadData
<1>5. CASE RunStep
  BY <1>5, InvRunStep
<1>6. CASE UNCHANGED vars
  BY <1>6 DEF vars, keyVars, aesVars, runVars, IInv, TypeInv, Contexts, Control, Scratch, Running, GTabKey
<1>. QED BY <1>1, <1>2, <1>3, <1>4, <1>5, <1>6 DEF Next, RunStep

(***************************************************************************)
(* The transformations of the plain cipher are those of AesMath.           *)
(***************************************************************************)
LEMMA PlainOperators ==
    /\ Plain!Zeros = Zeros
    /\ \A a, b : Plain!Xors(a, b) = Xors(a, b) /\ Plain!Map(a, b) = Map(a, b)
    /\ \A a : Plain!ShiftRows(a) = ShiftRows(a) /\ Plain!InvShiftRows(a) = InvShiftRows(a)
    /\ \A a : Plain!MixColumns(a) = MixColumns(a) /\ Plain!InvMixColumns(a) = InvMixColumns(a)
    /\ \A k, i : Plain!NextKey(k, i) = NextKey(k, i)
<1>1. Plain!Zeros = Zeros
  BY DEF Plain!Zeros, Zeros, Plain!Cells, Cells
<1>2. \A a, b : Plain!Xors(a, b) = Xors(a, b) /\ Plain!Map(a, b) = Map(a, b)
  BY DEF Plain!Xors, Xors, Plain!Map, Map, Plain!Cells, Cells
<1>3. \A a : Plain!ShiftRows(a) = ShiftRows(a) /\ Plain!InvShiftRows(a) = InvShiftRows(a)
  BY DEF Plain!ShiftRows, ShiftRows, Plain!InvShiftRows, InvShiftRows, Plain!Cells, Cells,
         Plain!Col, Col, Plain!Row, Row
<1>4. \A a : Plain!MixColumns(a) = MixColumns(a)
  BY DEF Plain!MixColumns, MixColumns, Plain!Cells, Cells, Plain!Times2, Times2,
         Plain!Xor4, Xor4, Plain!Below, Below, Plain!Col, Col, Plain!Row, Row
<1>5. \A a : Plain!InvMixColumns(a) = InvMixColumns(a)
  BY DEF Plain!InvMixColumns, InvMixColumns, Plain!Cells, Cells, Plain!Times2, Times2,
         Plain!Times4, Times4, Plain!Times8, Times8,
         Plain!Xor4, Xor4, Plain!Below, Below, Plain!Col, Col, Plain!Row, Row
<1>6. \A h, k : Plain!Chained(h, k) = Chained(h, k)
  BY DEF Plain!Chained, Chained, Plain!Cells, Cells, Plain!Col, Plain!Row, Row, Col
<1>7. \A k : Plain!RotWord(k) = RotWord(k)
  BY DEF Plain!RotWord, RotWord
<1>8. \A k, i : Plain!NextKey(k, i) = NextKey(k, i)
  BY <1>6, <1>7 DEF Plain!NextKey, NextKey
<1>. QED BY <1>1, <1>2, <1>3, <1>4, <1>5, <1>8

\* The state of the plain cipher.
ClearKeys == [r \in 0..(expanded - 1) |-> Clear(key.rmult, maskedState[r], masksState[r])]

(***************************************************************************)
(* The key schedule.                                                       *)
(***************************************************************************)
LEMMA SimInit == Init => Plain!Init
<1> SUFFICES ASSUME Init PROVE Plain!Init
  OBVIOUS
<1>1. expanded = 0 /\ pc = "idle" /\ state = Zeros /\ op = "enc" /\ round = 0 /\ output = Zeros
  BY DEF Init
<1>2. ClearKeys = [r \in {} |-> Zeros]
  <2>1. 0..(expanded - 1) = {}
    BY <1>1
  <2>. QED BY <2>1 DEF ClearKeys
<1>3. PlainPhase = "idle" /\ PlainBlock = Zeros
  BY <1>1 DEF PlainPhase, PlainBlock
<1>. QED BY <1>1, <1>2, <1>3, PlainOperators DEF Plain!Init, ClearKeys

LEMMA SimLoadKey ==
    ASSUME IInv, NEW masterkey \in Keys, NEW T \in Seeds, aes_loadKey(masterkey, T)
    PROVE  Plain!LoadKey(masterkey)
<1> DEFINE G == Compute_GTab(T[18])
           a == Xors(Map(G, masterkey), Masks(T))
<1>1. /\ pc = "idle" /\ pc' = "expand" /\ expanded' = 1 /\ key' = KeyContext(T)
      /\ maskedState' = [maskedState EXCEPT ![0] = a] /\ masksState' = [masksState EXCEPT ![0] = Masks(T)]
      /\ UNCHANGED <<state, op, round, output>>
  BY DEF aes_loadKey, runVars
<1>2. KeyContext(T).rmult = T[18] /\ T[18] \in Byte /\ Masks(T) \in Block /\ masterkey \in Block
  BY KeyContextGood, SeedFacts, InputAssumption
<1>3. G \in [Byte -> Byte]
  BY <1>2, Products DEF Linear
<1>4. Masked(G, a, Masks(T), masterkey)
  BY <1>2, <1>3, Masking
<1>5. Clear(T[18], a, Masks(T)) = masterkey
  BY <1>2, <1>4, MaskedClear
<1> HIDE DEF a
<1>6. maskedState'[0] = a /\ masksState'[0] = Masks(T)
  <2>1. maskedState \in [0..Rounds -> Block] /\ masksState \in [0..Rounds -> Block] /\ 0 \in 0..Rounds
    BY ByteAssumption DEF IInv, TypeInv
  <2>. QED BY <1>1, <2>1
<1>7. ClearKeys' = [r \in {0} |-> masterkey]
  <2>1. 0..(expanded' - 1) = {0}
    BY <1>1
  <2>2. ClearKeys' = [r \in 0..(expanded' - 1) |-> Clear(key'.rmult, maskedState'[r], masksState'[r])]
    BY DEF ClearKeys
  <2>3. Clear(key'.rmult, maskedState'[0], masksState'[0]) = masterkey
    BY <1>1, <1>2, <1>5, <1>6
  <2>. QED BY <2>1, <2>2, <2>3
<1>8. PlainPhase = "idle" /\ PlainPhase' = "expand" /\ PlainBlock' = PlainBlock
  BY <1>1 DEF PlainPhase, PlainBlock
<1>. QED BY <1>1, <1>7, <1>8 DEF Plain!LoadKey, ClearKeys

LEMMA SimExpandKey ==
    ASSUME IInv, ExpandKey
    PROVE  Plain!ExpandKey
<1> DEFINE i == expanded - 1
           k == Clear(key.rmult, maskedState[i], masksState[i])
           a == KeyExpansion_masked(key, maskedState[i], masksState[i], i)
           m == KeyExpansion_masks(masksState[i])
<1>1. /\ maskedState' = [maskedState EXCEPT ![expanded] = a]
      /\ masksState' = [masksState EXCEPT ![expanded] = m]
      /\ Masked(Compute_GTab(key.rmult), a, m, NextKey(k, i))
      /\ expanded \in 1..Rounds /\ key.rmult \in Byte
  BY ExpandEffect
<1>2. Clear(key.rmult, a, m) = NextKey(k, i)
  BY <1>1, MaskedClear
<1>3. /\ pc = "expand" /\ expanded' = expanded + 1 /\ key' = key
      /\ pc' = (IF expanded = Rounds THEN "idle" ELSE "expand")
      /\ UNCHANGED <<state, op, round, output>>
  BY DEF ExpandKey, runVars
<1>4. /\ i \in 0..(Rounds - 1) /\ expanded = i + 1 /\ Rounds \in Nat
      /\ 0..(expanded - 1) = 0..i /\ 0..(expanded' - 1) = 0..(i + 1)
  BY <1>1, <1>3, ByteAssumption
<1>5. maskedState \in [0..Rounds -> Block] /\ masksState \in [0..Rounds -> Block]
  BY DEF IInv, TypeInv
<1> HIDE DEF a, m, i
<1>6. /\ \A r \in 0..i : maskedState'[r] = maskedState[r] /\ masksState'[r] = masksState[r]
      /\ maskedState'[i + 1] = a /\ masksState'[i + 1] = m
  BY <1>1, <1>4, <1>5
<1>7. ClearKeys = [r \in 0..i |-> Clear(key.rmult, maskedState[r], masksState[r])] /\ ClearKeys[i] = k
  BY <1>4 DEF ClearKeys
<1>8. ClearKeys' = [r \in 0..(i + 1) |-> IF r <= i THEN ClearKeys[r] ELSE NextKey(ClearKeys[i], i)]
  <2>1. ClearKeys' = [r \in 0..(i + 1) |-> Clear(key.rmult, maskedState'[r], masksState'[r])]
    BY <1>3, <1>4 DEF ClearKeys
  <2>2. ASSUME NEW r \in 0..(i + 1)
        PROVE  Clear(key.rmult, maskedState'[r], masksState'[r])
                 = IF r <= i THEN ClearKeys[r] ELSE NextKey(ClearKeys[i], i)
    <3>1. CASE r <= i
      <4>1. r \in 0..i
        BY <1>4, <3>1
      <4>. QED BY <1>6, <1>7, <3>1, <4>1
    <3>2. CASE r = i + 1
      <4>1. ~(r <= i)
        BY <1>4, <3>2
      <4>. QED BY <1>2, <1>6, <1>7, <3>2, <4>1
    <3>. QED BY <1>4, <3>1, <3>2
  <2>. QED BY <2>1, <2>2
<1>9. /\ PlainPhase = "expand" /\ PlainBlock' = PlainBlock
      /\ PlainPhase' = IF i + 1 = Rounds THEN "idle" ELSE "expand"
  BY <1>3, <1>4 DEF PlainPhase, PlainBlock
<1>10. DOMAIN ClearKeys = 0..i
  BY <1>7
<1>11. Plain!ExpandKey
  <2>1. /\ i \in 0..(Rounds - 1) /\ DOMAIN ClearKeys = 0..i
        /\ ClearKeys' = [r \in 0..(i + 1) |-> IF r <= i THEN ClearKeys[r]
                                              ELSE Plain!NextKey(ClearKeys[i], i)]
    BY <1>4, <1>8, <1>10, PlainOperators
  <2>. QED BY <1>3, <1>9, <2>1 DEF Plain!ExpandKey, ClearKeys
<1>. QED BY <1>11

LEMMA SimContext ==
    ASSUME IInv, NEW T \in Seeds, aes_init_enc(T) \/ aes_init_dec(T)
    PROVE  UNCHANGED Plain!vars
<1>1. pc = "idle" /\ UNCHANGED <<keyVars, runVars, pc, output>>
  BY DEF aes_init_enc, aes_init_dec, InitContext
<1>2. UNCHANGED <<ClearKeys, op, PlainPhase, round, PlainBlock, output>>
  BY <1>1 DEF keyVars, runVars, ClearKeys, PlainPhase, PlainBlock
<1>. QED BY <1>2 DEF Plain!vars, ClearKeys

LEMMA SimLoadData ==
    ASSUME IInv, NEW o \in {"enc", "dec"}, NEW input \in Inputs, Load_data(o, input)
    PROVE  Plain!Begin(o, input)
<1>1. /\ pc = "idle" /\ expanded = Rounds + 1 /\ box = o /\ op' = o /\ pc' = "key"
      /\ round' = (IF o = "enc" THEN 0 ELSE Rounds)
      /\ state2' = aes.masksState /\ state' = Xors(Map(aes.GTab, input), aes.masksState)
      /\ UNCHANGED <<keyVars, aesVars, output>>
  BY DEF Load_data
<1>2. AesGood(aes, TableOf(o)) /\ input \in Block
  BY <1>1, InputAssumption DEF IInv, Contexts
<1>3. aes.GTab = Compute_GTab(aes.rmult) /\ aes.rmult \in Byte /\ aes.masksState \in Block
  BY <1>2 DEF AesGood
<1>4. Masked(aes.GTab, state', state2', input)
  <2>1. aes.GTab \in [Byte -> Byte]
    BY <1>3, Products DEF Linear
  <2>. QED BY <1>1, <1>2, <1>3, <2>1, Masking
<1>5. Clear(aes.rmult, state', state2') = input
  BY <1>3, <1>4, MaskedClear
<1>6. PlainPhase = "idle" /\ PlainPhase' = "key" /\ PlainBlock' = input
  BY <1>1, <1>5 DEF PlainPhase, PlainBlock, aesVars
<1>7. UNCHANGED ClearKeys /\ DOMAIN ClearKeys = 0..Rounds
  BY <1>1, ByteAssumption DEF ClearKeys, keyVars
<1>. QED BY <1>1, <1>6, <1>7 DEF Plain!Begin, ClearKeys

(***************************************************************************)
(* The rounds.                                                             *)
(***************************************************************************)
\* A running operation sees its block and its round keys in clear.
LEMMA RunClear ==
    ASSUME IInv, RunStep
    PROVE  /\ UNCHANGED <<ClearKeys, op, aes, GTab_key>> /\ op \in {"enc", "dec"}
           /\ Masked(aes.GTab, state, state2, Clear(aes.rmult, state, state2))
           /\ \A p : Masked(aes.GTab, state', state2', p) => Clear(aes.rmult, state', state2') = p
           /\ DOMAIN ClearKeys = 0..Rounds
           /\ \A r \in 0..Rounds :
                Masked(Compute_GTab(key.rmult), maskedState[r], masksState[r], ClearKeys[r])
<1>1. Running /\ UNCHANGED <<keyVars, aesVars, op, GTab_key>>
  BY RunFrame
<1>2. aes.GTab = Compute_GTab(aes.rmult) /\ aes.rmult \in Byte /\ key.rmult \in Byte /\ expanded = Rounds + 1
  BY <1>1, RunningFacts
<1>3. /\ state \in Block /\ state2 \in Block /\ op \in {"enc", "dec"}
      /\ \A r \in 0..Rounds : maskedState[r] \in Block /\ masksState[r] \in Block
  BY DEF IInv, TypeInv
<1>4. 0..(expanded - 1) = 0..Rounds
  BY <1>2, ByteAssumption
<1>5. ASSUME NEW r \in 0..Rounds
      PROVE  Masked(Compute_GTab(key.rmult), maskedState[r], masksState[r], ClearKeys[r])
  <2>1. ClearKeys[r] = Clear(key.rmult, maskedState[r], masksState[r])
    BY <1>4 DEF ClearKeys
  <2>. QED BY <1>2, <1>3, <2>1, ClearMasked
<1>6. Masked(aes.GTab, state, state2, Clear(aes.rmult, state, state2))
  BY <1>2, <1>3, ClearMasked
<1>7. ASSUME NEW p, Masked(aes.GTab, state', state2', p)
      PROVE  Clear(aes.rmult, state', state2') = p
  BY <1>2, <1>7, MaskedClear
<1>8. UNCHANGED ClearKeys /\ DOMAIN ClearKeys = 0..Rounds
  BY <1>1, <1>4 DEF ClearKeys, keyVars
<1>. QED BY <1>1, <1>3, <1>5, <1>6, <1>7, <1>8 DEF aesVars

LEMMA SimAddRoundkey ==
    ASSUME IInv, AddRoundkey
    PROVE  Plain!AddRoundKey
<1> DEFINE p == Clear(aes.rmult, state, state2)
           q == Xors(p, ClearKeys[round])
<1>1. Running /\ RunStep
  BY DEF AddRoundkey, Running, RunStep
<1>2. /\ UNCHANGED <<ClearKeys, op, aes>> /\ op \in {"enc", "dec"}
      /\ Masked(aes.GTab, state, state2, p)
      /\ \A x : Masked(aes.GTab, state', state2', x) => Clear(aes.rmult, state', state2') = x
  BY <1>1, RunClear
<1>3. round \in 0..Rounds
  BY DEF IInv, TypeInv
<1>4. Masked(Compute_GTab(key.rmult), maskedState[round], masksState[round], ClearKeys[round])
  BY <1>1, <1>3, RunClear
<1>5. /\ Linear(aes.GTab) /\ Linear(GTab_key)
      /\ \A x \in Byte : GTab_key[Compute_GTab(key.rmult)[x]] = aes.GTab[x]
  BY <1>1, RunningFacts
<1>6. /\ state' = Xors(state, Map(GTab_key, maskedState[round]))
      /\ state2' = Xors(state2, Map(GTab_key, masksState[round]))
  BY KeyEffect
<1> HIDE DEF p
<1>7. Masked(aes.GTab, state', state2', q)
  BY <1>2, <1>4, <1>5, <1>6, AddMasked
<1> HIDE DEF q
<1>8. Clear(aes.rmult, state', state2') = q
  BY <1>2, <1>7
<1>9. /\ pc = "key" /\ output' = output
      /\ op = "enc" => /\ pc' = IF round = Rounds THEN "unmask" ELSE "rin"
                       /\ round' = IF round = Rounds THEN round ELSE round + 1
      /\ op = "dec" => /\ pc' = IF round = 0 THEN "unmask" ELSE IF round = Rounds THEN "shift" ELSE "part2mask"
                       /\ round' = IF round = 0 THEN round ELSE round - 1
  BY ByteAssumption DEF AddRoundkey
<1>10. pc' \in {"unmask", "rin", "shift", "part2mask"}
  BY <1>2, <1>9
<1>11. PlainPhase = "key" /\ PlainBlock = p /\ PlainBlock' = q
  BY <1>2, <1>8, <1>9, <1>10 DEF PlainPhase, PlainBlock, p
<1>12. PlainPhase' = IF pc' = "unmask" THEN "out" ELSE IF pc' = "rin" THEN "sub"
                     ELSE IF pc' = "shift" THEN "shift" ELSE "mix"
  BY <1>10 DEF PlainPhase
<1>13. PlainBlock' = Plain!Xors(PlainBlock, ClearKeys[round])
  BY <1>11, PlainOperators DEF q
<1>14. CASE op = "enc"
  <2>1. PlainPhase' = IF round = Rounds THEN "out" ELSE "sub"
    BY <1>9, <1>12, <1>14
  <2>. QED BY <1>2, <1>9, <1>11, <1>13, <1>14, <2>1 DEF Plain!AddRoundKey, ClearKeys
<1>15. CASE op = "dec"
  <2>1. PlainPhase' = CASE round = 0 -> "out" [] round = Rounds -> "shift" [] OTHER -> "mix"
    BY <1>9, <1>12, <1>15, ByteAssumption
  <2>. QED BY <1>2, <1>9, <1>11, <1>13, <1>15, <2>1 DEF Plain!AddRoundKey, ClearKeys
<1>. QED BY <1>2, <1>14, <1>15

LEMMA SimXorWord ==
    ASSUME IInv, Xor_Word
    PROVE  UNCHANGED Plain!vars
<1>1. Running /\ RunStep
  BY DEF Xor_Word, Running, RunStep
<1>2. UNCHANGED <<ClearKeys, op, aes>>
  BY <1>1, RunClear
<1>3. /\ pc = "rin" /\ pc' = "sub" /\ state' = XorAll(state, aes.rin)
      /\ UNCHANGED <<round, state2, output>>
  BY DEF Xor_Word
<1>4. state \in Block /\ aes.rin \in Byte
  BY <1>1, RunningFacts DEF IInv, TypeInv
<1>5. XorAll(state', aes.rin) = state
  BY <1>3, <1>4, XorAllType
<1>6. PlainPhase' = PlainPhase
  BY <1>3 DEF PlainPhase
<1>7. PlainBlock = Clear(aes.rmult, state, state2)
      /\ PlainBlock' = Clear(aes.rmult, XorAll(state', aes.rin), state2)
  BY <1>2, <1>3 DEF PlainBlock
<1>. QED BY <1>2, <1>3, <1>5, <1>6, <1>7 DEF Plain!vars, ClearKeys

LEMMA SimSubBytes ==
    ASSUME IInv, SubBytes
    PROVE  Plain!SubBytes
<1>1. Running /\ RunStep
  BY DEF SubBytes, Running, RunStep
<1>2. /\ UNCHANGED <<ClearKeys, op, aes>> /\ op \in {"enc", "dec"}
      /\ \A x : Masked(aes.GTab, state', state2', x) => Clear(aes.rmult, state', state2') = x
  BY <1>1, RunClear
<1>3. /\ pc = "sub" /\ pc' = (IF op = "enc" THEN "shift" ELSE "key")
      /\ UNCHANGED <<round, state2, output>>
  BY DEF SubBytes
<1>4. PlainBlock = Clear(aes.rmult, XorAll(state, aes.rin), state2)
  BY <1>3 DEF PlainBlock
<1>5. Masked(aes.GTab, state', state2', Map(TableOf(op), PlainBlock))
  BY <1>3, <1>4, SubEffect
<1>6. PlainBlock' = Clear(aes.rmult, state', state2')
  BY <1>2, <1>3 DEF PlainBlock
<1>7. PlainBlock' = Plain!Map(IF op = "enc" THEN Sbox ELSE InvSbox, PlainBlock)
  BY <1>2, <1>5, <1>6, PlainOperators DEF TableOf
<1>8. PlainPhase = "sub" /\ PlainPhase' = IF op = "enc" THEN "shift" ELSE "key"
  BY <1>2, <1>3 DEF PlainPhase
<1>. QED BY <1>2, <1>3, <1>7, <1>8 DEF Plain!SubBytes, ClearKeys

LEMMA SimShiftRows ==
    ASSUME IInv, ShiftRowsWithMasked
    PROVE  Plain!ShiftRow
<1> DEFINE p == Clear(aes.rmult, state, state2)
<1>1. Running /\ RunStep
  BY DEF ShiftRowsWithMasked, Running, RunStep
<1>2. /\ UNCHANGED <<ClearKeys, op, aes>> /\ op \in {"enc", "dec"}
      /\ Masked(aes.GTab, state, state2, p)
      /\ \A x : Masked(aes.GTab, state', state2', x) => Clear(aes.rmult, state', state2') = x
  BY <1>1, RunClear
<1>3. /\ pc = "shift" /\ UNCHANGED <<round, output>>
      /\ pc' = IF op = "dec" THEN "rin" ELSE IF round < Rounds THEN "mixMask" ELSE "key"
  BY DEF ShiftRowsWithMasked
<1>4. state' = Shifted(state) /\ state2' = Shifted(state2)
  BY ShiftEffect
<1> HIDE DEF p
<1>5. Masked(aes.GTab, state', state2', Shifted(p))
  BY <1>2, <1>4, MovedMasked DEF Shifted
<1>6. PlainBlock = p
  BY <1>3 DEF PlainBlock, p
<1>7. pc' \in {"rin", "mixMask", "key"}
  BY <1>3
<1>8. PlainBlock' = Clear(aes.rmult, state', state2')
  BY <1>2, <1>7 DEF PlainBlock
<1>9. PlainBlock' = IF op = "enc" THEN Plain!ShiftRows(PlainBlock) ELSE Plain!InvShiftRows(PlainBlock)
  BY <1>2, <1>5, <1>6, <1>8, PlainOperators DEF Shifted
<1>10. /\ PlainPhase = "shift"
       /\ PlainPhase' = IF op = "dec" THEN "sub" ELSE IF round < Rounds THEN "mix" ELSE "key"
  BY <1>2, <1>3 DEF PlainPhase
<1>. QED BY <1>2, <1>3, <1>9, <1>10 DEF Plain!ShiftRow, ClearKeys

\* The plain mix happens when the masks move; the rest of it is stuttering.
LEMMA SimMixMask ==
    ASSUME IInv, MixMask
    PROVE  Plain!MixColumn
<1> DEFINE p == Clear(aes.rmult, state, state2)
<1>1. Running /\ RunStep
  BY DEF MixMask, Running, RunStep
<1>2. /\ UNCHANGED <<ClearKeys, op, aes>> /\ op \in {"enc", "dec"}
      /\ Masked(aes.GTab, state, state2, p)
  BY <1>1, RunClear
<1>3. /\ pc = "mixMask" /\ pc' = (IF op = "enc" THEN "mix" ELSE "foldMask")
      /\ UNCHANGED <<round, state, t_temp, output>>
  BY DEF MixMask
<1>4. Factor(aes.GTab) /\ aes.GTab = Compute_GTab(aes.rmult) /\ aes.rmult \in Byte
  BY <1>1, RunningFacts
<1>5. state2' = MixColumns(state2) /\ state2 \in Block
  BY MixEffects DEF IInv, TypeInv
<1>6. PlainBlock = p /\ PlainPhase = "mix"
  BY <1>3 DEF PlainBlock, PlainPhase
<1> HIDE DEF p
<1>7. /\ Masked(aes.GTab, MixColumns(state), MixColumns(state2), MixColumns(p))
      /\ Masked(aes.GTab, InvMixColumns(state), InvMixColumns(state2), InvMixColumns(p))
  BY <1>2, <1>4, MixMasked
<1>8. /\ Clear(aes.rmult, MixColumns(state), MixColumns(state2)) = MixColumns(p)
      /\ Clear(aes.rmult, InvMixColumns(state), InvMixColumns(state2)) = InvMixColumns(p)
  BY <1>4, <1>7, MaskedClear
<1>9. CASE op = "enc"
  <2>1. PlainBlock' = Clear(aes.rmult, MixColumns(state), state2') /\ PlainPhase' = "key"
    BY <1>2, <1>3, <1>9 DEF PlainBlock, PlainPhase
  <2>2. PlainBlock' = Plain!MixColumns(PlainBlock)
    BY <1>5, <1>6, <1>8, <2>1, PlainOperators
  <2>. QED BY <1>2, <1>3, <1>6, <1>9, <2>1, <2>2 DEF Plain!MixColumn, ClearKeys
<1>10. CASE op = "dec"
  <2>1. PlainBlock' = Clear(aes.rmult, InvMixColumns(state), Xors(state2', t_temp)) /\ PlainPhase' = "shift"
    BY <1>2, <1>3, <1>10 DEF PlainBlock, PlainPhase
  <2>2. t_temp = SecondPart(state2)
    BY <1>3, <1>10 DEF IInv, Scratch
  <2>3. Xors(state2', t_temp) = InvMixColumns(state2)
    BY <1>5, <2>2, SecondPartType
  <2>4. PlainBlock' = Plain!InvMixColumns(PlainBlock)
    BY <1>6, <1>8, <2>1, <2>3, PlainOperators
  <2>. QED BY <1>2, <1>3, <1>6, <1>10, <2>1, <2>4 DEF Plain!MixColumn, ClearKeys
<1>. QED BY <1>2, <1>9, <1>10

LEMMA SimMixSteps ==
    ASSUME IInv, Part2Mask \/ FoldMask \/ Part2 \/ Mix \/ Fold
    PROVE  UNCHANGED Plain!vars
<1>1. RunStep /\ UNCHANGED <<round, output>>
  BY DEF RunStep, Part2Mask, FoldMask, Part2, Mix, Fold
<1>2. UNCHANGED <<ClearKeys, op, aes>> /\ op \in {"enc", "dec"}
  BY <1>1, RunClear
<1>3. state \in Block /\ state2 \in Block
  BY DEF IInv, TypeInv
<1>4. UNCHANGED <<PlainPhase, PlainBlock>>
  <2>1. CASE Part2Mask
    <3>1. pc = "part2mask" /\ pc' = "mixMask" /\ UNCHANGED <<state, state2>>
      BY <2>1 DEF Part2Mask
    <3>. QED BY <1>2, <3>1 DEF PlainPhase, PlainBlock
  <2>2. CASE FoldMask
    <3>1. pc = "foldMask" /\ pc' = "part2" /\ state' = state
      BY <2>2 DEF FoldMask
    <3>2. state2' = Xors(state2, t_temp)
      BY <2>2, MixEffects
    <3>3. PlainPhase = "shift" /\ PlainPhase' = "shift"
      BY <3>1 DEF PlainPhase
    <3>4. /\ PlainBlock = Clear(aes.rmult, InvMixColumns(state), Xors(state2, t_temp))
          /\ PlainBlock' = Clear(aes.rmult, InvMixColumns(state), state2')
      BY <1>2, <3>1 DEF PlainBlock
    <3>. QED BY <3>2, <3>3, <3>4
  <2>3. CASE Part2
    <3>1. pc = "part2" /\ pc' = "mix" /\ UNCHANGED <<state, state2>> /\ op = "dec"
      BY <2>3 DEF Part2, IInv, Control
    <3>2. PlainPhase = "shift" /\ PlainPhase' = "shift"
      BY <1>2, <3>1 DEF PlainPhase
    <3>3. /\ PlainBlock = Clear(aes.rmult, InvMixColumns(state), state2)
          /\ PlainBlock' = Clear(aes.rmult, InvMixColumns(state), state2)
      BY <1>2, <3>1 DEF PlainBlock
    <3>. QED BY <3>2, <3>3
  <2>4. CASE Mix
    <3>1. pc = "mix" /\ pc' = (IF op = "enc" THEN "key" ELSE "fold") /\ UNCHANGED <<state2, t_temp>>
      BY <2>4 DEF Mix
    <3>2. state' = MixColumns(state)
      BY <2>4, MixEffects
    <3>3. CASE op = "enc"
      <4>1. PlainPhase = "key" /\ PlainPhase' = "key"
        BY <1>2, <3>1, <3>3 DEF PlainPhase
      <4>2. /\ PlainBlock = Clear(aes.rmult, MixColumns(state), state2)
            /\ PlainBlock' = Clear(aes.rmult, state', state2)
        BY <1>2, <3>1, <3>3 DEF PlainBlock
      <4>. QED BY <3>2, <4>1, <4>2
    <3>4. CASE op = "dec"
      <4>1. PlainPhase = "shift" /\ PlainPhase' = "shift"
        BY <1>2, <3>1, <3>4 DEF PlainPhase
      <4>2. /\ PlainBlock = Clear(aes.rmult, InvMixColumns(state), state2)
            /\ PlainBlock' = Clear(aes.rmult, Xors(state', t_temp), state2)
        BY <1>2, <3>1, <3>4 DEF PlainBlock
      <4>3. t_temp = SecondPart(state)
        BY <3>1, <3>4 DEF IInv, Scratch
      <4>4. Xors(state', t_temp) = InvMixColumns(state)
        BY <1>3, <3>2, <4>3, SecondPartType
      <4>. QED BY <4>1, <4>2, <4>4
    <3>. QED BY <1>2, <3>3, <3>4
  <2>5. CASE Fold
    <3>1. pc = "fold" /\ pc' = "shift" /\ state2' = state2
      BY <2>5 DEF Fold
    <3>2. state' = Xors(state, t_temp)
      BY <2>5, MixEffects
    <3>3. PlainPhase = "shift" /\ PlainPhase' = "shift"
      BY <3>1 DEF PlainPhase
    <3>4. /\ PlainBlock = Clear(aes.rmult, Xors(state, t_temp), state2)
          /\ PlainBlock' = Clear(aes.rmult, state', state2)
      BY <1>2, <3>1 DEF PlainBlock
    <3>. QED BY <3>2, <3>3, <3>4
  <2>. QED BY <2>1, <2>2, <2>3, <2>4, <2>5
<1>. QED BY <1>1, <1>2, <1>4 DEF Plain!vars, ClearKeys

LEMMA SimUnmask ==
    ASSUME IInv, Unmask
    PROVE  Plain!End
<1>1. RunStep
  BY DEF RunStep
<1>2. UNCHANGED <<ClearKeys, op, aes>>
  BY <1>1, RunClear
<1>3. pc = "unmask" /\ pc' = "idle" /\ output' = state' /\ UNCHANGED round
  BY DEF Unmask
<1>4. state' = Clear(aes.rmult, state, state2)
  BY UnmaskEffect
<1>5. PlainPhase = "out" /\ PlainPhase' = "idle"
  BY <1>3 DEF PlainPhase
<1>6. PlainBlock = Clear(aes.rmult, state, state2) /\ PlainBlock' = state'
  BY <1>3 DEF PlainBlock
<1>. QED BY <1>2, <1>3, <1>4, <1>5, <1>6 DEF Plain!End, ClearKeys

LEMMA SimStep == IInv /\ [Next]_vars => [Plain!Next]_(Plain!vars)
<1> SUFFICES ASSUME IInv, [Next]_vars PROVE Plain!Next \/ UNCHANGED Plain!vars
  OBVIOUS
<1>1. CASE \E masterkey \in Keys, T \in Seeds : aes_loadKey(masterkey, T)
  BY <1>1, SimLoadKey DEF Plain!Next
<1>2. CASE ExpandKey
  BY <1>2, SimExpandKey DEF Plain!Next
<1>3. CASE \E T \in Seeds : aes_init_enc(T) \/ aes_init_dec(T)
  BY <1>3, SimContext
<1>4. CASE \E o \in {"enc", "dec"}, input \in Inputs : Load_data(o, input)
  BY <1>4, SimLoadData DEF Plain!Next
<1>5. CASE AddRoundkey \/ SubBytes \/ ShiftRowsWithMasked \/ MixMask \/ Unmask
  BY <1>5, SimAddRoundkey, SimSubBytes, SimShiftRows, SimMixMask, SimUnmask DEF Plain!Next
<1>6. CASE Xor_Word \/ Part2Mask \/ FoldMask \/ Part2 \/ Mix \/ Fold
  BY <1>6, SimXorWord, SimMixSteps
<1>7. CASE UNCHANGED vars
  <2>1. UNCHANGED <<ClearKeys, op, PlainPhase, round, PlainBlock, output>>
    BY <1>7 DEF vars, keyVars, aesVars, runVars, ClearKeys, PlainPhase, PlainBlock
  <2>. QED BY <2>1 DEF Plain!vars, ClearKeys
<1>. QED BY <1>1, <1>2, <1>3, <1>4, <1>5, <1>6, <1>7 DEF Next

THEOREM ContextsCoherent == Spec => []IInv
<1>. QED BY InvInit, InvStep, PTL DEF Spec

\* Whatever the key, the block, the random bytes and the field, and whatever was
\* computed before on the same two contexts, every step of aes_loadKey, aes_enc and
\* aes_dec is, once unmasked, a step of AES or a stutter.
THEOREM AesCorrect == Spec => IsAes
<1>1. Spec => []IInv
  BY ContextsCoherent
<1>. QED BY <1>1, SimInit, SimStep, PTL DEF Spec, IsAes, Plain!Spec
=============================================================================
