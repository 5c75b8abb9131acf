--------------------------- MODULE CommRingProofs ---------------------------
(***************************************************************************)
(* Proofs about CommRing, for every ring size, every bound on the host's   *)
(* stream and every window.                                                *)
(***************************************************************************)
EXTENDS CommRing, TLAPS

(***************************************************************************)
(* The index arithmetic: the successor of a slot without the modulus.      *)
(***************************************************************************)
LEMMA SuccSlot ==
  ASSUME NEW s \in Slots
  PROVE  /\ Succ(s) \in Slots
         /\ Succ(s) = IF s = BUF_MAX - 1 THEN 0 ELSE s + 1
BY RingAssumption DEF Succ, Slots

(***************************************************************************)
(* Distances on the ring, and how they move when end (a store that does    *)
(* not fill the ring) or start (a read) advances.                          *)
(***************************************************************************)
LEMMA DistSlot ==
  ASSUME NEW r \in Slots, NEW s \in Slots
  PROVE  /\ Dist(r, s) \in Slots
         /\ Dist(r, s) = 0 <=> r = s
BY RingAssumption DEF Dist, Slots

LEMMA DistStore ==
  ASSUME NEW r \in Slots, NEW e \in Slots, Succ(e) # r
  PROVE  /\ Dist(r, Succ(e)) = Dist(r, e) + 1
         /\ \A s \in Slots : Dist(r, s) = Dist(r, e) => s = e
BY RingAssumption, SuccSlot DEF Dist, Slots

LEMMA DistFill ==
  ASSUME NEW r \in Slots, NEW e \in Slots, Succ(e) = r
  PROVE  Dist(r, e) = BUF_MAX - 1
BY RingAssumption, SuccSlot DEF Dist, Slots

LEMMA DistTake ==
  ASSUME NEW r \in Slots, NEW e \in Slots, r # e
  PROVE  /\ Dist(r, e) = Dist(Succ(r), e) + 1
         /\ \A s \in Slots : s # r => Dist(r, s) = Dist(Succ(r), s) + 1
         /\ Dist(Succ(r), r) = BUF_MAX - 1
BY RingAssumption, SuccSlot DEF Dist, Slots

(***************************************************************************)
(* Every variable keeps its type; start and end stay inside buf.           *)
(***************************************************************************)
THEOREM TypeCorrect == Spec => []TypeOK
<1> USE RingAssumption
<1>1. Init => TypeOK
  <2> SUFFICES ASSUME Init PROVE TypeOK
    OBVIOUS
  <2>1. 0 \in Slots /\ 0 \in Byte /\ 0 \in 0 .. BUF_MAX
    BY DEF Slots, Byte
  <2>2. Zeroed \in [Slots -> Byte]
    BY <2>1 DEF Zeroed
  <2>3. <<>> \in Seq(Byte)
    OBVIOUS
  <2>. QED  BY <2>1, <2>2, <2>3, Zenon DEF Init, TypeOK
<1>2. TypeOK /\ [Next]_vars => TypeOK'
  <2> SUFFICES ASSUME TypeOK, [Next]_vars
               PROVE  TypeOK'
    OBVIOUS
  <2> USE DEF TypeOK, Goto, ringVars, mainVars
  <2>1. CASE HostSend
    <3>1. sent + 1 \in Byte
      BY <2>1 DEF HostSend, Byte
    <3>2. dr' \in Byte /\ hazards' \subseteq Hazard
      BY <2>1, <3>1, Zenon DEF HostSend, Hazard
    <3>. QED  BY <2>1, <3>1, <3>2 DEF HostSend
  <2>2. CASE ConsoleEnter
    BY <2>2 DEF ConsoleEnter
  <2>3. CASE ConsoleExit
    BY <2>3 DEF ConsoleExit
  <2>4. ASSUME NEW s \in Slots, NEW e \in Slots, NEW b \in [Slots -> Byte],
               Store(s, e, b)
        PROVE  /\ start' \in Slots /\ end' \in Slots /\ full' \in BOOLEAN
               /\ buf' \in [Slots -> Byte] /\ hazards' \subseteq Hazard
    BY <2>4, SuccSlot DEF Store, InitRace, Hazard
  <2>5. CASE IsrFirst
    <3>1. 0 \in Slots /\ Zeroed \in [Slots -> Byte]
      BY DEF Slots, Byte, Zeroed
    <3>2. Store(0, 0, Zeroed)
      BY <2>5 DEF IsrFirst
    <3>. QED  BY <2>4, <2>5, <3>1, <3>2 DEF IsrFirst, Byte
  <2>6. CASE IsrStore
    BY <2>4, <2>6 DEF IsrStore, Byte
  <2>7. CASE IsrRefuse
    BY <2>7 DEF IsrRefuse, Hazard
  <2>8. CASE FirstRead \/ SetEnd \/ SetStart \/ SetFull \/ InitDone \/ Clear
    BY <2>8 DEF FirstRead, SetEnd, SetStart, SetFull, InitDone, Clear, InitSteps, Slots
  <2>9. CASE ZeroByte
    BY <2>9 DEF ZeroByte, Slots, Byte
  <2>10. CASE Take
    BY <2>10, SuccSlot DEF Take
  <2>11. CASE ReadEmpty \/ UNCHANGED vars
    BY <2>11 DEF ReadEmpty, vars
  <2>. QED
    BY <2>1, <2>2, <2>3, <2>5, <2>6, <2>7, <2>8, <2>9, <2>10, <2>11 DEF Next, Isr, Main
<1>. QED  BY <1>1, <1>2, PTL DEF Spec

-----------------------------------------------------------------------------
(* Order                                                                   *)

\* Until somebody has initialised the ring, start and end are both 0; and so
\* is start when the main thread is about to reset end.
FreshRing ==
  /\ ~initialized => start = 0 /\ end = 0
  /\ pc = "set_end" => start = 0

\* The unread bytes increase from start to end, after those delivered and
\* before the one in the data register.
OrderInv ==
  /\ InOrder
  /\ dr <= sent
  /\ \A n \in DOMAIN delivered : delivered[n] <= sent /\ (dr # 0 => delivered[n] < dr)
  /\ \A s \in Slots : Offset(s) < Used =>
       /\ buf[s] <= sent
       /\ dr # 0 => buf[s] < dr
       /\ buf[s] # 0 => \A n \in DOMAIN delivered : delivered[n] < buf[s]
  /\ \A s, t \in Slots :
       Offset(s) < Offset(t) /\ Offset(t) < Used /\ buf[s] # 0 /\ buf[t] # 0
         => buf[s] < buf[t]

(***************************************************************************)
(* FreshRing is preserved by every step.                                   *)
(***************************************************************************)
LEMMA FreshRingCorrect == Spec => []FreshRing
<1> USE RingAssumption
<1>1. Init => FreshRing
  BY DEF Init, FreshRing
<1>2. FreshRing /\ TypeOK /\ [Next]_vars => FreshRing'
  BY DEF FreshRing, TypeOK, vars, Next, Isr, Main, HostSend, ConsoleEnter, ConsoleExit,
         IsrFirst, IsrStore, IsrRefuse, FirstRead, SetEnd, SetStart, SetFull, ZeroByte,
         InitDone, ReadEmpty, Take, Clear, Goto, ringVars, mainVars, Store
<1>. QED  BY <1>1, <1>2, TypeCorrect, PTL DEF Spec

(***************************************************************************)
(* No byte is read twice or out of order, whatever the host and the        *)
(* console do and whichever bytes are lost on the way.                     *)
(***************************************************************************)
THEOREM OrderCorrect == Spec => []InOrder
<1> USE RingAssumption
<1>1. Init => OrderInv
  BY DEF Init, OrderInv, InOrder, Offset, Used, Dist, Slots, Zeroed
<1>2. OrderInv /\ TypeOK /\ FreshRing /\ [Next]_vars => OrderInv'
  <2> SUFFICES ASSUME OrderInv, TypeOK, FreshRing, [Next]_vars
               PROVE  OrderInv'
    OBVIOUS
  <2>0. /\ start \in Slots /\ end \in Slots /\ buf \in [Slots -> Nat]
        /\ sent \in Nat /\ dr \in Nat
        /\ \A s \in Slots : s \in Nat /\ s < BUF_MAX
        /\ BUF_MAX \in Nat
    BY DEF TypeOK, Byte, Slots
  <2>d. /\ DOMAIN delivered = 1 .. Len(delivered)
        /\ Len(delivered) \in Nat
        /\ \A n \in DOMAIN delivered : delivered[n] \in Nat
    BY DEF TypeOK, Byte
  <2>1. CASE HostSend
    <3>1. /\ UNCHANGED <<start, end, buf, delivered>>
          /\ sent' = sent + 1
          /\ dr' = dr \/ dr' = sent + 1
      BY <2>1 DEF HostSend, ringVars, mainVars
    <3>. QED  BY <2>0, <2>d, <3>1 DEF OrderInv, InOrder, Offset, Used
  <2>2. CASE UNCHANGED <<start, end, buf, delivered, sent, dr>>
    BY <2>2 DEF OrderInv, InOrder, Offset, Used
  <2>3. CASE IsrFirst
    <3>1. 0 \in Slots /\ 1 \in Slots /\ Succ(0) = 1
      BY SuccSlot DEF Slots
    <3>2. /\ start' = 0 /\ end' = 1 /\ buf' = [Zeroed EXCEPT ![0] = dr]
          /\ dr' = 0 /\ dr # 0
          /\ UNCHANGED <<sent, delivered>>
      BY <2>3, <3>1 DEF IsrFirst, Store, Fills, IrqPending, mainVars
    <3>3. \A s \in Slots : buf'[s] = IF s = 0 THEN dr ELSE 0
      BY <3>1, <3>2 DEF Zeroed
    <3>4. \A s \in Slots : Offset(s)' < Used' => s = 0
      BY <3>2 DEF Offset, Used, Dist, Slots
    <3>5. \A s, t \in Slots : ~(Offset(s)' < Offset(t)' /\ Offset(t)' < Used')
      BY <3>2 DEF Offset, Used, Dist, Slots
    <3>. QED  BY <2>0, <2>d, <3>2, <3>3, <3>4, <3>5 DEF OrderInv, InOrder
  <2>4. CASE IsrStore
    <3>1. /\ UNCHANGED <<start, sent, delivered>>
          /\ end' = end \/ (end' = Succ(end) /\ Succ(end) # start)
          /\ dr' = 0 /\ dr # 0
      <4>1. Store(start, end, buf)
        BY <2>4 DEF IsrStore
      <4>2. start' = start /\ (end' = end \/ (end' = Succ(end) /\ Succ(end) # start))
        BY <4>1, Zenon DEF Store, Fills
      <4>. QED  BY <2>4, <4>2 DEF IsrStore, IrqPending, mainVars
    <3>2. \A s \in Slots : buf'[s] = IF s = end THEN dr ELSE buf[s]
      BY <2>0, <2>4 DEF IsrStore, Store
    <3>3. Offset(end) = Used /\ Used \in Nat /\ \A s \in Slots : Offset(s) \in Nat
      BY <2>0, DistSlot DEF Offset, Used
    <3>4. \A s \in Slots : Offset(s)' = Offset(s)
      BY <3>1 DEF Offset
    <3>5. \/ Used' = Used
          \/ /\ Used' = Used + 1
             /\ \A s \in Slots : Offset(s) = Used => s = end
      BY <2>0, <3>1, DistStore DEF Offset, Used
    <3>6. ASSUME NEW s \in Slots, Offset(s)' < Used'
          PROVE  /\ buf'[s] <= sent'
                 /\ buf'[s] # 0 => \A n \in DOMAIN delivered' : delivered'[n] < buf'[s]
      <4>1. CASE s = end
        BY <4>1, <2>0, <3>1, <3>2 DEF OrderInv
      <4>2. CASE s # end
        <5>1. Offset(s) < Used
          BY <4>2, <3>3, <3>4, <3>5, <3>6
        <5>. QED  BY <4>2, <5>1, <3>1, <3>2 DEF OrderInv
      <4>. QED  BY <4>1, <4>2
    <3>7. ASSUME NEW s \in Slots, NEW t \in Slots,
                 Offset(s)' < Offset(t)', Offset(t)' < Used', buf'[s] # 0, buf'[t] # 0
          PROVE  buf'[s] < buf'[t]
      <4>1. Offset(s) < Used /\ Offset(s) < Offset(t) /\ s # end
        BY <3>3, <3>4, <3>5, <3>7
      <4>2. CASE t = end
        BY <4>1, <4>2, <3>1, <3>2 DEF OrderInv
      <4>3. CASE t # end
        <5>1. Offset(t) < Used
          BY <4>3, <3>3, <3>4, <3>5, <3>7
        <5>. QED  BY <4>1, <4>3, <5>1, <3>2, <3>7 DEF OrderInv
      <4>. QED  BY <4>2, <4>3
    <3>8. InOrder' /\ dr' <= sent' /\ \A n \in DOMAIN delivered' : delivered'[n] <= sent'
      BY <2>0, <3>1 DEF OrderInv, InOrder
    <3>. QED  BY <3>1, <3>6, <3>7, <3>8 DEF OrderInv
  <2>5. CASE SetEnd \/ SetStart
    <3>1. /\ start' = end'
          /\ end' \in Slots
          /\ UNCHANGED <<buf, delivered, sent, dr>>
      BY <2>0, <2>5 DEF SetEnd, SetStart, Goto, FreshRing
    <3>2. Used' = 0 /\ \A s \in Slots : Offset(s)' >= 0
      BY <3>1, <2>0, DistSlot DEF Offset, Used, Slots
    <3>3. \A s \in Slots : ~(Offset(s)' < Used')
      BY <2>0, <3>1, <3>2, DistSlot DEF Offset
    <3>4. InOrder'
      BY <3>1 DEF OrderInv, InOrder
    <3>5. /\ dr' <= sent'
          /\ \A n \in DOMAIN delivered' :
               delivered'[n] <= sent' /\ (dr' # 0 => delivered'[n] < dr')
      BY <3>1 DEF OrderInv
    <3>6. \A s \in Slots : Offset(s)' \in Nat
      BY <2>0, <3>1, DistSlot DEF Offset
    <3>. QED  BY <3>2, <3>3, <3>4, <3>5, <3>6 DEF OrderInv
  <2>6. CASE ZeroByte
    <3>1. /\ UNCHANGED <<start, end, delivered, sent, dr>>
          /\ dr = 0
          /\ \A s \in Slots : buf'[s] = buf[s] \/ buf'[s] = 0
      BY <2>0, <2>6 DEF ZeroByte, MainRuns
    <3>2. Used' = Used /\ \A s \in Slots : Offset(s)' = Offset(s)
      BY <3>1 DEF Offset, Used
    <3>3. \A s \in Slots : Offset(s)' < Used' =>
            /\ buf'[s] <= sent'
            /\ buf'[s] # 0 => \A n \in DOMAIN delivered' : delivered'[n] < buf'[s]
      BY <2>0, <3>1, <3>2 DEF OrderInv
    <3>4. \A s, t \in Slots :
            Offset(s)' < Offset(t)' /\ Offset(t)' < Used' /\ buf'[s] # 0 /\ buf'[t] # 0
              => buf'[s] < buf'[t]
      BY <3>1, <3>2 DEF OrderInv
    <3>. QED  BY <3>1, <3>3, <3>4 DEF OrderInv, InOrder
  <2>7. CASE Take
    <3>1. /\ UNCHANGED <<end, buf, sent, dr>>
          /\ start' = Succ(start) /\ start # end
          /\ dr = 0
          /\ delivered' = Append(delivered, buf[start])
      BY <2>7 DEF Take, MainRuns
    <3>2. /\ DOMAIN delivered' = 1 .. Len(delivered) + 1
          /\ \A n \in DOMAIN delivered : delivered'[n] = delivered[n]
          /\ delivered'[Len(delivered) + 1] = buf[start]
      BY <3>1 DEF TypeOK
    <3>3. /\ Offset(start) = 0 /\ Used = Used' + 1
          /\ \A s \in Slots : s # start => Offset(s) = Offset(s)' + 1
      BY <2>0, <3>1, DistTake, DistSlot DEF Offset, Used
    <3>4. /\ \A s \in Slots : Offset(s)' \in Nat /\ Offset(s) \in Nat
          /\ Used \in Nat /\ Used' \in Nat /\ Used < BUF_MAX
      <4>1. start' \in Slots
        BY <2>0, <3>1, SuccSlot
      <4>. QED  BY <2>0, <3>1, <4>1, DistSlot DEF Offset, Used
    <3>5. InOrder'
      <4> SUFFICES ASSUME NEW m \in DOMAIN delivered', NEW n \in DOMAIN delivered',
                          m < n, delivered'[m] # 0, delivered'[n] # 0
                   PROVE  delivered'[m] < delivered'[n]
        BY DEF InOrder
      <4>1. m \in DOMAIN delivered
        BY <2>d, <3>2
      <4>2. CASE n \in DOMAIN delivered
        BY <4>1, <4>2, <3>2 DEF OrderInv, InOrder
      <4>3. CASE n = Len(delivered) + 1
        BY <4>1, <4>3, <2>0, <3>2, <3>3, <3>4 DEF OrderInv
      <4>. QED  BY <4>2, <4>3, <2>d, <3>2
    <3>6. \A n \in DOMAIN delivered' : delivered'[n] <= sent'
      BY <2>0, <2>d, <3>1, <3>2, <3>3, <3>4 DEF OrderInv
    <3>7. ASSUME NEW s \in Slots, Offset(s)' < Used'
          PROVE  /\ s # start /\ 0 < Offset(s) /\ Offset(s) < Used
      <4>1. s # start
        BY <2>0, <3>1, <3>4, <3>7, DistTake, DistSlot DEF Offset, Used
      <4>. QED  BY <3>3, <3>4, <3>7, <4>1
    <3>8. ASSUME NEW s \in Slots, Offset(s)' < Used'
          PROVE  /\ buf'[s] <= sent'
                 /\ buf'[s] # 0 => \A n \in DOMAIN delivered' : delivered'[n] < buf'[s]
      <4>1. buf[s] <= sent
        BY <3>7, <3>8 DEF OrderInv
      <4>2. ASSUME buf[s] # 0, NEW n \in DOMAIN delivered'
            PROVE  delivered'[n] < buf[s]
        <5>1. CASE n \in DOMAIN delivered
          BY <5>1, <3>7, <3>8, <4>2, <3>2 DEF OrderInv
        <5>2. CASE n = Len(delivered) + 1
          <6>1. CASE buf[start] = 0
            BY <6>1, <5>2, <4>2, <3>2, <2>0
          <6>2. CASE buf[start] # 0
            BY <6>2, <5>2, <3>3, <3>7, <3>8, <4>2, <3>2, <2>0 DEF OrderInv
          <6>. QED  BY <6>1, <6>2
        <5>. QED  BY <5>1, <5>2, <3>2, <2>d
      <4>. QED  BY <4>1, <4>2, <3>1
    <3>9. ASSUME NEW s \in Slots, NEW t \in Slots,
                 Offset(s)' < Offset(t)', Offset(t)' < Used', buf'[s] # 0, buf'[t] # 0
          PROVE  buf'[s] < buf'[t]
      <4>1. Offset(s)' < Used'
        BY <3>4, <3>9
      <4>2. Offset(s) < Offset(t) /\ Offset(t) < Used
        BY <3>3, <3>4, <3>7, <3>9, <4>1
      <4>. QED  BY <3>1, <3>9, <4>2 DEF OrderInv
    <3>. QED  BY <3>1, <3>5, <3>6, <3>8, <3>9 DEF OrderInv
  <2>8. CASE \/ ConsoleEnter \/ ConsoleExit \/ IsrRefuse \/ FirstRead \/ SetFull
             \/ InitDone \/ ReadEmpty \/ Clear \/ UNCHANGED vars
    BY <2>2, <2>8 DEF ConsoleEnter, ConsoleExit, IsrRefuse, FirstRead, SetFull, InitDone,
                      ReadEmpty, Clear, vars, ringVars, mainVars
  <2>. QED
    BY <2>1, <2>3, <2>4, <2>5, <2>6, <2>7, <2>8 DEF Next, Isr, Main
<1>3. OrderInv => InOrder
  BY DEF OrderInv
<1>. QED  BY <1>1, <1>2, <1>3, TypeCorrect, FreshRingCorrect, PTL DEF Spec

-----------------------------------------------------------------------------
(* Exactness                                                               *)

\* Before the first hazard the ring has never been full, nothing has been
\* read before the ring was initialised, and only the main thread clears it
\* once it has begun.
Unharmed ==
  hazards = {} =>
    /\ ~full
    /\ ~initialized => Len(delivered) = 0
    /\ pc \in InitSteps => ~initialized

(***************************************************************************)
(* Unharmed is preserved by every step.                                    *)
(***************************************************************************)
LEMMA UnharmedCorrect == Spec => []Unharmed
<1> USE RingAssumption
<1>1. Init => Unharmed
  BY DEF Init, Unharmed, InitSteps
<1>2. Unharmed /\ TypeOK /\ [Next]_vars => Unharmed'
  <2> SUFFICES ASSUME Unharmed, TypeOK, [Next]_vars, hazards' = {}
               PROVE  Unharmed'
    BY DEF Unharmed
  <2> USE DEF Unharmed, Goto, ringVars, mainVars
  <2>1. ASSUME NEW s, NEW e, NEW b, Store(s, e, b)
        PROVE  hazards = {} /\ ~full' /\ pc \notin InitSteps
    BY <2>1 DEF Store, InitRace
  <2>2. CASE IsrFirst \/ IsrStore
    BY <2>1, <2>2 DEF IsrFirst, IsrStore
  <2>3. CASE HostSend \/ IsrRefuse
    BY <2>3 DEF HostSend, IsrRefuse
  <2>4. CASE \/ ConsoleEnter \/ ConsoleExit \/ FirstRead \/ SetEnd \/ SetStart \/ SetFull
             \/ ZeroByte \/ InitDone \/ ReadEmpty \/ Take \/ Clear \/ UNCHANGED vars
    BY <2>4 DEF ConsoleEnter, ConsoleExit, FirstRead, SetEnd, SetStart, SetFull, ZeroByte,
                InitDone, ReadEmpty, Take, Clear, InitSteps, vars
  <2>. QED  BY <2>2, <2>3, <2>4 DEF Next, Isr, Main
<1>. QED  BY <1>1, <1>2, TypeCorrect, PTL DEF Spec

(***************************************************************************)
(* As long as no hazard has occurred no byte is lost, altered or invented. *)
(***************************************************************************)
THEOREM ExactCorrect == Spec => []Exact
<1> USE RingAssumption
<1>1. Init => Exact
  BY DEF Init, Exact, Offset, Used, Dist, Slots
<1>2. Exact /\ TypeOK /\ FreshRing /\ Unharmed /\ [Next]_vars => Exact'
  <2> SUFFICES ASSUME Exact, TypeOK, FreshRing, Unharmed, [Next]_vars, hazards' = {}
               PROVE  Exact'
    BY DEF Exact
  <2>0. /\ start \in Slots /\ end \in Slots /\ buf \in [Slots -> Nat]
        /\ sent \in Nat /\ dr \in Nat
        /\ BUF_MAX \in Nat /\ 0 \in Slots /\ 1 \in Slots
        /\ \A s \in Slots : s \in Nat /\ s < BUF_MAX
    BY DEF TypeOK, Byte, Slots
  <2>1. hazards = {}
    <3>1. \A s, e, b : Store(s, e, b) => hazards = {}
      BY DEF Store
    <3>. QED  BY <3>1 DEF Next, vars, Isr, Main, HostSend, ConsoleEnter, ConsoleExit, IsrFirst,
         IsrStore, IsrRefuse, FirstRead, SetEnd, SetStart, SetFull, ZeroByte, InitDone,
         ReadEmpty, Take, Clear
  <2>2. CASE UNCHANGED <<start, end, buf, delivered, sent, dr>>
    BY <2>1, <2>2 DEF Exact, Offset, Used
  <2>3. CASE HostSend
    <3>1. /\ UNCHANGED <<start, end, buf, delivered>>
          /\ sent' = sent + 1 /\ dr = 0 /\ dr' = sent + 1
      BY <2>3 DEF HostSend, ringVars, mainVars
    <3>2. Used' = Used /\ \A s \in Slots : Offset(s)' = Offset(s)
      BY <3>1 DEF Offset, Used
    <3>. QED  BY <2>0, <2>1, <3>1, <3>2 DEF Exact
  <2>4. CASE IsrFirst
    <3>1. Succ(0) = 1
      BY <2>0, SuccSlot DEF Slots
    <3>2. Store(0, 0, Zeroed)
      BY <2>4 DEF IsrFirst
    <3>3. /\ start' = 0 /\ end' = 1 /\ buf'[0] = dr
      BY <2>0, <3>1, <3>2 DEF Store, Fills, Zeroed
    <3>4. /\ dr' = 0 /\ dr # 0 /\ UNCHANGED <<sent, delivered>>
          /\ start = 0 /\ end = 0 /\ Len(delivered) = 0
      BY <2>1, <2>4 DEF IsrFirst, FreshRing, Unharmed, IrqPending, mainVars
    <3>5. Used = 0 /\ Used' = 1 /\ Offset(0)' = 0
      BY <3>3, <3>4 DEF Used, Offset, Dist
    <3>6. \A s \in Slots : Offset(s)' < Used' => s = 0
      BY <3>3 DEF Used, Offset, Dist, Slots
    <3>. QED  BY <2>1, <3>3, <3>4, <3>5, <3>6 DEF Exact
  <2>5. CASE IsrStore
    <3>1. Store(start, end, buf) /\ dr' = 0 /\ dr # 0 /\ UNCHANGED <<sent, delivered>>
      BY <2>5 DEF IsrStore, IrqPending, mainVars
    <3>2. start' = start /\ end' = Succ(end) /\ Succ(end) # start
      BY <3>1 DEF Store, Fills
    <3>3. \A s \in Slots : buf'[s] = IF s = end THEN dr ELSE buf[s]
      BY <2>0, <3>1 DEF Store
    <3>4. /\ Used' = Used + 1
          /\ \A s \in Slots : Offset(s)' = Offset(s) /\ (Offset(s) = Used => s = end)
          /\ Offset(end) = Used
      BY <2>0, <3>2, DistStore DEF Offset, Used
    <3>5. Used \in Nat /\ \A s \in Slots : Offset(s) \in Nat
      BY <2>0, DistSlot DEF Offset, Used, Slots
    <3>6. dr = Len(delivered) + Used + 1 /\ sent = dr
      BY <2>1, <3>1 DEF Exact
    <3>7. ASSUME NEW s \in Slots, Offset(s)' < Used'
          PROVE  buf'[s] = Len(delivered) + 1 + Offset(s)
      <4>1. CASE s = end
        BY <4>1, <3>3, <3>4, <3>5, <3>6 DEF TypeOK
      <4>2. CASE s # end
        <5>1. Offset(s) < Used
          BY <4>2, <3>4, <3>5, <3>7
        <5>. QED  BY <4>2, <5>1, <2>1, <3>3 DEF Exact
      <4>. QED  BY <4>1, <4>2
    <3>8. sent' = Len(delivered') + Used'
      BY <3>1, <3>4, <3>5, <3>6 DEF TypeOK
    <3>. QED  BY <2>1, <3>1, <3>4, <3>7, <3>8 DEF Exact
  <2>6. CASE SetEnd \/ SetStart
    <3>1. ~initialized /\ start = 0 /\ end = 0
      BY <2>1, <2>6 DEF SetEnd, SetStart, Goto, Unharmed, FreshRing, InitSteps
    <3>. QED  BY <2>2, <2>6, <3>1 DEF SetEnd, SetStart
  <2>7. CASE ZeroByte
    <3>1. ~initialized /\ start = 0 /\ end = 0
      BY <2>1, <2>7 DEF ZeroByte, Unharmed, FreshRing, InitSteps
    <3>2. UNCHANGED <<start, end, delivered, sent, dr>>
      BY <2>7 DEF ZeroByte
    <3>3. Used = 0 /\ Used' = 0 /\ \A s \in Slots : ~(Offset(s)' < Used')
      BY <3>1, <3>2 DEF Used, Offset, Dist, Slots
    <3>. QED  BY <2>1, <3>2, <3>3 DEF Exact
  <2>8. CASE Take
    <3>1. /\ UNCHANGED <<end, buf, sent, dr>>
          /\ start' = Succ(start) /\ start # end
          /\ dr = 0
          /\ delivered' = Append(delivered, buf[start])
      BY <2>8 DEF Take, MainRuns
    <3>2. /\ Len(delivered') = Len(delivered) + 1 /\ Len(delivered) \in Nat
          /\ DOMAIN delivered' = 1 .. Len(delivered) + 1
          /\ DOMAIN delivered = 1 .. Len(delivered)
          /\ \A n \in DOMAIN delivered : delivered'[n] = delivered[n]
          /\ delivered'[Len(delivered) + 1] = buf[start]
      BY <3>1 DEF TypeOK
    <3>3. /\ Offset(start) = 0 /\ Used = Used' + 1
          /\ Used \in Nat /\ Used' \in Nat
      <4>1. Succ(start) \in Slots
        BY <2>0, SuccSlot
      <4>2. /\ Dist(start, start) = 0 /\ Dist(start, end) = Dist(Succ(start), end) + 1
            /\ Dist(start, end) \in Nat /\ Dist(Succ(start), end) \in Nat
        BY <2>0, <3>1, <4>1, DistTake, DistSlot
      <4>. QED  BY <3>1, <4>2 DEF Offset, Used
    <3>4. ASSUME NEW s \in Slots, Offset(s)' < Used'
          PROVE  Offset(s) = Offset(s)' + 1 /\ Offset(s)' \in Nat
      <4>1. Succ(start) \in Slots
        BY <2>0, SuccSlot
      <4>2. /\ Dist(start, end) = Dist(Succ(start), end) + 1
            /\ Dist(start, end) \in Nat /\ Dist(start, end) < BUF_MAX
            /\ Dist(Succ(start), end) \in Nat /\ Dist(Succ(start), s) \in Nat
            /\ Dist(Succ(start), start) = BUF_MAX - 1
        BY <2>0, <3>1, <4>1, DistTake, DistSlot
      <4>3. Dist(Succ(start), s) < Dist(Succ(start), end)
        BY <3>1, <3>4 DEF Offset, Used
      <4>4. s # start
        BY <4>2, <4>3
      <4>5. Dist(start, s) = Dist(Succ(start), s) + 1
        BY <2>0, <3>1, <4>4, DistTake
      <4>. QED  BY <3>1, <4>2, <4>5 DEF Offset
    <3>5. buf[start] = Len(delivered) + 1
      BY <2>0, <2>1, <3>2, <3>3 DEF Exact
    <3>6. \A n \in DOMAIN delivered' : delivered'[n] = n
      BY <2>1, <3>2, <3>5 DEF Exact
    <3>7. ASSUME NEW s \in Slots, Offset(s)' < Used'
          PROVE  buf'[s] = Len(delivered') + 1 + Offset(s)'
      <4>1. buf[s] = Len(delivered) + 1 + Offset(s)
        BY <2>1, <3>3, <3>4, <3>7 DEF Exact
      <4>. QED  BY <3>1, <3>2, <3>4, <3>7, <4>1
    <3>8. sent' = Len(delivered') + Used'
      BY <2>1, <3>1, <3>2, <3>3 DEF Exact
    <3>. QED  BY <3>1, <3>6, <3>7, <3>8 DEF Exact
  <2>9. CASE \/ ConsoleEnter \/ ConsoleExit \/ IsrRefuse \/ FirstRead \/ SetFull
             \/ InitDone \/ ReadEmpty \/ Clear \/ UNCHANGED vars
    BY <2>2, <2>9 DEF ConsoleEnter, ConsoleExit, IsrRefuse, FirstRead, SetFull, InitDone,
                      ReadEmpty, Clear, vars, ringVars, mainVars
  <2>. QED
    BY <2>3, <2>4, <2>5, <2>6, <2>7, <2>8, <2>9 DEF Next, Isr, Main
<1>. QED  BY <1>1, <1>2, TypeCorrect, FreshRingCorrect, UnharmedCorrect, PTL DEF Spec

-----------------------------------------------------------------------------
(* The polite host                                                         *)

\* What the host and the user of the console have to respect.
Polite == Window < BUF_MAX /\ QuietBoot /\ ~ConsoleInput

\* With a polite host the handler never meets the main thread's init, and at
\* most Window bytes are on their way.
PoliteInv ==
  /\ NoHazard
  /\ ~console
  /\ pc \in InitSteps => dr = 0
  /\ sent - Len(delivered) <= Window

(***************************************************************************)
(* With a polite host none of the hazards occurs: the window keeps the     *)
(* ring from filling, and so the handler from refusing a byte and the      *)
(* USART from dropping one.                                                *)
(***************************************************************************)
THEOREM PoliteIsSafe == Polite /\ Spec => []NoHazard
<1> SUFFICES ASSUME Polite PROVE Spec => []NoHazard
  OBVIOUS
<1> USE RingAssumption
<1>1. Init => PoliteInv
  BY DEF Init, PoliteInv, NoHazard, InitSteps
<1>2. PoliteInv /\ Exact /\ TypeOK /\ Unharmed /\ [Next]_vars => PoliteInv'
  <2> SUFFICES ASSUME PoliteInv, Exact, TypeOK, Unharmed, [Next]_vars
               PROVE  PoliteInv'
    OBVIOUS
  <2>0. /\ hazards = {} /\ ~full /\ ~console
        /\ start \in Slots /\ end \in Slots
        /\ Used \in Nat /\ Len(delivered) \in Nat /\ sent \in Nat /\ dr \in Nat
    <3>1. Dist(start, end) \in Slots
      BY DistSlot DEF TypeOK
    <3>2. sent \in Nat /\ dr \in Nat /\ Len(delivered) \in Nat
      BY DEF TypeOK, Byte
    <3>. QED  BY <3>1, <3>2 DEF PoliteInv, NoHazard, Unharmed, TypeOK, Used, Slots
  <2>1. CASE HostSend
    BY <2>0, <2>1 DEF HostSend, Polite, PoliteInv, NoHazard, ringVars, mainVars
  <2>2. CASE ConsoleEnter \/ ConsoleExit \/ IsrRefuse
    BY <2>0, <2>2 DEF ConsoleEnter, ConsoleExit, IsrRefuse, Polite
  <2>3. CASE IsrFirst
    <3>1. pc \notin InitSteps /\ dr # 0
      BY <2>3 DEF IsrFirst, IrqPending, PoliteInv
    <3>2. Succ(0) = 1
      BY SuccSlot DEF Slots
    <3>3. hazards' = {}
      BY <2>0, <2>3, <3>1, <3>2 DEF IsrFirst, Store, Fills, InitRace
    <3>. QED  BY <2>3, <3>3 DEF IsrFirst, PoliteInv, NoHazard, mainVars
  <2>4. CASE IsrStore
    <3>1. pc \notin InitSteps /\ dr # 0
      BY <2>4 DEF IsrStore, IrqPending, PoliteInv
    <3>2. Used + 1 <= Window
      BY <2>0, <3>1 DEF Exact, PoliteInv
    <3>3. ~Fills(start, end)
      BY <2>0, <3>2, DistFill DEF Fills, Used, Polite
    <3>4. hazards' = {}
      BY <2>0, <2>4, <3>1, <3>3 DEF IsrStore, Store, InitRace
    <3>. QED  BY <2>4, <3>4 DEF IsrStore, PoliteInv, NoHazard, mainVars
  <2>5. CASE FirstRead \/ SetEnd \/ SetStart \/ SetFull \/ ZeroByte \/ InitDone \/ Clear
    BY <2>5 DEF FirstRead, SetEnd, SetStart, SetFull, ZeroByte, InitDone, Clear, Goto,
                MainRuns, InitSteps, PoliteInv, NoHazard
  <2>6. CASE Take
    <3>1. Len(delivered') = Len(delivered) + 1
      BY <2>6 DEF Take, TypeOK
    <3>. QED  BY <2>0, <2>6, <3>1 DEF Take, Goto, InitSteps, PoliteInv, NoHazard
  <2>7. CASE ReadEmpty \/ UNCHANGED vars
    BY <2>7 DEF ReadEmpty, vars, PoliteInv, NoHazard
  <2>. QED  BY <2>1, <2>2, <2>3, <2>4, <2>5, <2>6, <2>7 DEF Next, Isr, Main
<1>3. PoliteInv => NoHazard
  BY DEF PoliteInv
<1>. QED  BY <1>1, <1>2, <1>3, TypeCorrect, ExactCorrect, UnharmedCorrect, PTL DEF Spec

(***************************************************************************)
(* With a polite host the receive path implements the reliable channel:    *)
(* every step sends a byte, delivers the next one, or stutters.            *)
(***************************************************************************)
THEOREM PoliteIsFifo == Polite /\ Spec => Fifo!Spec
<1> SUFFICES ASSUME Polite PROVE Spec => Fifo!Spec
  OBVIOUS
<1>1. Init => Fifo!Init
  BY DEF Init, Fifo!Init
<1>2. NoHazard /\ Exact /\ TypeOK /\ [Next]_vars => [Fifo!Next]_Fifo!fifoVars
  <2> SUFFICES ASSUME NoHazard, Exact, TypeOK, [Next]_vars
               PROVE  [Fifo!Next]_Fifo!fifoVars
    OBVIOUS
  <2>1. CASE HostSend
    BY <2>1 DEF HostSend, mainVars, Fifo!Next, Fifo!Send
  <2>2. CASE Take
    <3>1. /\ start # end /\ dr = 0 /\ sent' = sent
          /\ delivered' = Append(delivered, buf[start])
      BY <2>2 DEF Take, MainRuns
    <3>2. /\ Offset(start) = 0 /\ Used \in Nat /\ Used # 0
          /\ start \in Slots /\ Len(delivered) \in Nat
      BY <3>1, DistSlot DEF TypeOK, Offset, Used, Slots
    <3>3. buf[start] = Len(delivered) + 1 /\ Len(delivered) < sent
      BY <3>1, <3>2 DEF NoHazard, Exact
    <3>. QED  BY <3>1, <3>3 DEF Fifo!Next, Fifo!Deliver
  <2>3. CASE ~HostSend /\ ~Take
    BY <2>3 DEF Next, vars, Isr, Main, ConsoleEnter, ConsoleExit, IsrFirst, IsrStore, IsrRefuse,
         FirstRead, SetEnd, SetStart, SetFull, ZeroByte, InitDone, ReadEmpty, Clear,
         mainVars, Fifo!fifoVars
  <2>. QED  BY <2>1, <2>2, <2>3
<1>3. Spec => []NoHazard
  BY PoliteIsSafe
<1>. QED  BY <1>1, <1>2, <1>3, TypeCorrect, ExactCorrect, PTL DEF Spec, Fifo!Spec
=============================================================================
