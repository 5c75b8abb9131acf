-------------------------- MODULE PrintProofs --------------------------
(***************************************************************************)
(* The print ring and the two components that write to it.                 *)
(*   - The operations of the ring, for every ring and text.                *)
(*   - The debug console (ConsoleLog), for every size of the ring, every   *)
(*     program of main and every interleaving with the console interrupt:  *)
(*     indices stay inside the array, every flush leaves the ring of boot, *)
(*     and between interrupts that fall between operations the text goes   *)
(*     out exactly.                                                        *)
(*   - print and its format parser (Printf), for every format, its         *)
(*     arguments and every sequence of calls: what the parser writes, one  *)
(*     character of the format at a time, is what the directives stand for.*)
(***************************************************************************)
EXTENDS ConsoleLog, Printf, TLAPS, NaturalsInduction, SequenceTheorems, FiniteSetTheorems

\* Induction on natural numbers, and the functions it defines.
Data == INSTANCE RegisterProofs

\* A ring that starts at 0 and whose last cell, which no write reaches, is clear.
SoundRing == {r \in Ring : r.start = 0 /\ r.buf[BUF_MAX] = NUL}

LEMMA BufMax == BUF_MAX \in Nat /\ BUF_MAX > 1 /\ BUF_SIZE = BUF_MAX + 1
  BY BufAssumption DEF BUF_MAX

LEMMA RingFields ==
    ASSUME NEW r \in Ring
    PROVE  /\ r = [start |-> r.start, end |-> r.end, full |-> r.full, buf |-> r.buf]
           /\ r.start \in 0..(BUF_MAX - 1) /\ r.end \in 0..(BUF_MAX - 1)
           /\ r.full \in BOOLEAN /\ r.buf \in [0..BUF_MAX -> Char]
  BY BufMax DEF Ring

\* The three cases of a write.
LEMMA WriteCharCases ==
    ASSUME NEW r \in SoundRing, NEW c \in Char
    PROVE  LET new == ring_buffer_write_char(r, c)
               buf == [r.buf EXCEPT ![r.end] = c]
           IN  \/ r.full /\ new = r
               \/ /\ ~r.full /\ r.end + 1 < BUF_MAX
                  /\ new = [start |-> 0, end |-> r.end + 1, full |-> FALSE, buf |-> buf]
               \/ /\ ~r.full /\ r.end + 1 = BUF_MAX
                  /\ new = [start |-> 0, end |-> r.end, full |-> TRUE, buf |-> buf]
<1>1. r \in Ring /\ r.start = 0
  BY DEF SoundRing
<1>2. r.end \in 0..(BUF_MAX - 1) /\ r.full \in BOOLEAN
  BY <1>1, RingFields
<1>3. CASE r.full
  BY <1>3 DEF ring_buffer_write_char
<1>4. CASE ~r.full /\ r.end + 1 < BUF_MAX
  <2>1. (r.end + 1) % BUF_MAX = r.end + 1
    BY <1>2, <1>4, BufMax
  <2>2. r.end + 1 # r.start
    BY <1>1, <1>2
  <2>3. ring_buffer_write_char(r, c) = [r EXCEPT !.buf[r.end] = c, !.end = r.end + 1]
    BY <1>4, <2>1, <2>2 DEF ring_buffer_write_char
  <2>. QED BY <1>1, <1>4, <2>3 DEF Ring
<1>5. CASE ~r.full /\ r.end + 1 = BUF_MAX
  <2>1. (r.end + 1) % BUF_MAX = 0
    BY <1>5, BufMax
  <2>2. ring_buffer_write_char(r, c) = [r EXCEPT !.buf[r.end] = c, !.full = TRUE]
    BY <1>1, <1>5, <2>1 DEF ring_buffer_write_char
  <2>. QED BY <1>1, <1>5, <2>2 DEF Ring
<1>. QED BY <1>2, <1>3, <1>4, <1>5, BufMax

\* ring_buffer_write_char keeps the indices inside the array and its last cell clear.
LEMMA WriteCharSound ==
    ASSUME NEW r \in SoundRing, NEW c \in Char
    PROVE  ring_buffer_write_char(r, c) \in SoundRing
<1> DEFINE new == ring_buffer_write_char(r, c)
           buf == [r.buf EXCEPT ![r.end] = c]
<1>1. r \in Ring /\ r.start = 0 /\ r.buf[BUF_MAX] = NUL
  BY DEF SoundRing
<1>2. r.end \in 0..(BUF_MAX - 1) /\ r.full \in BOOLEAN /\ r.buf \in [0..BUF_MAX -> Char]
  BY <1>1, RingFields
<1>3. buf \in [0..BUF_MAX -> Char] /\ buf[BUF_MAX] = NUL
  BY <1>1, <1>2, BufMax
<1>4. CASE new = r
  BY <1>4
<1>5. CASE /\ r.end + 1 < BUF_MAX
           /\ new = [start |-> 0, end |-> r.end + 1, full |-> FALSE, buf |-> buf]
  <2> HIDE DEF new, buf
  <2>1. new \in Ring
    BY <1>2, <1>3, <1>5, BufMax DEF Ring
  <2>2. new.start = 0 /\ new.buf[BUF_MAX] = NUL
    BY <1>3, <1>5
  <2>3. new \in SoundRing
    BY <2>1, <2>2 DEF SoundRing
  <2>. QED BY <2>3 DEF new
<1>6. CASE new = [start |-> 0, end |-> r.end, full |-> TRUE, buf |-> buf]
  <2> HIDE DEF new, buf
  <2>1. new \in Ring
    BY <1>2, <1>3, <1>6, BufMax DEF Ring
  <2>2. new.start = 0 /\ new.buf[BUF_MAX] = NUL
    BY <1>3, <1>6
  <2>3. new \in SoundRing
    BY <2>1, <2>2 DEF SoundRing
  <2>. QED BY <2>3 DEF new
<1>. QED BY <1>4, <1>5, <1>6, WriteCharCases

\* The rings on the way through ring_buffer_write_string, one after each character.
Runs(r, s, after) ==
    /\ after[0] = r /\ after[Len(s)] = ring_buffer_write_string(r, s)
    /\ \A k \in 1..Len(s) : after[k] = ring_buffer_write_char(after[k - 1], s[k])

\* The recursion of ring_buffer_write_string has a solution.
LEMMA WriteStringRuns ==
    ASSUME NEW r \in SoundRing, NEW s \in Seq(Char)
    PROVE  \E after : Runs(r, s, after)
<1> DEFINE Eq(f) == f = [k \in 0..Len(s) |->
                           IF k = 0 THEN r ELSE ring_buffer_write_char(f[k - 1], s[k])]
           g == [x \in (1..Len(s)) \X SoundRing |-> ring_buffer_write_char(x[2], s[x[1]])]
           after == CHOOSE f : Eq(f)
<1>0. Len(s) \in Nat /\ \A k \in 1..Len(s) : s[k] \in Char
  OBVIOUS
<1>1. g \in [(1..Len(s)) \X SoundRing -> SoundRing]
  BY <1>0, WriteCharSound
<1>2. \A k \in 1..Len(s), q \in SoundRing : g[<<k, q>>] = ring_buffer_write_char(q, s[k])
  OBVIOUS
<1>3. PICK f \in [0..Len(s) -> SoundRing] : Data!Solves(f, Len(s), r, g)
  <2> HIDE DEF g
  <2>. QED BY <1>0, <1>1, Data!RecursionExists
<1>4. Eq(f)
  <2> HIDE DEF g
  <2>1. ASSUME NEW k \in 0..Len(s)
        PROVE  f[k] = IF k = 0 THEN r ELSE ring_buffer_write_char(f[k - 1], s[k])
    <3>1. CASE k = 0
      BY <1>3, <3>1 DEF Data!Solves
    <3>2. CASE k # 0
      <4>1. k \in 1..Len(s) /\ k - 1 \in 0..Len(s)
        BY <1>0, <3>2
      <4>2. f[k - 1] \in SoundRing
        BY <4>1
      <4>3. f[k] = g[<<k, f[k - 1]>>]
        BY <1>3, <3>2 DEF Data!Solves
      <4>. QED BY <1>2, <3>2, <4>1, <4>2, <4>3
    <3>. QED BY <3>1, <3>2
  <2>2. f = [k \in 0..Len(s) |-> f[k]]
    OBVIOUS
  <2>. QED BY <2>1, <2>2
<1>5. Eq(after)
  <2> HIDE DEF Eq
  <2>. QED BY <1>4
<1>6. ring_buffer_write_string(r, s) = after[Len(s)]
  BY DEF ring_buffer_write_string, after
<1> HIDE DEF after
<1>7. after[0] = r
  BY <1>0, <1>5
<1>8. ASSUME NEW k \in 1..Len(s) PROVE after[k] = ring_buffer_write_char(after[k - 1], s[k])
  <2>1. k \in 0..Len(s) /\ k # 0
    BY <1>0
  <2>. QED BY <1>5, <2>1
<1>. QED BY <1>6, <1>7, <1>8 DEF Runs

LEMMA WriteStringSound ==
    ASSUME NEW r \in SoundRing, NEW s \in Seq(Char)
    PROVE  ring_buffer_write_string(r, s) \in SoundRing
<1>1. PICK after : Runs(r, s, after)
  BY WriteStringRuns
<1>2. Len(s) \in Nat /\ \A k \in 1..Len(s) : s[k] \in Char
  OBVIOUS
<1> DEFINE Sound == {k \in 0..Len(s) : after[k] \in SoundRing}
<1>3. 0 \in Sound
  BY <1>1, <1>2 DEF Runs
<1>4. ASSUME NEW k \in 0..(Len(s) - 1), k \in Sound
      PROVE  k + 1 \in Sound
  <2>1. k + 1 \in 0..Len(s) /\ k + 1 \in 1..Len(s) /\ (k + 1) - 1 = k
    BY <1>2
  <2>2. after[k + 1] = ring_buffer_write_char(after[k], s[k + 1])
    BY <1>1, <2>1 DEF Runs
  <2>3. after[k] \in SoundRing
    BY <1>4
  <2>. QED BY <1>2, <2>1, <2>2, <2>3, WriteCharSound
<1> HIDE DEF Sound
<1>5. 0..Len(s) \subseteq Sound
  BY <1>2, <1>3, <1>4, Data!UpTo
<1>. QED BY <1>1, <1>2, <1>5 DEF Runs, Sound

(***************************************************************************)
(* What the ring holds.                                                    *)
(***************************************************************************)
\* The text between its indices is w, and it is marked full only when no more fits.
Holds(r, w) ==
    /\ r \in SoundRing /\ w \in Seq(Char) /\ Len(w) = r.end
    /\ \A k \in 1..r.end : w[k] = r.buf[k - 1]
    /\ r.full => r.end = Capacity

\* A text that the ring cuts at its capacity, and one more character.
Added(w, c) == IF Len(w) < Capacity THEN Append(w, c) ELSE w

LEMMA HoldsSlice ==
    ASSUME NEW r, NEW w, Holds(r, w)
    PROVE  Slice(r.buf, 0, r.end) = w /\ Flushed(r) = w
<1>1. r.end \in Nat /\ r.start = 0
  BY RingFields, BufMax DEF Holds, SoundRing
<1>2. Slice(r.buf, 0, r.end) = [k \in 1..r.end |-> r.buf[k - 1]]
  BY <1>1 DEF Slice
<1>3. w = [k \in 1..r.end |-> w[k]]
  BY DEF Holds
<1>4. Slice(r.buf, 0, r.end) = w
  BY <1>2, <1>3 DEF Holds
<1>5. r.end >= r.start /\ r.end - r.start = r.end
  BY <1>1
<1>6. Flushed(r) = Slice(r.buf, r.start, r.end - r.start)
  BY <1>5 DEF Flushed
<1>. QED BY <1>1, <1>4, <1>5, <1>6

LEMMA WriteCharHolds ==
    ASSUME NEW r, NEW w, Holds(r, w), NEW c \in Char
    PROVE  Holds(ring_buffer_write_char(r, c), Added(w, c))
<1> DEFINE new == ring_buffer_write_char(r, c)
           buf == [r.buf EXCEPT ![r.end] = c]
<1>1. r \in SoundRing /\ w \in Seq(Char) /\ Len(w) = r.end
  BY DEF Holds
<1>2. r.end \in 0..(BUF_MAX - 1) /\ r.full \in BOOLEAN /\ r.buf \in [0..BUF_MAX -> Char]
  BY <1>1, RingFields DEF SoundRing
<1>3. new \in SoundRing
  BY <1>1, WriteCharSound
<1>4. Capacity = BUF_MAX - 1 /\ BUF_MAX \in Nat /\ BUF_MAX > 1
  BY BufMax DEF Capacity
<1>5. \A k \in 0..BUF_MAX : buf[k] = IF k = r.end THEN c ELSE r.buf[k]
  BY <1>2
<1>6. \/ r.full /\ new = r
      \/ /\ ~r.full /\ r.end + 1 < BUF_MAX
         /\ new = [start |-> 0, end |-> r.end + 1, full |-> FALSE, buf |-> buf]
      \/ /\ ~r.full /\ r.end + 1 = BUF_MAX
         /\ new = [start |-> 0, end |-> r.end, full |-> TRUE, buf |-> buf]
  BY <1>1, WriteCharCases
<1> SUFFICES Holds(new, Added(w, c))
  OBVIOUS
<1> HIDE DEF new, buf
<1>7. CASE r.full /\ new = r
  <2>1. r.end = Capacity /\ ~(Len(w) < Capacity)
    BY <1>1, <1>2, <1>4, <1>7 DEF Holds
  <2>2. Added(w, c) = w
    BY <2>1 DEF Added
  <2>. QED BY <1>7, <2>2
<1>8. CASE /\ ~r.full /\ r.end + 1 < BUF_MAX
           /\ new = [start |-> 0, end |-> r.end + 1, full |-> FALSE, buf |-> buf]
  <2>1. Added(w, c) = Append(w, c) /\ Append(w, c) \in Seq(Char) /\ Len(Append(w, c)) = new.end
    BY <1>1, <1>2, <1>4, <1>8 DEF Added
  <2>2. ASSUME NEW k \in 1..(r.end + 1) PROVE Append(w, c)[k] = buf[k - 1]
    <3>1. CASE k = r.end + 1
      <4>1. r.end \in 0..BUF_MAX /\ k - 1 = r.end
        BY <1>2, <1>4, <3>1
      <4>2. Append(w, c)[k] = c
        BY <1>1, <1>2, <3>1
      <4>. QED BY <1>5, <4>1, <4>2
    <3>2. CASE k \in 1..r.end
      <4>1. k - 1 \in 0..BUF_MAX /\ k - 1 # r.end
        BY <1>2, <1>4, <3>2
      <4>2. Append(w, c)[k] = w[k]
        BY <1>1, <3>2
      <4>. QED BY <1>5, <3>2, <4>1, <4>2 DEF Holds
    <3>3. r.end \in Int
      BY <1>2
    <3>4. k = r.end + 1 \/ k \in 1..r.end
      BY <3>3
    <3>. QED BY <3>1, <3>2, <3>4
  <2>3. ~new.full /\ new.buf = buf /\ new.end = r.end + 1
    BY <1>8
  <2>4. \A k \in 1..new.end : Added(w, c)[k] = new.buf[k - 1]
    BY <2>1, <2>2, <2>3
  <2>5. new.full => new.end = Capacity
    BY <2>3
  <2>. QED BY <1>3, <2>1, <2>4, <2>5 DEF Holds
<1>9. CASE /\ ~r.full /\ r.end + 1 = BUF_MAX
           /\ new = [start |-> 0, end |-> r.end, full |-> TRUE, buf |-> buf]
  <2>1. Added(w, c) = w /\ new.end = r.end /\ new.buf = buf /\ r.end = Capacity
    BY <1>1, <1>2, <1>4, <1>9 DEF Added
  <2>2. ASSUME NEW k \in 1..r.end PROVE w[k] = buf[k - 1]
    <3>1. k - 1 \in 0..BUF_MAX /\ k - 1 # r.end
      BY <1>2, <1>4
    <3>. QED BY <1>5, <3>1 DEF Holds
  <2>. QED BY <1>1, <1>3, <2>1, <2>2 DEF Holds
<1>. QED BY <1>6, <1>7, <1>8, <1>9

LEMMA TakeAppend ==
    ASSUME NEW u \in Seq(Char), NEW c \in Char
    PROVE  Take(Append(u, c), Capacity) = Added(Take(u, Capacity), c)
<1>1. Capacity \in Nat
  BY BufMax DEF Capacity
<1>2. Append(u, c) \in Seq(Char) /\ Len(Append(u, c)) = Len(u) + 1 /\ Len(u) \in Nat
  OBVIOUS
<1>3. CASE Len(u) < Capacity
  <2>1. Take(u, Capacity) = u
    BY <1>3 DEF Take
  <2>2. Take(Append(u, c), Capacity) = Append(u, c)
    <3>1. (IF Len(u) + 1 < Capacity THEN Len(u) + 1 ELSE Capacity) = Len(u) + 1
      BY <1>1, <1>2, <1>3
    <3>2. Take(Append(u, c), Capacity) = SubSeq(Append(u, c), 1, Len(u) + 1)
      BY <1>2, <3>1 DEF Take
    <3>. QED BY <1>2, <3>2
  <2>. QED BY <1>3, <2>1, <2>2 DEF Added
<1>4. CASE ~(Len(u) < Capacity)
  <2>1. Take(u, Capacity) = SubSeq(u, 1, Capacity) /\ Len(SubSeq(u, 1, Capacity)) = Capacity
    BY <1>1, <1>2, <1>4 DEF Take
  <2>2. ~(Len(u) + 1 < Capacity)
    BY <1>1, <1>2, <1>4
  <2>3. Take(Append(u, c), Capacity) = SubSeq(Append(u, c), 1, Capacity)
    BY <1>2, <2>2 DEF Take
  <2>4. SubSeq(Append(u, c), 1, Capacity) = SubSeq(u, 1, Capacity)
    BY <1>1, <1>2, <1>4
  <2>5. ~(Len(Take(u, Capacity)) < Capacity)
    BY <1>1, <2>1
  <2>. QED BY <2>1, <2>3, <2>4, <2>5 DEF Added
<1>. QED BY <1>3, <1>4

\* ring_buffer_write_string adds what fits.
LEMMA WriteStringHolds ==
    ASSUME NEW r, NEW w, Holds(r, w), NEW s \in Seq(Char)
    PROVE  Holds(ring_buffer_write_string(r, s), Take(w \o s, Capacity))
<1>1. r \in SoundRing /\ w \in Seq(Char) /\ Len(w) = r.end /\ r.end \in 0..Capacity /\ Capacity \in Nat
  BY RingFields, BufMax DEF Holds, SoundRing, Capacity
<1>2. PICK after : Runs(r, s, after)
  BY <1>1, WriteStringRuns
<1>3. Len(s) \in Nat /\ \A k \in 1..Len(s) : s[k] \in Char
  OBVIOUS
<1> DEFINE Upto(k) == w \o SubSeq(s, 1, k)
           Good == {k \in 0..Len(s) : Holds(after[k], Take(Upto(k), Capacity))}
<1>4. 0 \in Good
  <2>1. SubSeq(s, 1, 0) = <<>> /\ w \o <<>> = w
    BY <1>1
  <2>2. Take(w, Capacity) = w
    BY <1>1 DEF Take
  <2>3. Holds(after[0], Take(Upto(0), Capacity))
    BY <1>2, <2>1, <2>2 DEF Runs
  <2> HIDE DEF Upto
  <2>. QED BY <1>3, <2>3
<1>5. ASSUME NEW k \in 0..(Len(s) - 1), k \in Good
      PROVE  k + 1 \in Good
  <2>1. k + 1 \in 0..Len(s) /\ k + 1 \in 1..Len(s) /\ (k + 1) - 1 = k
    BY <1>3
  <2>2. after[k + 1] = ring_buffer_write_char(after[k], s[k + 1])
    BY <1>2, <2>1 DEF Runs
  <2>3. Upto(k + 1) = Append(Upto(k), s[k + 1]) /\ Upto(k) \in Seq(Char)
    <3>1. SubSeq(s, 1, k + 1) = Append(SubSeq(s, 1, k), s[k + 1]) /\ SubSeq(s, 1, k) \in Seq(Char)
      BY <1>3, <2>1
    <3>2. w \o Append(SubSeq(s, 1, k), s[k + 1]) = Append(w \o SubSeq(s, 1, k), s[k + 1])
      BY <1>1, <1>3, <2>1, <3>1
    <3>. QED BY <1>1, <3>1, <3>2
  <2>4. Holds(after[k], Take(Upto(k), Capacity))
    BY <1>5
  <2> HIDE DEF Upto
  <2>5. Holds(after[k + 1], Added(Take(Upto(k), Capacity), s[k + 1]))
    BY <1>3, <2>1, <2>2, <2>4, WriteCharHolds
  <2>6. Take(Upto(k + 1), Capacity) = Added(Take(Upto(k), Capacity), s[k + 1])
    BY <1>3, <2>1, <2>3, TakeAppend
  <2>. QED BY <2>1, <2>5, <2>6
<1>6. SubSeq(s, 1, Len(s)) = s
  OBVIOUS
<1> HIDE DEF Good
<1>7. 0..Len(s) \subseteq Good
  BY <1>3, <1>4, <1>5, Data!UpTo
<1>8. Holds(after[Len(s)], Take(Upto(Len(s)), Capacity))
  BY <1>3, <1>7 DEF Good
<1>. QED BY <1>2, <1>6, <1>8 DEF Runs

\* print_and_reset_buffer leaves the ring of boot.
LEMMA ResetIsInit ==
    ASSUME NEW r \in SoundRing
    PROVE  Reset(r) = init_ring_buffer
<1>1. /\ r = [start |-> r.start, end |-> r.end, full |-> r.full, buf |-> r.buf]
      /\ r.buf \in [0..BUF_MAX -> Char] /\ r.buf[BUF_MAX] = NUL
  BY RingFields DEF SoundRing
<1>2. Cleared(r.buf, 0, BUF_MAX) = [k \in 0..(BUF_SIZE - 1) |-> NUL]
  BY <1>1, BufMax DEF Cleared
<1> DEFINE clear == Cleared(r.buf, 0, BUF_MAX)
<1> HIDE DEF clear
<1> DEFINE new == [r EXCEPT !.end = 0, !.start = 0, !.full = FALSE, !.buf = clear]
<1>3. new = [start |-> 0, end |-> 0, full |-> FALSE, buf |-> clear]
  <2>1. new \in [start : {0}, end : {0}, full : {FALSE}, buf : {clear}]
    BY <1>1
  <2> HIDE DEF new
  <2>. QED BY <2>1
<1>. QED BY <1>2, <1>3 DEF Reset, init_ring_buffer, clear

LEMMA InitSound == init_ring_buffer \in SoundRing
  BY BufMax, NulAssumption DEF init_ring_buffer, SoundRing, Ring

(***************************************************************************)
(* The console.                                                            *)
(***************************************************************************)
\* The ring is sound at every moment, also between two accesses of main.
RingSound == ring \in SoundRing

ProgramOK == prog \in Seq(Ops) /\ text \in Seq(Char)

\* Main stands inside the operation at the head of its program.
InsideOp ==
    /\ pc = "char" => prog # <<>> /\ op.name = "log"
    /\ pc \in {"flush", "cr", "clear"} => prog # <<>> /\ op.name = "flush"

\* A program that halts after nothing but logs and flushes.
Stops(p) ==
    \E n \in 1..Len(p) : p[n].name = "halt" /\ \A j \in 1..(n - 1) : p[j].name \in {"log", "flush"}

\* Inside a panic there is nothing left but its text, its flush and its halt, so that
\* panics nest through dbg_flush alone.
Panicking == depth # 0 => Stops(prog)

\* The indices are reset before the array is cleared, and nobody moves them between:
\* an interrupt that comes there leaves them reset.
ResetBeforeClear == pc = "clear" => ring.end = 0 /\ ~ring.full

IInv == TypeOK /\ RingSound /\ ProgramOK /\ InsideOp /\ Panicking /\ ResetBeforeClear

LEMMA CopyType ==
    ASSUME NEW r \in SoundRing
    PROVE  Copy(r) \in [end : 0..(BUF_MAX - 1), full : BOOLEAN]
  BY RingFields DEF Copy, SoundRing

\* A ring seen with other indices is as sound.
LEMMA SeenSound ==
    ASSUME NEW r \in SoundRing, NEW c \in [end : 0..(BUF_MAX - 1), full : BOOLEAN]
    PROVE  [r EXCEPT !.end = c.end, !.full = c.full] \in SoundRing
<1> DEFINE new == [r EXCEPT !.end = c.end, !.full = c.full]
<1>1. r \in Ring /\ r.start = 0 /\ r.buf[BUF_MAX] = NUL
  BY DEF SoundRing
<1>2. new \in Ring /\ new.start = r.start /\ new.buf = r.buf
  BY <1>1 DEF Ring
<1> HIDE DEF new
<1>3. new \in SoundRing
  BY <1>1, <1>2 DEF SoundRing
<1>. QED BY <1>3 DEF new

\* The array of one sound ring with the indices of another.
LEMMA BufSound ==
    ASSUME NEW r \in SoundRing, NEW q \in SoundRing
    PROVE  [r EXCEPT !.buf = q.buf] \in SoundRing
<1> DEFINE new == [r EXCEPT !.buf = q.buf]
<1>1. r \in Ring /\ q \in Ring /\ r.start = 0 /\ q.buf[BUF_MAX] = NUL
  BY DEF SoundRing
<1>2. new \in Ring /\ new.start = r.start /\ new.buf = q.buf
  BY <1>1 DEF Ring
<1> HIDE DEF new
<1>3. new \in SoundRing
  BY <1>1, <1>2 DEF SoundRing
<1>. QED BY <1>3 DEF new

LEMMA SoundIsRing ==
    ASSUME NEW r \in SoundRing
    PROVE  r \in Ring /\ r.start = 0
  BY DEF SoundRing

\* Programs: their head, their tail, and what a panic puts before them.
LEMMA TailOps ==
    ASSUME NEW p \in Seq(Ops), p # <<>>
    PROVE  Head(p) \in Ops /\ Tail(p) \in Seq(Ops)
  OBVIOUS

LEMMA TextOfLog ==
    ASSUME NEW o \in Ops, o.name \in {"log", "panic"}
    PROVE  o.text \in Seq(Char)
  BY DEF Ops

LEMMA PanicOps ==
    ASSUME NEW msg \in Seq(Char), NEW p \in Seq(Ops)
    PROVE  /\ Panic(msg) \o p \in Seq(Ops)
           /\ Stops(Panic(msg) \o p)
           /\ Panic(msg) \o p # <<>>
<1>1. Panic(msg) \in Seq(Ops) /\ Len(Panic(msg)) = 3
  BY DEF Panic, Ops
<1> DEFINE q == Panic(msg) \o p
<1>a. q \in Seq(Ops)
  BY <1>1
<1>b. Len(q) = Len(Panic(msg)) + Len(p)
  BY <1>1, ConcatProperties
<1>2. q \in Seq(Ops) /\ Len(q) = 3 + Len(p) /\ Len(p) \in Nat
  <2> HIDE DEF q
  <2>. QED BY <1>1, <1>a, <1>b
<1>3. q[1].name = "log" /\ q[2].name = "flush" /\ q[3].name = "halt"
  BY <1>1 DEF Panic
<1>4. 3 \in 1..Len(q)
  BY <1>2
<1> HIDE DEF q
<1>5. \A j \in 1..(3 - 1) : q[j].name \in {"log", "flush"}
  <2>1. \A j \in 1..(3 - 1) : j = 1 \/ j = 2
    OBVIOUS
  <2>. QED BY <1>3, <2>1
<1>6. Stops(q)
  BY <1>3, <1>4, <1>5 DEF Stops
<1>7. q # <<>>
  BY <1>2
<1>. QED BY <1>2, <1>6, <1>7 DEF q

LEMMA StopsTail ==
    ASSUME NEW p \in Seq(Ops), Stops(p), p # <<>>, Head(p).name \in {"log", "flush"}
    PROVE  Stops(Tail(p))
<1>1. PICK n \in 1..Len(p) :
        p[n].name = "halt" /\ \A j \in 1..(n - 1) : p[j].name \in {"log", "flush"}
  BY DEF Stops
<1>2. n # 1 /\ n - 1 \in 1..Len(Tail(p))
  BY <1>1
<1>3. Tail(p)[n - 1].name = "halt"
  BY <1>1, <1>2
<1>4. \A j \in 1..((n - 1) - 1) : Tail(p)[j].name \in {"log", "flush"}
  BY <1>1, <1>2
<1>. QED BY <1>2, <1>3, <1>4 DEF Stops

LEMMA StopsHead ==
    ASSUME NEW p \in Seq(Ops), Stops(p)
    PROVE  p # <<>> /\ Head(p).name \in {"log", "flush", "halt"}
  BY DEF Stops

-----------------------------------------------------------------------------
LEMMA InitHolds == Init => IInv
<1> SUFFICES ASSUME Init PROVE IInv
  OBVIOUS
<1>1. ring \in SoundRing /\ ring = init_ring_buffer
  BY InitSound DEF Init
<1>2. TypeOK
  <2>1. ring \in Ring /\ ring.start = 0
    BY <1>1, SoundIsRing
  <2>2. reg \in [end : 0..(BUF_MAX - 1), full : BOOLEAN] /\ 0 \in 0..(BUF_MAX - 1)
    BY BufMax DEF Init
  <2>3. 0 \in 0..Typed /\ 0 \in 0..MaxDepth
    BY ConsoleAssumption
  <2>4. at \in 0..(BUF_MAX - 1) /\ size \in 0..(BUF_MAX - 1) /\ at <= size
    BY <2>2 DEF Init
  <2>5. typed \in 0..Typed /\ depth \in 0..MaxDepth
    BY <2>3 DEF Init
  <2>6. /\ pc \in {"next", "char", "flush", "cr", "clear", "halt", "overflow"}
        /\ dirty \in BOOLEAN /\ putc \in BOOLEAN /\ irqs \in BOOLEAN
        /\ logging \in BOOLEAN /\ clean \in BOOLEAN
    BY DEF Init
  <2>. QED BY <2>1, <2>2, <2>4, <2>5, <2>6 DEF TypeOK
<1>3. ProgramOK
  BY ConsoleAssumption DEF Init, ProgramOK
<1>. QED BY <1>1, <1>2, <1>3 DEF Init, IInv, RingSound, InsideOp, Panicking, ResetBeforeClear

\* The last step of a flush, whose indices are already reset, makes the ring of boot.
LEMMA FlushEndIsInit ==
    ASSUME ring \in SoundRing, ResetBeforeClear, FlushEnd
    PROVE  ring' = init_ring_buffer
<1>1. /\ ring \in Ring /\ ring.start = 0 /\ ring.end = 0 /\ ~ring.full
      /\ ring' = [ring EXCEPT !.buf = Cleared(ring.buf, 0, BUF_MAX)]
  BY DEF FlushEnd, ResetBeforeClear, SoundRing
<1>2. Reset(ring) = init_ring_buffer
  BY ResetIsInit
<1> DEFINE clear == Cleared(ring.buf, 0, BUF_MAX)
<1>3. Reset(ring) = [ring EXCEPT !.end = 0, !.start = 0, !.full = FALSE, !.buf = clear]
  BY DEF Reset
<1> HIDE DEF clear
<1>4. ring' = [start |-> 0, end |-> 0, full |-> FALSE, buf |-> clear]
  BY <1>1 DEF Ring, clear
<1> DEFINE new == [ring EXCEPT !.end = 0, !.start = 0, !.full = FALSE, !.buf = clear]
<1>5. new = [start |-> 0, end |-> 0, full |-> FALSE, buf |-> clear]
  <2>1. new \in [start : {0}, end : {0}, full : {FALSE}, buf : {clear}]
    BY <1>1 DEF Ring
  <2> HIDE DEF new
  <2>. QED BY <2>1
<1>. QED BY <1>2, <1>3, <1>4, <1>5

\* What each operation of main does to the parts of IInv.
LEMMA MainHolds == IInv /\ Main => IInv'
<1> SUFFICES ASSUME IInv, Main PROVE IInv'
  OBVIOUS
<1> USE BufMax, ConsoleAssumption
<1>0. /\ TypeOK /\ ring \in SoundRing /\ ProgramOK /\ InsideOp /\ Panicking /\ ResetBeforeClear
      /\ prog \in Seq(Ops) /\ text \in Seq(Char)
      /\ ring.end \in 0..(BUF_MAX - 1) /\ ring.start = 0
  BY RingFields DEF IInv, RingSound, ProgramOK, SoundRing
<1>1. CASE ConsoleInit
  <2>1. prog # <<>> /\ op \in Ops /\ op.name \notin {"log", "flush", "halt"} /\ prog' \in Seq(Ops)
    BY <1>0, <1>1, TailOps DEF ConsoleInit, op
  <2>2. depth = 0
    BY <1>0, <2>1, StopsHead DEF Panicking, op
  <2>. QED BY <1>0, <1>1, <2>1, <2>2 DEF ConsoleInit, IInv, TypeOK, RingSound, ProgramOK, InsideOp, Panicking, ResetBeforeClear
<1>2. CASE EnableIrq
  <2>1. prog # <<>> /\ op \in Ops /\ op.name \notin {"log", "flush", "halt"} /\ prog' \in Seq(Ops)
    BY <1>0, <1>2, TailOps DEF EnableIrq, op
  <2>2. depth = 0
    BY <1>0, <2>1, StopsHead DEF Panicking, op
  <2>. QED BY <1>0, <1>2, <2>1, <2>2 DEF EnableIrq, IInv, TypeOK, RingSound, ProgramOK, InsideOp, Panicking, ResetBeforeClear
<1>3. CASE CallPanic
  <2>1. prog # <<>> /\ op \in Ops /\ op.name = "panic" /\ Tail(prog) \in Seq(Ops)
    BY <1>0, <1>3, TailOps DEF CallPanic, op
  <2>2. depth = 0
    BY <1>0, <2>1, StopsHead DEF Panicking, op
  <2>3. op.text \in Seq(Char)
    BY <2>1, TextOfLog
  <2>4. prog' \in Seq(Ops) /\ Stops(prog')
    BY <1>3, <2>1, <2>3, PanicOps DEF CallPanic
  <2>. QED BY <1>0, <1>3, <2>2, <2>4 DEF CallPanic, IInv, TypeOK, RingSound, ProgramOK, InsideOp, Panicking, ResetBeforeClear
<1>4. CASE Halt
  BY <1>0, <1>4 DEF Halt, IInv, TypeOK, RingSound, ProgramOK, InsideOp, Panicking, ResetBeforeClear
<1>5. CASE LogBegin
  <2>1. prog # <<>> /\ op \in Ops /\ op.name = "log"
    BY <1>0, <1>5, TailOps DEF LogBegin, op
  <2>2. text' \in Seq(Char)
    BY <1>5, <2>1, TextOfLog DEF LogBegin
  <2>3. reg' \in [end : 0..(BUF_MAX - 1), full : BOOLEAN]
    BY <1>0, <1>5, CopyType DEF LogBegin
  <2>. QED BY <1>0, <1>5, <2>1, <2>2, <2>3 DEF LogBegin, IInv, TypeOK, RingSound, ProgramOK, InsideOp, Panicking, ResetBeforeClear, op
<1>6. CASE Reload
  <2>1. reg' \in [end : 0..(BUF_MAX - 1), full : BOOLEAN]
    BY <1>0, <1>6, CopyType DEF Reload
  <2>. QED BY <1>0, <1>6, <2>1 DEF Reload, IInv, TypeOK, RingSound, ProgramOK, InsideOp, Panicking, ResetBeforeClear, op
<1>7. CASE LogChar
  <2> DEFINE old == [ring EXCEPT !.end = reg.end, !.full = reg.full]
             new == ring_buffer_write_char(old, Head(text))
  <2>1. Head(text) \in Char /\ text' \in Seq(Char)
    BY <1>0, <1>7 DEF LogChar
  <2>2. old \in SoundRing
    BY <1>0, SeenSound DEF TypeOK
  <2>3. new \in SoundRing
    BY <2>1, <2>2, WriteCharSound
  <2>4. ring' = [ring EXCEPT !.buf = new.buf] /\ reg' = Copy(new) /\ dirty' \in BOOLEAN
    BY <1>0, <1>7 DEF LogChar, TypeOK
  <2> HIDE DEF new, old
  <2>5. ring' \in SoundRing /\ ring' \in Ring /\ ring'.start = 0
    BY <1>0, <2>3, <2>4, BufSound, SoundIsRing
  <2>6. reg' \in [end : 0..(BUF_MAX - 1), full : BOOLEAN]
    BY <2>3, <2>4, CopyType
  <2>7. pc' = pc /\ pc = "char" /\ prog' = prog /\ UNCHANGED <<at, size, putc, irqs, logging, clean, typed, depth>>
    BY <1>7 DEF LogChar
  <2>. QED BY <1>0, <2>1, <2>4, <2>5, <2>6, <2>7 DEF IInv, TypeOK, RingSound, ProgramOK, InsideOp, Panicking, ResetBeforeClear, op
<1>8. CASE WriteBack
  <2>1. ring' \in SoundRing
    BY <1>0, <1>8, SeenSound DEF WriteBack, TypeOK
  <2>2. ring' \in Ring /\ ring'.start = 0
    BY <2>1, SoundIsRing
  <2>3. /\ pc' = pc /\ pc = "char" /\ prog' = prog /\ text' = text /\ reg' = reg /\ dirty' = FALSE
        /\ UNCHANGED <<at, size, putc, irqs, logging, clean, typed, depth>>
    BY <1>8 DEF WriteBack
  <2>. QED BY <1>0, <2>1, <2>2, <2>3 DEF IInv, TypeOK, RingSound, ProgramOK, InsideOp, Panicking, ResetBeforeClear, op
<1>9. CASE LogEnd
  <2>1. prog # <<>> /\ op \in Ops /\ op.name = "log" /\ prog' \in Seq(Ops) /\ prog' = Tail(prog)
    BY <1>0, <1>9, TailOps DEF LogEnd, InsideOp, op
  <2>2. Panicking'
    BY <1>0, <1>9, <2>1, StopsTail DEF LogEnd, Panicking, op
  <2>. QED BY <1>0, <1>9, <2>1, <2>2 DEF LogEnd, IInv, TypeOK, RingSound, ProgramOK, InsideOp, ResetBeforeClear
<1>10. CASE FlushUnset
  <2>1. prog # <<>> /\ Tail(prog) \in Seq(Ops)
    BY <1>0, <1>10, TailOps DEF FlushUnset
  <2>2. CASE depth < MaxDepth
    <3>1. prog' = Panic(Unset) \o Tail(prog) /\ depth' = depth + 1
      BY <1>10, <2>2 DEF FlushUnset
    <3>2. prog' \in Seq(Ops) /\ Stops(prog')
      BY <2>1, <3>1, PanicOps
    <3>3. depth' \in 0..MaxDepth
      BY <1>0, <2>2, <3>1 DEF TypeOK
    <3>. QED BY <1>0, <1>10, <2>2, <3>2, <3>3 DEF FlushUnset, IInv, TypeOK, RingSound, ProgramOK, InsideOp, Panicking, ResetBeforeClear
  <2>3. CASE ~(depth < MaxDepth)
    BY <1>0, <1>10, <2>3 DEF FlushUnset, IInv, TypeOK, RingSound, ProgramOK, InsideOp, Panicking, ResetBeforeClear
  <2>. QED BY <2>2, <2>3
<1>11. CASE FlushBegin
  <2>1. size' = ring.end /\ size' \in 0..(BUF_MAX - 1) /\ at' = 0
    BY <1>0, <1>11 DEF FlushBegin
  <2>. QED BY <1>0, <1>11, <2>1 DEF FlushBegin, IInv, TypeOK, RingSound, ProgramOK, InsideOp, Panicking, ResetBeforeClear, op
<1>12. CASE FlushChar
  <2>1. at' \in 0..(BUF_MAX - 1) /\ at' <= size
    BY <1>0, <1>12 DEF FlushChar, TypeOK
  <2>2. pc' \in {"cr", "flush"}
    BY <1>12 DEF FlushChar
  <2>. QED BY <1>0, <1>12, <2>1, <2>2 DEF FlushChar, IInv, TypeOK, RingSound, ProgramOK, InsideOp, Panicking, ResetBeforeClear, op
<1>13. CASE CarriageReturn
  BY <1>0, <1>13 DEF CarriageReturn, IInv, TypeOK, RingSound, ProgramOK, InsideOp, Panicking, ResetBeforeClear, op
<1>14. CASE ResetIndices
  <2> DEFINE c == [end |-> 0, full |-> FALSE]
  <2>1. c \in [end : 0..(BUF_MAX - 1), full : BOOLEAN]
    OBVIOUS
  <2>2. [ring EXCEPT !.end = c.end, !.full = c.full] \in SoundRing
    <3> HIDE DEF c
    <3>. QED BY <1>0, <2>1, SeenSound
  <2>3. ring' = [ring EXCEPT !.end = c.end, !.full = c.full]
    BY <1>0, <1>14 DEF ResetIndices, SoundRing, Ring
  <2>4. ring' \in SoundRing /\ ring' \in Ring /\ ring'.start = 0 /\ ring'.end = 0 /\ ~ring'.full
    BY <1>0, <2>2, <2>3, SoundIsRing DEF SoundRing, Ring
  <2>5. /\ pc = "flush" /\ pc' = "clear" /\ prog' = prog /\ text' = text /\ reg' = reg /\ dirty' = dirty
        /\ UNCHANGED <<at, size, putc, irqs, logging, clean, typed, depth>>
    BY <1>14 DEF ResetIndices
  <2>. QED BY <1>0, <2>4, <2>5 DEF IInv, TypeOK, RingSound, ProgramOK, InsideOp, Panicking, ResetBeforeClear, op
<1>15. CASE FlushEnd
  <2>1. prog # <<>> /\ op \in Ops /\ op.name = "flush" /\ prog' \in Seq(Ops) /\ prog' = Tail(prog)
    BY <1>0, <1>15, TailOps DEF FlushEnd, InsideOp, op
  <2>2. Panicking'
    BY <1>0, <1>15, <2>1, StopsTail DEF FlushEnd, Panicking, op
  <2>3. ring' = init_ring_buffer
    BY <1>0, <1>15, FlushEndIsInit
  <2>4. ring' \in SoundRing /\ ring' \in Ring /\ ring'.start = 0
    BY <2>3, InitSound, SoundIsRing
  <2>. QED BY <1>0, <1>15, <2>1, <2>2, <2>4 DEF FlushEnd, IInv, TypeOK, RingSound, ProgramOK, InsideOp, ResetBeforeClear
<1>. QED BY <1>1, <1>2, <1>3, <1>4, <1>5, <1>6, <1>7, <1>8, <1>9, <1>10, <1>11, <1>12, <1>13, <1>14, <1>15 DEF Main

\* An interrupt resets the ring, wherever it comes.
LEMMA InterruptHolds == IInv /\ Interrupt => IInv'
<1> SUFFICES ASSUME IInv, NEW key \in Keys, console_data_received(key) \/ cb_console_data_irq(key)
             PROVE  IInv'
  BY DEF Interrupt
<1> USE BufMax, ConsoleAssumption
<1>0. TypeOK /\ ring \in SoundRing /\ ProgramOK /\ InsideOp /\ Panicking /\ ResetBeforeClear
  BY DEF IInv, RingSound
<1>1. typed < Typed /\ OnKey(key)
  BY DEF console_data_received, cb_console_data_irq, Interruptible
<1>2. ASSUME NEW msg \in Seq(Char), Respond(msg)
      PROVE  ring' = init_ring_buffer /\ clean' \in BOOLEAN
  <2>1. ring_buffer_write_string(ring, msg) \in SoundRing
    BY <1>0, <1>2, WriteStringSound
  <2>. QED BY <1>0, <1>2, <2>1, ResetIsInit DEF Respond, TypeOK
<1>3. <<>> \in Seq(Char)
  OBVIOUS
<1>4. ring' = init_ring_buffer /\ clean' \in BOOLEAN /\ logging' \in BOOLEAN
  <2>1. CASE Toggles(key) /\ logging'
    BY <1>0, <1>1, <1>2, <2>1 DEF OnKey, TypeOK
  <2>2. CASE Toggles(key) /\ ~logging'
    BY <1>0, <1>1, <1>2, <2>2 DEF OnKey, TypeOK
  <2>3. CASE ~Toggles(key)
    BY <1>0, <1>1, <1>2, <1>3, <2>3 DEF OnKey, TypeOK
  <2>. QED BY <2>1, <2>2, <2>3
<1>5. ring' \in SoundRing /\ ring' \in Ring /\ ring'.start = 0 /\ ring'.end = 0 /\ ~ring'.full
  BY <1>4, InitSound, SoundIsRing DEF init_ring_buffer
<1>6. typed' \in 0..Typed
  BY <1>0, <1>1 DEF OnKey, TypeOK
<1>7. UNCHANGED mainVars
  BY <1>1 DEF OnKey
<1>. QED BY <1>0, <1>4, <1>5, <1>6, <1>7
       DEF mainVars, IInv, TypeOK, RingSound, ProgramOK, InsideOp, Panicking, ResetBeforeClear, op

LEMMA Inductive == IInv /\ [Next]_vars => IInv'
<1>1. IInv /\ Main => IInv'
  BY MainHolds
<1>2. IInv /\ Interrupt => IInv'
  BY InterruptHolds
<1>3. IInv /\ UNCHANGED vars => IInv'
  BY DEF vars, IInv, TypeOK, RingSound, ProgramOK, InsideOp, Panicking, ResetBeforeClear, op
<1>. QED BY <1>1, <1>2, <1>3 DEF Next

LEMMA Invariant == Spec => []IInv
  BY InitHolds, Inductive, PTL DEF Spec

\* Whatever main prints and wherever the interrupt comes, no index of the ring or of
\* the loop of flush leaves the array (printf.c:96-106, 179-186), start stays at 0 and
\* panics nest no deeper than dbg_flush makes them.
THEOREM TypeCorrect == Spec => []TypeOK
<1>1. IInv => TypeOK
  BY DEF IInv
<1>. QED BY <1>1, Invariant, PTL

\* Every flush of main leaves the ring exactly as at boot, whatever interrupts did to
\* it before and during the flush (printf.c:195-222).
THEOREM FlushCorrect == Spec => FlushRecovers
<1>1. IInv /\ [Next]_vars => (FlushEnd => ring' = init_ring_buffer)
  BY FlushEndIsInit DEF IInv, RingSound
<1>2. [][FlushEnd => ring' = init_ring_buffer]_vars <=> FlushRecovers
  BY DEF FlushRecovers
<1>. QED BY <1>1, Invariant, PTL DEF Spec, FlushRecovers

-----------------------------------------------------------------------------
(***************************************************************************)
(* What the console receives.  Sent distributes over the parts of a text.  *)
(***************************************************************************)
OutChar == Char \cup {NL, CR}

One(c) == IF c = NL THEN <<NL, CR>> ELSE <<c>>

\* What has been sent after each character.
Sends(s, after) ==
    /\ after \in [0..Len(s) -> Seq(OutChar)]
    /\ after[0] = <<>> /\ after[Len(s)] = Sent(s)
    /\ \A k \in 1..Len(s) : after[k] = after[k - 1] \o One(s[k])

LEMMA OneType ==
    ASSUME NEW c \in Char
    PROVE  One(c) \in Seq(OutChar)
<1>1. NL \in OutChar /\ CR \in OutChar /\ c \in OutChar
  BY DEF OutChar
<1> HIDE DEF OutChar
<1>2. <<NL, CR>> \in Seq(OutChar) /\ <<c>> \in Seq(OutChar)
  BY <1>1
<1>. QED BY <1>2 DEF One

LEMMA TwoChars ==
    ASSUME NEW a \in OutChar, NEW b \in OutChar
    PROVE  <<a>> \o <<b>> = <<a, b>>
<1> DEFINE s == <<a>> \o <<b>>
<1>1. <<a>> \in Seq(OutChar) /\ <<b>> \in Seq(OutChar) /\ <<a, b>> \in Seq(OutChar)
  <2> HIDE DEF OutChar
  <2>. QED OBVIOUS
<1>2. Len(<<a>>) = 1 /\ Len(<<b>>) = 1 /\ Len(<<a, b>>) = 2 /\ <<a>>[1] = a /\ <<b>>[1] = b
  OBVIOUS
<1>3. s \in Seq(OutChar) /\ Len(s) = 1 + 1
  <2> HIDE DEF OutChar
  <2>. QED BY <1>1, <1>2, ConcatProperties
<1>4. \A n \in 1..(1 + 1) : s[n] = IF n <= 1 THEN <<a>>[n] ELSE <<b>>[n - 1]
  <2> HIDE DEF OutChar
  <2>. QED BY <1>1, <1>2, ConcatProperties
<1>5. s[1] = a
  BY <1>2, <1>4
<1>6. s[2] = b
  <2>1. 2 \in 1..(1 + 1) /\ ~(2 <= 1) /\ 2 - 1 = 1
    OBVIOUS
  <2>2. s[2] = <<b>>[2 - 1]
    BY <1>4, <2>1
  <2>. QED BY <1>2, <2>1, <2>2
<1> HIDE DEF s
<1>7. \A n \in 1..2 : s[n] = <<a, b>>[n]
  <2>1. \A n \in 1..2 : n = 1 \/ n = 2
    OBVIOUS
  <2>. QED BY <1>5, <1>6, <2>1
<1>8. Len(s) = Len(<<a, b>>) /\ Len(s) = 2
  BY <1>2, <1>3
<1>9. s = <<a, b>>
  <2> HIDE DEF OutChar
  <2> DEFINE t == <<a, b>>
  <2>1. t \in Seq(OutChar) /\ Len(s) = Len(t) /\ \A n \in 1..Len(s) : s[n] = t[n]
    BY <1>1, <1>7, <1>8
  <2> HIDE DEF t
  <2>2. s = t
    BY <1>3, <2>1, SeqEqual
  <2>. QED BY <2>2 DEF t
<1>. QED BY <1>9 DEF s

\* Concatenation of what is sent.
LEMMA Assoc ==
    ASSUME NEW a \in Seq(OutChar), NEW b \in Seq(OutChar), NEW c \in Seq(OutChar)
    PROVE  (a \o b) \o c = a \o (b \o c)
<1> HIDE DEF OutChar
<1>. QED BY ConcatAssociative

LEMMA SentSends ==
    ASSUME NEW s \in Seq(Char)
    PROVE  \E after : Sends(s, after)
<1> DEFINE Eq(f) == f = [k \in 0..Len(s) |->
                           IF k = 0 THEN <<>>
                           ELSE f[k - 1] \o (IF s[k] = NL THEN <<NL, CR>> ELSE <<s[k]>>)]
           D == Seq(OutChar)
           g == [x \in (1..Len(s)) \X D |-> x[2] \o One(s[x[1]])]
           after == CHOOSE f : Eq(f)
<1>0. Len(s) \in Nat /\ \A k \in 1..Len(s) : s[k] \in Char
  OBVIOUS
<1>1. \A k \in 1..Len(s), q \in D : q \o One(s[k]) \in D
  BY <1>0, OneType, ConcatProperties
<1>2. <<>> \in D
  OBVIOUS
<1> HIDE DEF D
<1>3. g \in [(1..Len(s)) \X D -> D]
  BY <1>1
<1>4. \A k \in 1..Len(s), q \in D : g[<<k, q>>] = q \o One(s[k])
  OBVIOUS
<1>5. PICK f \in [0..Len(s) -> D] : Data!Solves(f, Len(s), <<>>, g)
  <2> HIDE DEF g
  <2>. QED BY <1>0, <1>2, <1>3, Data!RecursionExists
<1>6. Eq(f)
  <2> HIDE DEF g
  <2>1. ASSUME NEW k \in 0..Len(s)
        PROVE  f[k] = IF k = 0 THEN <<>> ELSE f[k - 1] \o (IF s[k] = NL THEN <<NL, CR>> ELSE <<s[k]>>)
    <3>1. CASE k = 0
      BY <1>5, <3>1 DEF Data!Solves
    <3>2. CASE k # 0
      <4>1. k \in 1..Len(s) /\ k - 1 \in 0..Len(s)
        BY <1>0, <3>2
      <4>2. f[k - 1] \in D
        BY <4>1
      <4>3. f[k] = g[<<k, f[k - 1]>>]
        BY <1>5, <3>2 DEF Data!Solves
      <4>4. f[k] = f[k - 1] \o One(s[k])
        BY <1>4, <4>1, <4>2, <4>3
      <4>. QED BY <3>2, <4>4 DEF One
    <3>. QED BY <3>1, <3>2
  <2>2. f = [k \in 0..Len(s) |-> f[k]]
    OBVIOUS
  <2>. QED BY <2>1, <2>2
<1>7. Eq(after)
  <2> HIDE DEF Eq
  <2>. QED BY <1>6
<1>8. Sent(s) = after[Len(s)]
  BY DEF Sent, after
<1> HIDE DEF after
<1>9. after[0] = <<>>
  BY <1>0, <1>7
<1>10. ASSUME NEW k \in 1..Len(s) PROVE after[k] = after[k - 1] \o One(s[k])
  <2>1. k \in 0..Len(s) /\ k # 0
    BY <1>0
  <2>2. after[k] = after[k - 1] \o (IF s[k] = NL THEN <<NL, CR>> ELSE <<s[k]>>)
    BY <1>7, <2>1
  <2>. QED BY <2>2 DEF One
<1>11. after = [k \in 0..Len(s) |-> after[k]]
  BY <1>7
<1> DEFINE Typed2 == {k \in 0..Len(s) : after[k] \in D}
<1>12. 0 \in Typed2
  BY <1>0, <1>2, <1>9
<1>13. ASSUME NEW k \in 0..(Len(s) - 1), k \in Typed2
       PROVE  k + 1 \in Typed2
  <2>1. k + 1 \in 0..Len(s) /\ k + 1 \in 1..Len(s) /\ (k + 1) - 1 = k
    BY <1>0
  <2>2. after[k + 1] = after[k] \o One(s[k + 1])
    BY <1>10, <2>1
  <2>. QED BY <1>1, <1>13, <2>1, <2>2
<1>14. 0..Len(s) \subseteq Typed2
  <2> HIDE DEF Typed2
  <2>. QED BY <1>0, <1>12, <1>13, Data!UpTo
<1>15. after \in [0..Len(s) -> D]
  BY <1>11, <1>14
<1>. QED BY <1>8, <1>9, <1>10, <1>15 DEF Sends, D

LEMMA SentType ==
    ASSUME NEW s \in Seq(Char)
    PROVE  Sent(s) \in Seq(OutChar)
<1>1. PICK after : Sends(s, after)
  BY SentSends
<1>2. Len(s) \in 0..Len(s)
  OBVIOUS
<1>. QED BY <1>1, <1>2 DEF Sends

LEMMA SentEmpty == Sent(<<>>) = <<>>
<1>1. <<>> \in Seq(Char) /\ Len(<<>>) = 0
  OBVIOUS
<1>2. PICK after : Sends(<<>>, after)
  BY <1>1, SentSends
<1>. QED BY <1>1, <1>2 DEF Sends

LEMMA SentAppend ==
    ASSUME NEW s \in Seq(Char), NEW c \in Char
    PROVE  Sent(Append(s, c)) = Sent(s) \o One(c)
<1> DEFINE t == Append(s, c)
<1>1. t \in Seq(Char) /\ Len(t) = Len(s) + 1 /\ Len(s) \in Nat /\ t[Len(s) + 1] = c
  OBVIOUS
<1>2. \A k \in 1..Len(s) : t[k] = s[k]
  OBVIOUS
<1> HIDE DEF t
<1>3. PICK f : Sends(s, f)
  BY SentSends
<1>4. PICK h : Sends(t, h)
  BY <1>1, SentSends
<1> DEFINE Same == {k \in 0..Len(s) : h[k] = f[k]}
<1>5. 0 \in Same
  BY <1>1, <1>3, <1>4 DEF Sends
<1>6. ASSUME NEW k \in 0..(Len(s) - 1), k \in Same
      PROVE  k + 1 \in Same
  <2>1. k + 1 \in 0..Len(s) /\ k + 1 \in 1..Len(s) /\ k + 1 \in 1..Len(t) /\ (k + 1) - 1 = k
    BY <1>1
  <2>2. h[k + 1] = h[k] \o One(t[k + 1]) /\ f[k + 1] = f[k] \o One(s[k + 1])
    BY <1>3, <1>4, <2>1 DEF Sends
  <2>. QED BY <1>2, <1>6, <2>1, <2>2
<1>7. 0..Len(s) \subseteq Same
  <2> HIDE DEF Same
  <2>. QED BY <1>1, <1>5, <1>6, Data!UpTo
<1>8. h[Len(s)] = Sent(s)
  BY <1>1, <1>3, <1>7 DEF Sends
<1>9. h[Len(t)] = h[Len(s)] \o One(c)
  <2>1. Len(t) \in 1..Len(t) /\ Len(t) - 1 = Len(s)
    BY <1>1
  <2>. QED BY <1>1, <1>4, <2>1 DEF Sends
<1>. QED BY <1>4, <1>8, <1>9 DEF Sends, t

LEMMA SentConcat ==
    ASSUME NEW s \in Seq(Char), NEW t \in Seq(Char)
    PROVE  Sent(s \o t) = Sent(s) \o Sent(t)
<1> DEFINE Upto(k) == SubSeq(t, 1, k)
           Good == {k \in 0..Len(t) : Sent(s \o Upto(k)) = Sent(s) \o Sent(Upto(k))}
<1>0. Len(t) \in Nat
  OBVIOUS
<1>1. 0 \in Good
  <2>1. Upto(0) = <<>> /\ s \o <<>> = s
    OBVIOUS
  <2>2. Sent(s) \o <<>> = Sent(s)
    BY SentType, ConcatEmptySeq
  <2>3. Sent(s \o Upto(0)) = Sent(s) \o Sent(Upto(0))
    BY <2>1, <2>2, SentEmpty
  <2> HIDE DEF Upto
  <2>. QED BY <1>0, <2>3
<1>2. ASSUME NEW k \in 0..(Len(t) - 1), k \in Good
      PROVE  k + 1 \in Good
  <2>1. k + 1 \in 0..Len(t) /\ t[k + 1] \in Char
    BY <1>0
  <2>2. Upto(k) \in Seq(Char) /\ Upto(k + 1) = Append(Upto(k), t[k + 1])
    BY <1>0, <2>1
  <2> HIDE DEF Upto
  <2>3. s \o Append(Upto(k), t[k + 1]) = Append(s \o Upto(k), t[k + 1]) /\ s \o Upto(k) \in Seq(Char)
    BY <2>1, <2>2
  <2>4. Sent(s \o Upto(k + 1)) = Sent(s \o Upto(k)) \o One(t[k + 1])
    BY <2>1, <2>2, <2>3, SentAppend
  <2>5. Sent(Upto(k + 1)) = Sent(Upto(k)) \o One(t[k + 1])
    BY <2>1, <2>2, SentAppend
  <2>6. Sent(s) \in Seq(OutChar) /\ Sent(Upto(k)) \in Seq(OutChar) /\ One(t[k + 1]) \in Seq(OutChar)
    BY <2>1, <2>2, SentType, OneType
  <2>7. (Sent(s) \o Sent(Upto(k))) \o One(t[k + 1]) = Sent(s) \o (Sent(Upto(k)) \o One(t[k + 1]))
    BY <2>6, Assoc
  <2>. QED BY <1>2, <2>1, <2>4, <2>5, <2>7
<1>3. 0..Len(t) \subseteq Good
  <2> HIDE DEF Good
  <2>. QED BY <1>0, <1>1, <1>2, Data!UpTo
<1>4. Upto(Len(t)) = t
  OBVIOUS
<1> HIDE DEF Upto
<1>5. Len(t) \in Good
  BY <1>0, <1>3
<1>. QED BY <1>4, <1>5

\* The first character of the rest of a flush.
LEMMA SentSlice ==
    ASSUME NEW buf \in [0..BUF_MAX -> Char], NEW lo \in 0..BUF_MAX, NEW hi \in 0..BUF_MAX, lo < hi
    PROVE  /\ Slice(buf, lo + 1, hi - (lo + 1)) \in Seq(Char)
           /\ Sent(Slice(buf, lo, hi - lo))
                = One(buf[lo]) \o Sent(Slice(buf, lo + 1, hi - (lo + 1)))
<1> DEFINE n == hi - (lo + 1)
           rest == Slice(buf, lo + 1, n)
           first == Append(<<>>, buf[lo])
<1>0. n \in Nat /\ hi - lo = n + 1 /\ buf[lo] \in Char /\ hi = lo + n + 1 /\ BUF_MAX \in Nat
  BY BufMax
<1> HIDE DEF n
<1>1. rest = [k \in 1..n |-> buf[(lo + 1) + k - 1]]
  BY DEF Slice
<1>2. rest \in Seq(Char) /\ Len(rest) = n
  <2>1. \A k \in 1..n : buf[(lo + 1) + k - 1] \in Char
    BY <1>0
  <2>2. rest \in [1..n -> Char]
    BY <1>1, <2>1
  <2> HIDE DEF rest
  <2>. QED BY <1>0, <2>2
<1>3. \A k \in 1..n : rest[k] = buf[lo + k]
  <2>1. \A k \in 1..n : (lo + 1) + k - 1 = lo + k
    BY <1>0
  <2>. QED BY <1>1, <2>1
<1>4. first \in Seq(Char) /\ Len(first) = 1 /\ first[1] = buf[lo]
  BY <1>0
<1> HIDE DEF rest, first
<1>5. Slice(buf, lo, n + 1) = first \o rest
  <2>1. Slice(buf, lo, n + 1) = [k \in 1..(n + 1) |-> buf[lo + k - 1]]
    BY DEF Slice
  <2>2. /\ first \o rest \in Seq(Char) /\ Len(first \o rest) = n + 1
        /\ \A k \in 1..(n + 1) : (first \o rest)[k] = IF k <= 1 THEN first[k] ELSE rest[k - 1]
    <3>1. 1 + n = n + 1
      BY <1>0
    <3>. QED BY <1>0, <1>2, <1>4, <3>1, ConcatProperties
  <2>3. ASSUME NEW k \in 1..(n + 1) PROVE (first \o rest)[k] = buf[lo + k - 1]
    <3>1. CASE k = 1
      BY <1>0, <1>4, <2>2, <3>1
    <3>2. CASE k # 1
      <4>1. k - 1 \in 1..n /\ lo + (k - 1) = lo + k - 1 /\ ~(k <= 1)
        BY <1>0, <3>2
      <4>2. (first \o rest)[k] = rest[k - 1]
        BY <2>2, <4>1
      <4>3. rest[k - 1] = buf[lo + (k - 1)]
        BY <1>3, <4>1
      <4>. QED BY <4>1, <4>2, <4>3
    <3>. QED BY <3>1, <3>2
  <2>4. first \o rest = [k \in 1..(n + 1) |-> (first \o rest)[k]]
    <3> DEFINE all == first \o rest
    <3>1. all \in [1..Len(all) -> Char] /\ Len(all) = n + 1
      <4> HIDE DEF all
      <4>1. all \in Seq(Char) /\ Len(all) = n + 1
        BY <2>2 DEF all
      <4>. QED BY <4>1, LenProperties
    <3> HIDE DEF all
    <3>2. all = [k \in 1..(n + 1) |-> all[k]]
      BY <3>1
    <3>. QED BY <3>2 DEF all
  <2>. QED BY <2>1, <2>3, <2>4
<1>6. Sent(first) = One(buf[lo])
  <2>0. <<>> \in Seq(Char)
    OBVIOUS
  <2>1. Sent(first) = <<>> \o One(buf[lo])
    BY <1>0, <2>0, SentAppend, SentEmpty DEF first
  <2>. QED BY <1>0, <2>1, OneType, ConcatEmptySeq
<1>7. Sent(first \o rest) = Sent(first) \o Sent(rest)
  BY <1>2, <1>4, SentConcat
<1>. QED BY <1>0, <1>2, <1>5, <1>6, <1>7 DEF rest, n

-----------------------------------------------------------------------------
\* The ring as a log of main sees it, through its copies of end and full.
Seen == [start |-> 0, end |-> reg.end, full |-> reg.full, buf |-> ring.buf]

\* What a flush has still to send.
Rest == Sent(Slice(ring.buf, at, size - at))

DirtyInLog == dirty => pc = "char"

\* Without an interrupt inside an operation, the ring holds the text it should, and
\* what was sent, with what a flush has still to send, is the text before it.
Exact ==
    /\ wait \in Seq(Char) /\ want \in Seq(Char) /\ tx \in Seq(OutChar)
    /\ pc = "char" => Holds(Seen, wait) /\ (~dirty => reg = Copy(ring))
    /\ pc # "char" => Holds(ring, wait)
    /\ pc \notin {"flush", "cr"} => tx = Sent(want)
    /\ pc \in {"flush", "cr"} => size = ring.end
    /\ pc = "flush" => tx \o Rest = Sent(want \o wait)
    /\ pc = "cr" => tx \o (<<CR>> \o Rest) = Sent(want \o wait)

EInv == IInv /\ DirtyInLog /\ (clean => Exact)

LEMMA HoldsNothing ==
    ASSUME NEW r \in SoundRing, r.end = 0, ~r.full
    PROVE  Holds(r, <<>>)
<1>1. <<>> \in Seq(Char) /\ Len(<<>>) = 0 /\ 1..0 = {}
  OBVIOUS
<1>. QED BY <1>1 DEF Holds

\* A ring and its copy see the same.
LEMMA SeenIsRing ==
    ASSUME ring \in SoundRing, reg = Copy(ring)
    PROVE  Seen = ring
<1>1. ring = [start |-> ring.start, end |-> ring.end, full |-> ring.full, buf |-> ring.buf] /\ ring.start = 0
  BY RingFields DEF SoundRing
<1>2. reg.end = ring.end /\ reg.full = ring.full
  BY DEF Copy
<1>3. Seen = [start |-> 0, end |-> ring.end, full |-> ring.full, buf |-> ring.buf]
  BY <1>2 DEF Seen
<1>. QED BY <1>1, <1>3

\* The ring with the indices of main's copy is what main sees.
LEMMA SeenFields ==
    ASSUME ring \in SoundRing
    PROVE  [ring EXCEPT !.end = reg.end, !.full = reg.full] = Seen
<1>1. ring = [start |-> ring.start, end |-> ring.end, full |-> ring.full, buf |-> ring.buf] /\ ring.start = 0
  BY RingFields DEF SoundRing
<1> DEFINE new == [ring EXCEPT !.end = reg.end, !.full = reg.full]
<1>2. new \in [start : {0}, end : {reg.end}, full : {reg.full}, buf : {ring.buf}]
  BY <1>1
<1> HIDE DEF new
<1>3. new = Seen
  BY <1>2 DEF Seen
<1>. QED BY <1>3 DEF new

LEMMA InitExact == Init => EInv
<1> SUFFICES ASSUME Init PROVE EInv
  OBVIOUS
<1>1. IInv
  BY InitHolds
<1>2. /\ ring = init_ring_buffer /\ pc = "next" /\ ~dirty
      /\ tx = <<>> /\ want = <<>> /\ wait = <<>>
  BY DEF Init
<1>3. ring \in SoundRing /\ ring.end = 0 /\ ~ring.full
  BY <1>2, InitSound DEF init_ring_buffer
<1>4. Holds(ring, wait)
  BY <1>2, <1>3, HoldsNothing
<1>5. tx = Sent(want)
  BY <1>2, SentEmpty
<1>6. wait \in Seq(Char) /\ want \in Seq(Char) /\ tx \in Seq(OutChar)
  BY <1>2
<1>. QED BY <1>1, <1>2, <1>4, <1>5, <1>6 DEF EInv, DirtyInLog, Exact

\* One character of a flush, and its carriage return.
LEMMA FlushCharExact ==
    ASSUME TypeOK, ring \in SoundRing, Exact, FlushChar
    PROVE  Exact'
<1> DEFINE b == ring.buf[at]
           rest == Slice(ring.buf, at + 1, size - (at + 1))
<1>1. /\ pc = "flush" /\ at < size /\ tx' = Append(tx, b) /\ at' = at + 1
      /\ pc' = (IF b = NL THEN "cr" ELSE "flush")
      /\ size' = size /\ ring' = ring /\ want' = want /\ wait' = wait
  BY DEF FlushChar
<1>2. at \in 0..BUF_MAX /\ size \in 0..BUF_MAX /\ ring.buf \in [0..BUF_MAX -> Char]
  BY RingFields, BufMax DEF TypeOK, SoundRing
<1>3. rest \in Seq(Char) /\ Rest = One(b) \o Sent(rest) /\ b \in Char
  <2>1. b \in Char
    BY <1>2
  <2>. QED BY <1>1, <1>2, <2>1, SentSlice DEF Rest
<1>4. Rest' = Sent(rest)
  BY <1>1 DEF Rest
<1>5. tx \in Seq(OutChar) /\ tx \o (One(b) \o Sent(rest)) = Sent(want \o wait)
  BY <1>1, <1>3 DEF Exact
<1> HIDE DEF b, rest
<1>6. <<b>> \in Seq(OutChar) /\ <<CR>> \in Seq(OutChar) /\ Sent(rest) \in Seq(OutChar)
  <2>1. b \in OutChar /\ CR \in OutChar
    BY <1>3 DEF OutChar
  <2> HIDE DEF OutChar
  <2>2. <<b>> \in Seq(OutChar) /\ <<CR>> \in Seq(OutChar)
    BY <2>1
  <2>. QED BY <1>3, <2>2, SentType
<1>7. Append(tx, b) = tx \o <<b>> /\ tx \o <<b>> \in Seq(OutChar)
  BY <1>5, <1>6
<1>8. CASE b = NL
  <2>1. One(b) = <<b>> \o <<CR>>
    <3>1. <<b>> \o <<CR>> = <<b, CR>>
      BY <1>3, TwoChars DEF OutChar
    <3>. QED BY <1>8, <3>1 DEF One
  <2>2. <<CR>> \o Sent(rest) \in Seq(OutChar)
    BY <1>6
  <2>3. tx' \o (<<CR>> \o Rest') = tx \o (<<b>> \o (<<CR>> \o Sent(rest)))
    BY <1>1, <1>4, <1>5, <1>6, <1>7, <2>2, Assoc
  <2>4. <<b>> \o (<<CR>> \o Sent(rest)) = One(b) \o Sent(rest)
    BY <1>6, <2>1, Assoc
  <2>5. tx' \o (<<CR>> \o Rest') = Sent(want' \o wait')
    BY <1>1, <1>5, <2>3, <2>4
  <2>6. pc' = "cr"
    BY <1>1, <1>8
  <2>. QED BY <1>1, <1>7, <2>5, <2>6 DEF Exact
<1>9. CASE b # NL
  <2>1. One(b) = <<b>>
    BY <1>9 DEF One
  <2>2. tx' \o Rest' = tx \o (<<b>> \o Sent(rest))
    BY <1>1, <1>4, <1>5, <1>6, <1>7, Assoc
  <2>3. tx' \o Rest' = Sent(want' \o wait')
    BY <1>1, <1>5, <2>1, <2>2
  <2>4. pc' = "flush"
    BY <1>1, <1>9
  <2>. QED BY <1>1, <1>7, <2>3, <2>4 DEF Exact
<1>. QED BY <1>8, <1>9

LEMMA CarriageReturnExact ==
    ASSUME TypeOK, ring \in SoundRing, Exact, CarriageReturn
    PROVE  Exact'
<1>1. /\ pc = "cr" /\ pc' = "flush" /\ tx' = Append(tx, CR)
      /\ at' = at /\ size' = size /\ ring' = ring /\ want' = want /\ wait' = wait
  BY DEF CarriageReturn
<1>2. tx \in Seq(OutChar) /\ tx \o (<<CR>> \o Rest) = Sent(want \o wait)
  BY <1>1 DEF Exact
<1>3. Rest' = Rest
  BY <1>1 DEF Rest
<1>4. Rest \in Seq(OutChar)
  <2>1. Slice(ring.buf, at, size - at) \in Seq(Char)
    <3> DEFINE n == size - at
               s == Slice(ring.buf, at, n)
    <3>1. n \in Nat /\ at \in 0..BUF_MAX /\ at + n = size /\ size <= BUF_MAX
      BY BufMax DEF TypeOK
    <3>2. ring.buf \in [0..BUF_MAX -> Char]
      BY RingFields DEF SoundRing
    <3> HIDE DEF n
    <3>3. \A k \in 1..n : at + k - 1 \in 0..BUF_MAX
      BY <3>1, BufMax
    <3>4. s \in [1..n -> Char]
      BY <3>2, <3>3 DEF Slice
    <3> HIDE DEF s
    <3>5. s \in Seq(Char)
      BY <3>1, <3>4
    <3>. QED BY <3>5 DEF s, n
  <2>. QED BY <2>1, SentType DEF Rest
<1>5. <<CR>> \in Seq(OutChar)
  <2>1. CR \in OutChar
    BY DEF OutChar
  <2> HIDE DEF OutChar
  <2>. QED BY <2>1
<1>6. Append(tx, CR) = tx \o <<CR>> /\ tx \o <<CR>> \in Seq(OutChar)
  BY <1>2, <1>5
<1>7. tx' \o Rest' = Sent(want' \o wait')
  <2> DEFINE rest == Rest
  <2> HIDE DEF rest
  <2>1. rest \in Seq(OutChar)
    BY <1>4 DEF rest
  <2>2. (tx \o <<CR>>) \o rest = tx \o (<<CR>> \o rest)
    BY <1>2, <1>5, <2>1, Assoc
  <2>3. tx' = tx \o <<CR>> /\ Rest' = rest
    BY <1>1, <1>3, <1>6 DEF rest
  <2>. QED BY <1>1, <1>2, <2>2, <2>3 DEF rest
<1>. QED BY <1>1, <1>6, <1>7 DEF Exact

\* One character of a log.
LEMMA LogCharExact ==
    ASSUME TypeOK, ring \in SoundRing, ProgramOK, Exact, LogChar
    PROVE  Exact'
<1> DEFINE new == ring_buffer_write_char(Seen, Head(text))
<1>1. /\ pc = "char" /\ pc' = pc /\ text # <<>>
      /\ wait' = Added(wait, Head(text))
      /\ want' = want /\ tx' = tx
  BY DEF LogChar, Added
<1>2. /\ ring' = [ring EXCEPT !.buf = new.buf] /\ reg' = Copy(new)
      /\ dirty' = (dirty \/ Copy(new) # Copy(Seen))
  BY SeenFields DEF LogChar
<1>3. Head(text) \in Char
  BY <1>1 DEF ProgramOK
<1>4. Holds(Seen, wait) /\ (~dirty => reg = Copy(ring)) /\ tx = Sent(want)
  BY <1>1 DEF Exact
<1>5. Holds(new, wait')
  BY <1>1, <1>3, <1>4, WriteCharHolds
<1>6. Copy(Seen) = reg
  BY DEF Copy, Seen, TypeOK
<1> HIDE DEF new
<1>7. new = [start |-> 0, end |-> new.end, full |-> new.full, buf |-> new.buf]
  BY <1>5, RingFields DEF Holds, SoundRing
<1>8. ring'.buf = new.buf /\ ring'.end = ring.end /\ ring'.full = ring.full
  BY <1>2, RingFields DEF SoundRing
<1>9. Seen' = new
  <2>1. reg'.end = new.end /\ reg'.full = new.full
    BY <1>2 DEF Copy
  <2>. QED BY <1>7, <1>8, <2>1 DEF Seen
<1>10. ~dirty' => reg' = Copy(ring)'
  BY <1>2, <1>4, <1>6, <1>8 DEF Copy
<1>11. wait' \in Seq(Char) /\ want' \in Seq(Char) /\ tx' \in Seq(OutChar)
  BY <1>1, <1>5 DEF Exact, Holds
<1>. QED BY <1>1, <1>4, <1>5, <1>9, <1>10, <1>11 DEF Exact

\* What each operation of main does to the text on its way.
LEMMA MainExact == EInv /\ Main => EInv'
<1> SUFFICES ASSUME EInv, Main PROVE EInv'
  OBVIOUS
<1>0. IInv /\ TypeOK /\ ring \in SoundRing /\ ProgramOK /\ DirtyInLog /\ IInv'
  BY MainHolds DEF EInv, IInv, RingSound
<1> SUFFICES DirtyInLog' /\ (clean' => Exact')
  BY <1>0 DEF EInv
<1>1. CASE ConsoleInit \/ EnableIrq \/ CallPanic \/ Halt \/ FlushUnset
  <2>1. /\ pc = "next" /\ pc' \in {"next", "halt", "overflow"}
        /\ UNCHANGED <<ring, reg, dirty, tx, want, wait, clean>>
    BY <1>1 DEF ConsoleInit, EnableIrq, CallPanic, Halt, FlushUnset
  <2>. QED BY <1>0, <2>1 DEF EInv, DirtyInLog, Exact
<1>2. CASE LogBegin
  <2>1. /\ pc = "next" /\ pc' = "char" /\ reg' = Copy(ring)
        /\ UNCHANGED <<ring, dirty, tx, want, wait, clean>>
    BY <1>2 DEF LogBegin
  <2>2. Seen' = ring'
    <3>1. ring = [start |-> 0, end |-> ring.end, full |-> ring.full, buf |-> ring.buf]
      BY <1>0, RingFields DEF SoundRing
    <3>2. reg'.end = ring.end /\ reg'.full = ring.full
      BY <2>1 DEF Copy
    <3>. QED BY <2>1, <3>1, <3>2 DEF Seen
  <2>3. reg' = Copy(ring)'
    BY <2>1 DEF Copy
  <2>. QED BY <1>0, <2>1, <2>2, <2>3 DEF EInv, DirtyInLog, Exact
<1>3. CASE Reload
  <2>1. pc = "char" /\ ~dirty /\ reg # Copy(ring) /\ clean' = clean /\ dirty' = dirty
    BY <1>3 DEF Reload
  <2>2. ~clean
    BY <2>1 DEF EInv, Exact
  <2>. QED BY <2>1, <2>2 DEF DirtyInLog
<1>4. CASE LogChar
  <2>1. pc' = "char" /\ clean' = clean
    BY <1>4 DEF LogChar
  <2>. QED BY <1>0, <1>4, <2>1, LogCharExact DEF EInv, DirtyInLog
<1>5. CASE WriteBack
  <2>1. /\ pc = "char" /\ pc' = "char" /\ ~dirty' /\ reg' = reg
        /\ ring' = [ring EXCEPT !.end = reg.end, !.full = reg.full]
        /\ UNCHANGED <<tx, want, wait, clean>>
    BY <1>5 DEF WriteBack
  <2>2. ring' = Seen
    BY <1>0, <2>1, SeenFields
  <2>3. ring'.end = reg.end /\ ring'.full = reg.full /\ ring'.buf = ring.buf
    BY <2>2 DEF Seen
  <2>4. Seen' = Seen
    BY <2>1, <2>3 DEF Seen
  <2>5. reg' = Copy(ring)'
    BY <1>0, <2>1, <2>3 DEF Copy, TypeOK
  <2>. QED BY <2>1, <2>4, <2>5 DEF EInv, DirtyInLog, Exact
<1>6. CASE LogEnd
  <2>1. /\ pc = "char" /\ pc' = "next" /\ ~dirty
        /\ UNCHANGED <<ring, reg, dirty, tx, want, wait, clean>>
    BY <1>6 DEF LogEnd
  <2>2. ASSUME clean PROVE Exact'
    <3>1. reg = Copy(ring) /\ Holds(Seen, wait)
      BY <2>1, <2>2 DEF EInv, Exact
    <3>2. Holds(ring, wait)
      BY <1>0, <3>1, SeenIsRing
    <3>. QED BY <2>1, <2>2, <3>2 DEF EInv, Exact
  <2>. QED BY <2>1, <2>2 DEF DirtyInLog
<1>7. CASE FlushBegin
  <2>1. /\ pc = "next" /\ pc' = "flush" /\ at' = 0 /\ size' = ring.end - ring.start
        /\ UNCHANGED <<ring, reg, dirty, tx, want, wait, clean>>
    BY <1>7 DEF FlushBegin
  <2>2. ASSUME clean PROVE Exact'
    <3>1. Holds(ring, wait) /\ tx = Sent(want) /\ wait \in Seq(Char) /\ want \in Seq(Char)
      BY <2>1, <2>2 DEF EInv, Exact
    <3>2. size' = ring.end /\ ring.end - 0 = ring.end
      BY <1>0, <2>1, RingFields DEF SoundRing
    <3>3. Rest' = Sent(wait)
      <4>1. Slice(ring.buf, 0, ring.end) = wait
        BY <3>1, HoldsSlice
      <4>. QED BY <2>1, <3>2, <4>1 DEF Rest
    <3>4. tx' \o Rest' = Sent(want' \o wait')
      BY <2>1, <3>1, <3>3, SentConcat
    <3>. QED BY <2>1, <2>2, <3>1, <3>2, <3>4 DEF EInv, Exact
  <2>. QED BY <1>0, <2>1, <2>2 DEF DirtyInLog
<1>8. CASE FlushChar
  <2>1. pc = "flush" /\ dirty' = dirty /\ clean' = clean
    BY <1>8 DEF FlushChar
  <2>. QED BY <1>0, <1>8, <2>1, FlushCharExact DEF EInv, DirtyInLog
<1>9. CASE CarriageReturn
  <2>1. pc = "cr" /\ dirty' = dirty /\ clean' = clean
    BY <1>9 DEF CarriageReturn
  <2>. QED BY <1>0, <1>9, <2>1, CarriageReturnExact DEF EInv, DirtyInLog
<1>10. CASE ResetIndices
  <2>1. /\ pc = "flush" /\ pc' = "clear" /\ at = size
        /\ want' = want \o wait /\ wait' = <<>>
        /\ UNCHANGED <<reg, dirty, tx, clean>>
    BY <1>10 DEF ResetIndices
  <2>2. ring' \in SoundRing /\ ring'.end = 0 /\ ~ring'.full
    <3>1. ring' \in SoundRing
      BY <1>0 DEF IInv, RingSound
    <3>2. pc' = "clear" /\ ResetBeforeClear'
      BY <1>0, <2>1 DEF IInv
    <3>. QED BY <3>1, <3>2 DEF ResetBeforeClear
  <2>3. Holds(ring', wait')
    BY <2>1, <2>2, HoldsNothing
  <2>4. ASSUME clean PROVE Exact'
    <3>1. /\ wait \in Seq(Char) /\ want \in Seq(Char) /\ tx \in Seq(OutChar)
          /\ tx \o Rest = Sent(want \o wait)
      BY <2>1, <2>4 DEF EInv, Exact
    <3>2. Rest = <<>>
      <4>1. size - at = 0
        BY <1>0, <2>1, BufMax DEF TypeOK
      <4>2. Slice(ring.buf, at, 0) = <<>>
        BY DEF Slice
      <4>. QED BY <4>1, <4>2, SentEmpty DEF Rest
    <3>3. tx \o <<>> = tx
      <4> HIDE DEF OutChar
      <4>. QED BY <3>1, ConcatEmptySeq
    <3>4. tx' = Sent(want')
      BY <2>1, <3>1, <3>2, <3>3
    <3>5. want' \in Seq(Char) /\ wait' \in Seq(Char) /\ tx' \in Seq(OutChar)
      BY <2>1, <3>1
    <3>. QED BY <2>1, <2>3, <3>4, <3>5 DEF Exact
  <2>. QED BY <1>0, <2>1, <2>4 DEF DirtyInLog
<1>11. CASE FlushEnd
  <2>1. /\ pc = "clear" /\ pc' = "next" /\ dirty' = dirty
        /\ tx' = <<>> /\ want' = <<>> /\ wait' = <<>>
    BY <1>11 DEF FlushEnd
  <2>2. ring' = init_ring_buffer
    BY <1>0, <1>11, FlushEndIsInit DEF IInv
  <2>3. Holds(ring', wait')
    <3>1. ring' \in SoundRing /\ ring'.end = 0 /\ ~ring'.full
      BY <2>2, InitSound DEF init_ring_buffer
    <3>. QED BY <2>1, <3>1, HoldsNothing
  <2>4. tx' = Sent(want') /\ wait' \in Seq(Char) /\ want' \in Seq(Char) /\ tx' \in Seq(OutChar)
    BY <2>1, SentEmpty
  <2>. QED BY <1>0, <2>1, <2>3, <2>4 DEF DirtyInLog, Exact
<1>. QED BY <1>1, <1>2, <1>3, <1>4, <1>5, <1>6, <1>7, <1>8, <1>9, <1>10, <1>11 DEF Main

\* An interrupt between two operations sends what waits in the ring, and its answer.
LEMMA InterruptExact == EInv /\ Interrupt => EInv'
<1> SUFFICES ASSUME EInv, NEW key \in Keys, console_data_received(key) \/ cb_console_data_irq(key)
             PROVE  EInv'
  BY DEF Interrupt
<1>0. IInv /\ ring \in SoundRing /\ DirtyInLog /\ IInv'
  BY InterruptHolds DEF EInv, IInv, RingSound, Interrupt
<1>1. OnKey(key) /\ pc' = pc /\ dirty' = dirty /\ reg' = reg
  BY DEF console_data_received, cb_console_data_irq, OnKey, mainVars
<1>2. ASSUME NEW msg \in Seq(Char), Respond(msg), clean' PROVE Exact'
  <2> DEFINE r == ring_buffer_write_string(ring, msg)
             w == Take(wait \o msg, Capacity)
  <2>1. clean /\ pc \in {"next", "clear"} /\ ring' = Reset(r)
        /\ tx' = tx \o Sent(Flushed(r)) /\ want' = want \o w /\ wait' = <<>>
    BY <1>2 DEF Respond
  <2>2. Holds(ring, wait) /\ tx = Sent(want) /\ want \in Seq(Char)
    BY <2>1 DEF EInv, Exact
  <2>3. Holds(r, w)
    BY <1>2, <2>2, WriteStringHolds
  <2> HIDE DEF r, w
  <2>4. Flushed(r) = w /\ w \in Seq(Char) /\ r \in SoundRing
    BY <2>3, HoldsSlice DEF Holds
  <2>5. tx' = Sent(want') /\ want' \in Seq(Char)
    <3>1. tx' = Sent(want) \o Sent(w)
      BY <2>1, <2>2, <2>4
    <3>2. Sent(want \o w) = Sent(want) \o Sent(w)
      BY <2>2, <2>4, SentConcat
    <3>. QED BY <2>1, <2>2, <2>4, <3>1, <3>2
  <2>6. tx' \in Seq(OutChar)
    BY <2>5, SentType
  <2>7. ring' = init_ring_buffer
    BY <2>1, <2>4, ResetIsInit
  <2>8. Holds(ring', wait')
    <3>1. ring' \in SoundRing /\ ring'.end = 0 /\ ~ring'.full
      BY <2>7, InitSound DEF init_ring_buffer
    <3>. QED BY <2>1, <3>1, HoldsNothing
  <2>9. wait' \in Seq(Char)
    BY <2>1
  <2>. QED BY <1>1, <2>1, <2>5, <2>6, <2>8, <2>9 DEF Exact
<1>3. <<>> \in Seq(Char)
  OBVIOUS
<1>4. clean' => Exact'
  <2>1. CASE Toggles(key) /\ logging'
    BY <1>1, <1>2, <2>1, ConsoleAssumption DEF OnKey
  <2>2. CASE Toggles(key) /\ ~logging'
    BY <1>1, <1>2, <2>2, ConsoleAssumption DEF OnKey
  <2>3. CASE ~Toggles(key)
    BY <1>1, <1>2, <1>3, <2>3 DEF OnKey
  <2>. QED BY <2>1, <2>2, <2>3
<1>. QED BY <1>0, <1>1, <1>4 DEF EInv, DirtyInLog

LEMMA ExactInductive == EInv /\ [Next]_vars => EInv'
<1>1. EInv /\ Main => EInv'
  BY MainExact
<1>2. EInv /\ Interrupt => EInv'
  BY InterruptExact
<1>3. EInv /\ UNCHANGED vars => EInv'
  <2>1. EInv /\ UNCHANGED vars => IInv'
    BY Inductive DEF EInv
  <2>. QED BY <2>1 DEF vars, EInv, DirtyInLog, Exact, Seen, Rest, Copy
<1>. QED BY <1>1, <1>2, <1>3 DEF Next

\* What has been sent and what is outstanding make up the text.
LEMMA ExactIsClean == EInv => CleanExact
<1> SUFFICES ASSUME EInv, clean PROVE tx \o Outstanding = Sent(want \o wait)
  BY DEF CleanExact
<1>1. Exact /\ wait \in Seq(Char) /\ want \in Seq(Char)
  BY DEF EInv, Exact
<1>2. CASE pc = "flush"
  BY <1>1, <1>2 DEF Outstanding, Exact, Rest
<1>3. CASE pc = "cr"
  BY <1>1, <1>3 DEF Outstanding, Exact, Rest
<1>4. CASE pc = "char"
  <2>1. Holds(Seen, wait) /\ tx = Sent(want)
    BY <1>1, <1>4 DEF Exact
  <2>2. Slice(Seen.buf, 0, Seen.end) = wait
    BY <2>1, HoldsSlice
  <2>3. Outstanding = Sent(wait)
    BY <1>4, <2>2 DEF Outstanding, Seen
  <2>. QED BY <1>1, <2>1, <2>3, SentConcat
<1>5. CASE pc \notin {"flush", "cr", "char"}
  <2>1. Holds(ring, wait) /\ tx = Sent(want)
    BY <1>1, <1>5 DEF Exact
  <2>2. Slice(ring.buf, 0, ring.end) = wait
    BY <2>1, HoldsSlice
  <2>3. Outstanding = Sent(wait)
    BY <1>5, <2>2 DEF Outstanding
  <2>. QED BY <1>1, <2>1, <2>3, SentConcat
<1>. QED BY <1>2, <1>3, <1>4, <1>5

\* As long as the interrupt does not fall inside a dbg_log or a dbg_flush of main, every
\* character logged and every answer of the interrupt goes out once and in order, up to
\* the capacity of the ring (printf.c:89-115, 179-222, debug.c, main.c).
THEOREM CleanCorrect == Spec => []CleanExact
<1>1. Init => EInv
  BY InitExact
<1>2. EInv /\ [Next]_vars => EInv'
  BY ExactInductive
<1>3. EInv => CleanExact
  BY ExactIsClean
<1>. QED BY <1>1, <1>2, <1>3, PTL DEF Spec

-----------------------------------------------------------------------------
(***************************************************************************)
(* The pieces of a flattened sequence.                                     *)
(***************************************************************************)
\* What has been joined after each piece.
Joins(q, f, S) ==
    /\ f \in [0..Len(q) -> Seq(S)] /\ f[0] = <<>>
    /\ \A k \in 1..Len(q) : f[k] = f[k - 1] \o q[k]

LEMMA JoinsExist ==
    ASSUME NEW S, NEW q \in Seq(Seq(S))
    PROVE  \E f : Joins(q, f, S)
<1> DEFINE D == Seq(S)
           g == [x \in (1..Len(q)) \X D |-> x[2] \o q[x[1]]]
<1>0. Len(q) \in Nat /\ \A k \in 1..Len(q) : q[k] \in D
  OBVIOUS
<1>1. \A k \in 1..Len(q), s \in D : s \o q[k] \in D
  BY <1>0, ConcatProperties
<1>2. <<>> \in D
  OBVIOUS
<1> HIDE DEF D
<1>3. g \in [(1..Len(q)) \X D -> D]
  BY <1>1
<1>4. \A k \in 1..Len(q), s \in D : g[<<k, s>>] = s \o q[k]
  OBVIOUS
<1> HIDE DEF g
<1>5. PICK f \in [0..Len(q) -> D] : Data!Solves(f, Len(q), <<>>, g)
  BY <1>0, <1>2, <1>3, Data!RecursionExists
<1>6. ASSUME NEW k \in 1..Len(q) PROVE f[k] = f[k - 1] \o q[k]
  <2>1. k - 1 \in 0..Len(q)
    BY <1>0
  <2>2. f[k - 1] \in D
    BY <2>1
  <2>3. f[k] = g[<<k, f[k - 1]>>]
    BY <1>5 DEF Data!Solves
  <2>. QED BY <1>4, <2>2, <2>3
<1>7. f[0] = <<>>
  BY <1>5 DEF Data!Solves
<1>8. f \in [0..Len(q) -> Seq(S)]
  BY DEF D
<1>9. Joins(q, f, S)
  BY <1>6, <1>7, <1>8 DEF Joins
<1>. QED BY <1>9

LEMMA FlattenIs ==
    ASSUME NEW S, NEW q \in Seq(Seq(S)), NEW f, Joins(q, f, S)
    PROVE  FlattenSeq(q) = f[Len(q)]
<1>0. Len(q) \in Nat /\ \A k \in 1..Len(q) : q[k] \in Seq(S)
  OBVIOUS
<1>1. CASE Len(q) = 0
  <2>1. q = <<>>
    BY <1>1
  <2>. QED BY <1>1, <2>1 DEF FlattenSeq, Joins
<1>2. CASE Len(q) # 0
  <2> DEFINE Eq(h) == h = [k \in 1..Len(q) |-> IF k = 1 THEN q[k] ELSE h[k - 1] \o q[k]]
             flatten == CHOOSE h : Eq(h)
             e == [k \in 1..Len(q) |-> f[k]]
  <2>1. Eq(e)
    <3>1. ASSUME NEW k \in 1..Len(q)
          PROVE  f[k] = IF k = 1 THEN q[k] ELSE e[k - 1] \o q[k]
      <4>1. CASE k = 1
        <5>1. f[k] = f[k - 1] \o q[k]
          BY DEF Joins
        <5>a. k - 1 = 0
          BY <4>1
        <5>2. f[k] = <<>> \o q[k]
          BY <5>1, <5>a DEF Joins
        <5>. QED BY <1>0, <4>1, <5>2
      <4>2. CASE k # 1
        <5>1. k - 1 \in 1..Len(q)
          BY <1>0, <4>2
        <5>. QED BY <4>2, <5>1 DEF Joins
      <4>. QED BY <4>1, <4>2
    <3>. QED BY <3>1
  <2>2. Eq(flatten)
    <3> HIDE DEF Eq
    <3>. QED BY <2>1
  <2>3. FlattenSeq(q) = flatten[Len(q)]
    BY <1>2 DEF FlattenSeq, flatten
  <2> HIDE DEF flatten
  <2> DEFINE Same == {k \in 0..Len(q) : k # 0 => flatten[k] = f[k]}
  <2>4. 0 \in Same
    BY <1>0
  <2>5. ASSUME NEW k \in 0..(Len(q) - 1), k \in Same PROVE k + 1 \in Same
    <3>1. k + 1 \in 0..Len(q) /\ k + 1 \in 1..Len(q) /\ (k + 1) - 1 = k
      BY <1>0
    <3>2. f[k + 1] = f[k] \o q[k + 1]
      BY <3>1 DEF Joins
    <3>3. flatten[k + 1] = IF k + 1 = 1 THEN q[k + 1] ELSE flatten[k] \o q[k + 1]
      BY <2>2, <3>1
    <3>4. CASE k = 0
      <4>1. f[k + 1] = <<>> \o q[k + 1]
        BY <3>2, <3>4 DEF Joins
      <4>. QED BY <1>0, <3>1, <3>3, <3>4, <4>1
    <3>5. CASE k # 0
      <4>1. k + 1 # 1 /\ flatten[k] = f[k]
        BY <2>5, <3>5
      <4>. QED BY <3>1, <3>2, <3>3, <4>1
    <3>. QED BY <3>4, <3>5
  <2> HIDE DEF Same
  <2>6. 0..Len(q) \subseteq Same
    BY <1>0, <2>4, <2>5, Data!UpTo
  <2>7. Len(q) \in Same
    BY <1>0, <2>6
  <2>. QED BY <1>2, <2>3, <2>7 DEF Same
<1>. QED BY <1>1, <1>2

\* The first k pieces, joined.
Flat(q, k) == FlattenSeq(SubSeq(q, 1, k))

LEMMA FlatIs ==
    ASSUME NEW S, NEW q \in Seq(Seq(S)), NEW f, Joins(q, f, S), NEW k \in 0..Len(q)
    PROVE  Flat(q, k) = f[k]
<1> DEFINE p == SubSeq(q, 1, k)
           e == [j \in 0..k |-> f[j]]
<1>0. Len(q) \in Nat
  OBVIOUS
<1>1. p \in Seq(Seq(S)) /\ Len(p) = k /\ \A j \in 1..k : p[j] = q[j]
  BY <1>0
<1>2. ASSUME NEW j \in 1..k PROVE e[j] = e[j - 1] \o p[j]
  <2>1. j \in 1..Len(q) /\ j \in 0..k /\ j - 1 \in 0..k
    BY <1>0
  <2>. QED BY <1>1, <2>1 DEF Joins
<1>3. e \in [0..k -> Seq(S)] /\ e[0] = <<>>
  BY <1>0 DEF Joins
<1> HIDE DEF p, e
<1>4. Joins(p, e, S)
  BY <1>1, <1>2, <1>3 DEF Joins
<1>5. FlattenSeq(p) = e[k]
  BY <1>1, <1>4, FlattenIs
<1>. QED BY <1>0, <1>5 DEF Flat, p, e

LEMMA FlatStep ==
    ASSUME NEW S, NEW q \in Seq(Seq(S))
    PROVE  /\ Flat(q, 0) = <<>> /\ Flat(q, Len(q)) = FlattenSeq(q)
           /\ \A k \in 0..Len(q) : Flat(q, k) \in Seq(S)
           /\ \A k \in 1..Len(q) : Flat(q, k) = Flat(q, k - 1) \o q[k]
<1>1. PICK f : Joins(q, f, S)
  BY JoinsExist
<1>2. Len(q) \in Nat /\ SubSeq(q, 1, Len(q)) = q
  OBVIOUS
<1>3. \A k \in 0..Len(q) : Flat(q, k) = f[k]
  BY <1>1, FlatIs
<1>4. ASSUME NEW k \in 1..Len(q) PROVE Flat(q, k) = Flat(q, k - 1) \o q[k]
  <2>1. k \in 0..Len(q) /\ k - 1 \in 0..Len(q)
    BY <1>2
  <2>. QED BY <1>1, <1>3, <2>1 DEF Joins
<1>5. 0 \in 0..Len(q)
  BY <1>2
<1>. QED BY <1>1, <1>2, <1>3, <1>4, <1>5 DEF Joins, Flat

\* Where a piece lies in the whole.
LEMMA FlatPiece ==
    ASSUME NEW S, NEW q \in Seq(Seq(S)), NEW k \in 1..Len(q)
    PROVE  LET lo == Len(Flat(q, k - 1))
           IN  /\ lo \in Nat /\ Len(q[k]) \in Nat
               /\ Len(Flat(q, k)) = lo + Len(q[k]) /\ lo + Len(q[k]) <= Len(FlattenSeq(q))
               /\ \A j \in 1..Len(q[k]) : FlattenSeq(q)[lo + j] = q[k][j]
<1> DEFINE lo == Len(Flat(q, k - 1))
           n  == Len(q[k])
           InAt(m) == m >= k => /\ lo + n <= Len(Flat(q, m))
                                              /\ \A j \in 1..n : Flat(q, m)[lo + j] = q[k][j]
           In == {m \in 0..Len(q) : InAt(m)}
<1>0. Len(q) \in Nat /\ k - 1 \in 0..Len(q) /\ k \in 0..Len(q) /\ \A m \in 1..Len(q) : q[m] \in Seq(S)
  OBVIOUS
<1>1. Flat(q, k - 1) \in Seq(S) /\ q[k] \in Seq(S) /\ lo \in Nat /\ n \in Nat
  <2>1. Flat(q, k - 1) \in Seq(S) /\ q[k] \in Seq(S)
    BY <1>0, FlatStep
  <2>. QED BY <2>1
<1>2. Len(Flat(q, k)) = lo + n /\ \A j \in 1..n : Flat(q, k)[lo + j] = q[k][j]
  <2>1. Flat(q, k) = Flat(q, k - 1) \o q[k]
    BY FlatStep
  <2>. QED BY <1>1, <2>1, ConcatProperties
<1> HIDE DEF lo, n
<1>3. 0 \in In
  <2>1. 0 \in 0..Len(q) /\ ~(0 >= k)
    BY <1>0
  <2>. QED BY <2>1
<1>4. ASSUME NEW m \in 0..(Len(q) - 1), m \in In PROVE m + 1 \in In
  <2>1. m + 1 \in 0..Len(q) /\ m + 1 \in 1..Len(q) /\ (m + 1) - 1 = m /\ m \in 0..Len(q)
    BY <1>0
  <2>0. SUFFICES InAt(m + 1)
    BY <2>1
  <2>2. CASE m + 1 = k
    <3>1. Flat(q, m + 1) = Flat(q, k) /\ lo + n <= Len(Flat(q, k))
      BY <1>1, <1>2, <2>2
    <3>. QED BY <1>2, <3>1
  <2>3. CASE m + 1 < k
    BY <2>1, <2>3
  <2>4. CASE m >= k
    <3>1. Flat(q, m + 1) = Flat(q, m) \o q[m + 1] /\ Flat(q, m) \in Seq(S) /\ q[m + 1] \in Seq(S)
      BY <1>0, <2>1, FlatStep
    <3>2. lo + n <= Len(Flat(q, m)) /\ \A j \in 1..n : Flat(q, m)[lo + j] = q[k][j]
      BY <1>4, <2>4
    <3>3. Len(Flat(q, m + 1)) = Len(Flat(q, m)) + Len(q[m + 1]) /\ Len(Flat(q, m)) \in Nat /\ Len(q[m + 1]) \in Nat
      BY <3>1, ConcatProperties
    <3>4. ASSUME NEW j \in 1..n PROVE Flat(q, m + 1)[lo + j] = q[k][j]
      <4>1. lo + j \in 1..(Len(Flat(q, m)) + Len(q[m + 1])) /\ lo + j <= Len(Flat(q, m))
        BY <1>1, <3>2, <3>3, SMT
      <4>2. Flat(q, m + 1)[lo + j] = Flat(q, m)[lo + j]
        BY <3>1, <4>1, ConcatProperties
      <4>. QED BY <3>2, <4>2
    <3>. QED BY <1>1, <2>1, <3>2, <3>3, <3>4
  <2>. QED BY <1>0, <2>1, <2>2, <2>3, <2>4
<1> HIDE DEF In
<1>a. 0..Len(q) \subseteq In
  BY <1>0, <1>3, <1>4, Data!UpTo
<1>5. Len(q) \in In
  BY <1>0, <1>a
<1>6. lo + n <= Len(Flat(q, Len(q))) /\ \A j \in 1..n : Flat(q, Len(q))[lo + j] = q[k][j]
  BY <1>0, <1>5 DEF In
<1>. QED BY <1>1, <1>2, <1>6, FlatStep DEF lo, n

(***************************************************************************)
(* Numbers as printf.c writes them.                                        *)
(***************************************************************************)
\* The powers of a base, up to the m-th.
Powers(b, f, m) ==
    /\ f \in [0..m -> Nat \ {0}] /\ f[0] = 1
    /\ \A k \in 1..m : f[k] = b * f[k - 1]

LEMMA PowersExist ==
    ASSUME NEW b \in Nat \ {0}, NEW m \in Nat
    PROVE  \E f : Powers(b, f, m)
<1> DEFINE D == Nat \ {0}
           g == [x \in (1..m) \X D |-> b * x[2]]
<1>0. \A x \in D : b * x \in D
  <2>1. ASSUME NEW x \in D PROVE b * x \in D
    <3>1. b * x \in Nat /\ b * x # 0
      OBVIOUS
    <3>. QED BY <3>1
  <2>. QED BY <2>1
<1>1. 1 \in D
  OBVIOUS
<1> HIDE DEF D
<1>2. g \in [(1..m) \X D -> D]
  BY <1>0
<1>3. \A k \in 1..m, x \in D : g[<<k, x>>] = b * x
  OBVIOUS
<1> HIDE DEF g
<1>4. PICK f \in [0..m -> D] : Data!Solves(f, m, 1, g)
  BY <1>1, <1>2, Data!RecursionExists
<1>5. ASSUME NEW k \in 1..m PROVE f[k] = b * f[k - 1]
  <2>1. k - 1 \in 0..m
    OBVIOUS
  <2>2. f[k - 1] \in D
    BY <2>1
  <2>3. f[k] = g[<<k, f[k - 1]>>]
    BY <1>4 DEF Data!Solves
  <2>. QED BY <1>3, <2>2, <2>3
<1>6. f[0] = 1
  BY <1>4 DEF Data!Solves
<1>7. f \in [0..m -> Nat \ {0}]
  BY DEF D
<1>8. Powers(b, f, m)
  BY <1>5, <1>6, <1>7 DEF Powers
<1>. QED BY <1>8

LEMMA PowersAre ==
    ASSUME NEW b \in Nat \ {0}, NEW m \in Nat, NEW f, Powers(b, f, m), NEW k \in 0..m
    PROVE  Weight(b, k) = f[k]
<1> DEFINE Eq(h) == h = [j \in 0..k |-> IF j = 0 THEN 1 ELSE b * h[j - 1]]
           weight == CHOOSE h : Eq(h)
           e == [j \in 0..k |-> f[j]]
<1>1. Eq(e)
  <2>1. ASSUME NEW j \in 0..k PROVE f[j] = IF j = 0 THEN 1 ELSE b * e[j - 1]
    <3>1. CASE j = 0
      BY <3>1 DEF Powers
    <3>2. CASE j # 0
      <4>1. j \in 1..m /\ j - 1 \in 0..k
        BY <3>2
      <4>2. f[j] = b * f[j - 1]
        BY <4>1 DEF Powers
      <4>. QED BY <3>2, <4>1, <4>2
    <3>. QED BY <3>1, <3>2
  <2>. QED BY <2>1
<1>2. Eq(weight)
  <2> HIDE DEF Eq
  <2>. QED BY <1>1
<1>3. Weight(b, k) = weight[k]
  BY DEF Weight, weight
<1> HIDE DEF weight
<1> DEFINE Same == {j \in 0..k : weight[j] = f[j]}
<1>4. 0 \in Same
  <2>1. weight[0] = 1 /\ f[0] = 1
    BY <1>2 DEF Powers
  <2>. QED BY <2>1
<1>5. ASSUME NEW j \in 0..(k - 1), j \in Same PROVE j + 1 \in Same
  <2>1. j + 1 \in 0..k /\ j + 1 \in 1..m /\ (j + 1) - 1 = j /\ j + 1 # 0
    OBVIOUS
  <2>2. f[j + 1] = b * f[j]
    BY <2>1 DEF Powers
  <2>3. weight[j + 1] = b * weight[j]
    BY <1>2, <2>1
  <2>. QED BY <1>5, <2>1, <2>2, <2>3
<1> HIDE DEF Same
<1>6. 0..k \subseteq Same
  BY <1>4, <1>5, Data!UpTo
<1>7. k \in Same
  BY <1>6
<1>. QED BY <1>3, <1>7 DEF Same

LEMMA Weights ==
    ASSUME NEW b \in Nat \ {0}
    PROVE  /\ Weight(b, 0) = 1
           /\ \A k \in Nat : Weight(b, k) \in Nat \ {0} /\ Weight(b, k + 1) = b * Weight(b, k)
<1>1. ASSUME NEW k \in Nat
      PROVE  /\ Weight(b, 0) = 1 /\ Weight(b, k) \in Nat \ {0}
             /\ Weight(b, k + 1) = b * Weight(b, k)
  <2>1. k + 1 \in Nat
    OBVIOUS
  <2>2. PICK f : Powers(b, f, k + 1)
    BY <2>1, PowersExist
  <2>3. 0 \in 0..(k + 1) /\ k \in 0..(k + 1) /\ k + 1 \in 0..(k + 1) /\ k + 1 \in 1..(k + 1) /\ (k + 1) - 1 = k
    OBVIOUS
  <2>4. Weight(b, 0) = f[0] /\ Weight(b, k) = f[k] /\ Weight(b, k + 1) = f[k + 1]
    BY <2>1, <2>2, <2>3, PowersAre
  <2>5. f[k + 1] = b * f[k] /\ f[0] = 1 /\ f[k] \in Nat \ {0}
    BY <2>2, <2>3 DEF Powers
  <2>. QED BY <2>4, <2>5
<1>. QED BY <1>1

\* Each weight is above the one before it, and the n-th is above n.
LEMMA WeightGrows ==
    ASSUME NEW b \in Nat, b >= 2, NEW m \in Nat
    PROVE  /\ Weight(b, m) > m
           /\ \A k \in 0..m : Weight(b, k) <= Weight(b, m)
<1>0. b \in Nat \ {0}
  OBVIOUS
<1>a. ASSUME NEW x \in Nat \ {0} PROVE b * x >= x + x
  <2>1. \A y \in Nat : y >= 2 => y * x >= 2 * x
    OBVIOUS
  <2>. QED BY <2>1
<1> DEFINE Grown == {n \in 0..m : Weight(b, n) > n /\ \A k \in 0..n : Weight(b, k) <= Weight(b, n)}
<1>1. 0 \in Grown
  <2>1. Weight(b, 0) = 1 /\ \A k \in 0..0 : k = 0
    BY <1>0, Weights
  <2>. QED BY <2>1
<1>2. ASSUME NEW n \in 0..(m - 1), n \in Grown PROVE n + 1 \in Grown
  <2>1. n \in Nat /\ n + 1 \in Nat /\ n + 1 \in 0..m
    OBVIOUS
  <2>2. Weight(b, n) \in Nat \ {0} /\ Weight(b, n + 1) = b * Weight(b, n)
    BY <1>0, <2>1, Weights
  <2>3. Weight(b, n) > n /\ \A k \in 0..n : Weight(b, k) <= Weight(b, n)
    BY <1>2
  <2>4. Weight(b, n + 1) >= Weight(b, n) + Weight(b, n) /\ Weight(b, n + 1) \in Nat
    <3>1. b * Weight(b, n) >= Weight(b, n) + Weight(b, n)
      BY <1>a, <2>2
    <3>2. Weight(b, n + 1) \in Nat
      BY <1>0, <2>1, Weights
    <3>. QED BY <2>2, <3>1, <3>2
  <2>5. ASSUME NEW k \in 0..(n + 1) PROVE Weight(b, k) <= Weight(b, n + 1)
    <3>1. CASE k = n + 1
      BY <2>4, <3>1
    <3>2. CASE k \in 0..n
      <4>0. k \in Nat
        BY <3>2
      <4>1. Weight(b, k) \in Nat /\ Weight(b, k) <= Weight(b, n)
        BY <1>0, <2>3, <3>2, <4>0, Weights
      <4>. QED BY <2>2, <2>4, <4>1
    <3>. QED BY <2>1, <3>1, <3>2
  <2>6. Weight(b, n + 1) > n + 1
    BY <2>1, <2>2, <2>3, <2>4
  <2>. QED BY <2>1, <2>5, <2>6
<1> HIDE DEF Grown
<1>3. 0..m \subseteq Grown
  BY <1>1, <1>2, Data!UpTo
<1>4. m \in Grown
  BY <1>3
<1>. QED BY <1>4 DEF Grown

\* n digits are enough for v, and no fewer are.
IsWidth(v, b, n) == /\ n \in Nat \ {0} /\ v < Weight(b, n)
                    /\ n = 1 \/ v >= Weight(b, n - 1)

LEMMA WidthUnique ==
    ASSUME NEW v \in Nat, NEW b \in Nat, b >= 2, NEW n, IsWidth(v, b, n)
    PROVE  Width(v, b) = n
<1>0. b \in Nat \ {0}
  OBVIOUS
<1>1. ASSUME NEW j, NEW k, IsWidth(v, b, j), IsWidth(v, b, k) PROVE ~(j < k)
  <2>1. SUFFICES ASSUME j < k PROVE FALSE
    OBVIOUS
  <2>2. j \in Nat /\ k \in Nat /\ k # 1 /\ k - 1 \in Nat /\ j \in 0..(k - 1)
    BY <1>1, <2>1 DEF IsWidth
  <2>3. v < Weight(b, j) /\ v >= Weight(b, k - 1)
    BY <1>1, <2>2 DEF IsWidth
  <2>4. Weight(b, j) <= Weight(b, k - 1) /\ Weight(b, j) \in Nat /\ Weight(b, k - 1) \in Nat
    BY <1>0, <2>2, Weights, WeightGrows
  <2>. QED BY <2>3, <2>4
<1>2. n \in 1..(v + 1)
  <2>1. n \in Nat \ {0} /\ v < Weight(b, n) /\ (n = 1 \/ v >= Weight(b, n - 1))
    BY DEF IsWidth
  <2>2. CASE n = 1
    BY <2>2
  <2>3. CASE n # 1
    <3>1. n - 1 \in Nat
      BY <2>1, <2>3
    <3>2. Weight(b, n - 1) > n - 1 /\ v >= Weight(b, n - 1) /\ Weight(b, n - 1) \in Nat
      BY <1>0, <2>1, <2>3, <3>1, Weights, WeightGrows
    <3>. QED BY <2>1, <3>1, <3>2
  <2>. QED BY <2>2, <2>3
<1> DEFINE P(k) == v < Weight(b, k) /\ (k = 1 \/ v >= Weight(b, k - 1))
           w == CHOOSE k \in 1..(v + 1) : P(k)
<1>3. P(n)
  BY DEF IsWidth
<1>4. w \in 1..(v + 1) /\ P(w)
  <2> HIDE DEF P
  <2>. QED BY <1>2, <1>3
<1>5. Width(v, b) = w
  BY DEF Width
<1> HIDE DEF w
<1>6. IsWidth(v, b, w)
  BY <1>4 DEF IsWidth
<1>7. ~(w < n) /\ ~(n < w)
  BY <1>1, <1>6
<1>. QED BY <1>2, <1>4, <1>5, <1>7

LEMMA WidthIs ==
    ASSUME NEW v \in Nat, NEW b \in Nat, b >= 2
    PROVE  IsWidth(v, b, Width(v, b))
<1>0. b \in Nat \ {0}
  OBVIOUS
<1> DEFINE T == {n \in Nat \ {0} : v < Weight(b, n)}
<1>1. v + 1 \in T
  <2>1. v + 1 \in Nat \ {0}
    OBVIOUS
  <2>2. Weight(b, v + 1) > v + 1 /\ Weight(b, v + 1) \in Nat
    BY <1>0, <2>1, Weights, WeightGrows
  <2>. QED BY <2>1, <2>2
<1>2. PICK n \in T : \A k \in T : n <= k
  <2>1. T \in SUBSET Nat /\ T # {}
    BY <1>1
  <2> HIDE DEF T
  <2>. QED BY <2>1, Data!LeastNatural
<1>3. n = 1 \/ v >= Weight(b, n - 1)
  <2>1. SUFFICES ASSUME n # 1, ~(v >= Weight(b, n - 1)) PROVE FALSE
    OBVIOUS
  <2>2. n - 1 \in Nat \ {0} /\ n - 1 \in Nat
    BY <2>1
  <2>3. Weight(b, n - 1) \in Nat
    BY <1>0, <2>2, Weights
  <2>4. n - 1 \in T
    BY <2>1, <2>2, <2>3
  <2>. QED BY <1>2, <2>4
<1>4. IsWidth(v, b, n)
  BY <1>3 DEF IsWidth
<1>. QED BY <1>4, WidthUnique

\* Dividing twice.
LEMMA DivDiv ==
    \A v \in Nat, b \in Nat \ {0}, p \in Nat \ {0} : v \div (b * p) = (v \div b) \div p
<1> TAKE v \in Nat, b \in Nat \ {0}, p \in Nat \ {0}
<1> DEFINE x == v \div b
           r == v % b
           q == x \div p
           s == x % p
           t == s * b + r
<1>1. x \in Nat /\ r \in 0..(b - 1) /\ v = x * b + r
  OBVIOUS
<1> HIDE DEF x, r
<1>2. q \in Nat /\ s \in 0..(p - 1) /\ x = q * p + s
  BY <1>1
<1> HIDE DEF q, s
<1>3. b * p \in Nat \ {0}
  <2>1. b * p \in Nat /\ b * p # 0
    OBVIOUS
  <2>. QED BY <2>1
<1>4. t \in 0..(b * p - 1)
  <2>1. s * b <= (p - 1) * b /\ s * b \in Nat
    BY <1>2
  <2>2. (p - 1) * b = b * p - b
    OBVIOUS
  <2>. QED BY <1>1, <1>3, <2>1, <2>2
<1>5. v = q * (b * p) + t
  <2>1. (q * p + s) * b = q * (b * p) + s * b
    BY <1>2
  <2>2. x * b = q * (b * p) + s * b
    BY <1>2, <2>1
  <2>3. q * (b * p) \in Int /\ s * b \in Int /\ x * b \in Int
    BY <1>1, <1>2, <1>3
  <2>. QED BY <1>1, <2>2, <2>3
<1> HIDE DEF t
<1>6. (q * (b * p) + t) \div (b * p) = q
  BY <1>2, <1>3, <1>4, Data!Quotient
<1>. QED BY <1>1, <1>3, <1>5, <1>6 DEF x, q

\* A number below the base has one digit; any other one more than its quotient.
LEMMA WidthStep ==
    ASSUME NEW v \in Nat, NEW b \in Nat, b >= 2
    PROVE  /\ v < b => Width(v, b) = 1
           /\ v >= b => Width(v, b) = Width(v \div b, b) + 1
           /\ v \div b \in Nat /\ (v \div b = 0 <=> v < b)
<1>0. b \in Nat \ {0}
  OBVIOUS
<1>1. v \div b \in Nat /\ (v \div b = 0 <=> v < b)
  OBVIOUS
<1>2. ASSUME v < b PROVE Width(v, b) = 1
  <2>1. Weight(b, 0) = 1 /\ Weight(b, 0 + 1) = b * Weight(b, 0)
    BY <1>0, Weights
  <2>2. Weight(b, 1) = b
    BY <2>1
  <2>3. IsWidth(v, b, 1)
    BY <1>2, <2>2 DEF IsWidth
  <2>. QED BY <2>3, WidthUnique
<1>3. ASSUME v >= b PROVE Width(v, b) = Width(v \div b, b) + 1
  <2> DEFINE x == v \div b
             n == Width(x, b)
             W(k) == Weight(b, k)
  <2>1. IsWidth(x, b, n)
    BY <1>1, WidthIs
  <2>2. n \in Nat \ {0} /\ x < W(n) /\ (n = 1 \/ x >= W(n - 1)) /\ x # 0
    BY <1>1, <1>3, <2>1 DEF IsWidth
  <2>3. \A k \in Nat : W(k) \in Nat \ {0} /\ W(k + 1) = b * W(k) /\ W(0) = 1
    BY <1>0, Weights
  <2>4. x >= W(n - 1)
    <3>1. CASE n = 1
      <4>1. n - 1 = 0
        BY <3>1
      <4>. QED BY <1>1, <2>2, <2>3, <4>1
    <3>. QED BY <2>2, <3>1
  <2>5. v = x * b + (v % b) /\ v % b \in 0..(b - 1) /\ x \in Nat
    OBVIOUS
  <2> HIDE DEF x, n, W
  <2>6. v < W(n + 1)
    <3>1. W(n + 1) = b * W(n) /\ W(n) \in Nat
      BY <2>2, <2>3
    <3>2. (x + 1) * b <= W(n) * b
      BY <2>2, <2>5, <3>1
    <3>3. (x + 1) * b = x * b + b /\ W(n) * b = b * W(n) /\ x * b \in Int
      BY <2>5, <3>1
    <3>. QED BY <2>5, <3>1, <3>2, <3>3
  <2>7. v >= W(n)
    <3>1. n - 1 \in Nat /\ (n - 1) + 1 = n
      BY <2>2
    <3>2. W(n) = b * W(n - 1) /\ W(n - 1) \in Nat
      BY <2>3, <3>1
    <3>3. x * b >= W(n - 1) * b
      BY <2>4, <2>5, <3>2
    <3>4. W(n - 1) * b = b * W(n - 1) /\ x * b \in Int
      BY <2>5, <3>2
    <3>. QED BY <2>5, <3>2, <3>3, <3>4
  <2>8. IsWidth(v, b, n + 1)
    BY <2>2, <2>6, <2>7 DEF IsWidth, W
  <2>9. Width(v, b) = n + 1
    BY <2>8, WidthUnique
  <2>. QED BY <2>9 DEF n, x
<1>. QED BY <1>1, <1>2, <1>3

\* The digits, and the numerals made of them.
Digits == {DigitChars[k] : k \in 1..16}

LEMMA NumeralType ==
    ASSUME NEW v \in Nat, NEW b \in 2..16
    PROVE  /\ Numeral(v, b) \in Seq(Digits) /\ Len(Numeral(v, b)) = Width(v, b)
           /\ Width(v, b) \in Nat \ {0}
<1> DEFINE n == Width(v, b)
           D(k) == DigitChars[k + 1]
           e == [k \in 1..n |-> D((v \div Weight(b, n - k)) % b)]
<1>1. n \in Nat \ {0}
  <2>1. IsWidth(v, b, n)
    BY WidthIs
  <2>. QED BY <2>1 DEF IsWidth
<1>2. Numeral(v, b) = e
  BY DEF Numeral
<1> HIDE DEF n
<1>3. ASSUME NEW k \in 1..n PROVE e[k] \in Digits
  <2>1. n - k \in Nat
    BY <1>1
  <2> DEFINE p == Weight(b, n - k)
  <2>2. p \in Nat \ {0}
    BY <2>1, Weights
  <2> HIDE DEF p
  <2>3. v \div p \in Nat
    BY <2>2
  <2>4. (v \div p) % b \in 0..(b - 1)
    BY <2>3
  <2> DEFINE d == (v \div p) % b
  <2>5. d + 1 \in 1..16
    BY <2>4
  <2>6. e[k] = DigitChars[d + 1]
    BY DEF p
  <2> HIDE DEF d, e
  <2>. QED BY <2>5, <2>6 DEF Digits
<1>4. e = [k \in 1..n |-> e[k]] /\ e \in [1..n -> Digits]
  BY <1>3
<1> HIDE DEF e
<1>5. e \in Seq(Digits) /\ Len(e) = n
  BY <1>1, <1>4
<1>. QED BY <1>1, <1>2, <1>5 DEF n

\* The last digit of a numeral, and the numeral of the rest.
LEMMA NumeralStep ==
    ASSUME NEW v \in Nat, NEW b \in 2..16
    PROVE  Numeral(v, b) = IF v \div b = 0 THEN <<ring_buffer_write_digit(v % b)>>
                           ELSE Append(Numeral(v \div b, b), ring_buffer_write_digit(v % b))
<1>6. ASSUME NEW p \in Nat \ {0} PROVE v \div (b * p) = (v \div b) \div p
  <2>1. b \in Nat \ {0}
    OBVIOUS
  <2>. QED BY <2>1, DivDiv
<1> DEFINE D(k) == DigitChars[k + 1]
           x == v \div b
           n == Width(v, b)
           W(k) == Weight(b, k)
<1>0. b \in Nat \ {0} /\ x \in Nat /\ n \in Nat \ {0}
  <2>1. IsWidth(v, b, n)
    BY WidthIs
  <2>2. b \in Nat \ {0} /\ x \in Nat
    OBVIOUS
  <2>. QED BY <2>1, <2>2 DEF IsWidth
<1>1. W(0) = 1 /\ \A k \in Nat : W(k) \in Nat \ {0} /\ W(k + 1) = b * W(k)
  BY <1>0, Weights
<1>2. Numeral(v, b) = [k \in 1..n |-> D((v \div W(n - k)) % b)]
  BY DEF Numeral
<1>3. v \div W(0) = v
  BY <1>1
<1>4. CASE x = 0
  <2>1. n = 1
    BY <1>4, WidthStep
  <2>2. \A k \in 1..1 : k = 1 /\ 1 - k = 0
    OBVIOUS
  <2> HIDE DEF W, n, D
  <2>3. Numeral(v, b) = [k \in 1..1 |-> D(v % b)]
    BY <1>2, <1>3, <2>1, <2>2
  <2>4. [k \in 1..1 |-> D(v % b)] = <<D(v % b)>>
    OBVIOUS
  <2>. QED BY <1>4, <2>3, <2>4 DEF ring_buffer_write_digit, D
<1>5. CASE x # 0
  <2> DEFINE m == Width(x, b)
             s == [k \in 1..m |-> D((x \div W(m - k)) % b)]
  <2>1. n = m + 1 /\ m \in Nat \ {0}
    <3>1. IsWidth(x, b, m)
      BY <1>0, WidthIs
    <3>2. n = m + 1
      BY <1>5, WidthStep
    <3>. QED BY <3>1, <3>2 DEF IsWidth
  <2>2. Numeral(x, b) = s
    BY DEF Numeral
  <2> HIDE DEF m
  <2>3. Append(s, D(v % b)) = [k \in 1..(m + 1) |-> IF k = m + 1 THEN D(v % b) ELSE s[k]]
    <3>1. s \in Seq(Digits) /\ Len(s) = m
      BY <1>0, <2>2, NumeralType DEF m
    <3> HIDE DEF D, W, s
    <3>. QED BY <2>1, <3>1
  <2>4. ASSUME NEW k \in 1..(m + 1)
        PROVE  D((v \div W(n - k)) % b) = IF k = m + 1 THEN D(v % b) ELSE s[k]
    <3>1. CASE k = m + 1
      <4>1. n - k = 0
        BY <2>1, <3>1
      <4>. QED BY <1>3, <3>1, <4>1
    <3>2. CASE k # m + 1
      <4>1. k \in 1..m /\ m - k \in Nat /\ n - k = (m - k) + 1
        BY <2>1, <3>2
      <4>2. W(n - k) = b * W(m - k) /\ W(m - k) \in Nat \ {0}
        BY <1>1, <4>1
      <4> DEFINE p == W(m - k)
      <4> HIDE DEF p
      <4>a. p \in Nat \ {0} /\ W(n - k) = b * p
        BY <4>2 DEF p
      <4>3. v \div W(n - k) = x \div p
        <5>0. b \in Nat \ {0} /\ p \in Nat \ {0}
          BY <1>0, <4>a
        <5>1. v \div (b * p) = x \div p
          BY <1>6, <5>0
        <5> DEFINE w == W(n - k)
        <5>2. w = b * p
          BY <4>a
        <5> HIDE DEF w, x
        <5>3. v \div w = x \div p
          BY <5>1, <5>2
        <5>. QED BY <5>3 DEF w
      <4>. QED BY <3>2, <4>1, <4>3 DEF p
    <3>. QED BY <3>1, <3>2
  <2> HIDE DEF D, W, n, s
  <2>5. Numeral(v, b) = [k \in 1..(m + 1) |-> IF k = m + 1 THEN D(v % b) ELSE s[k]]
    BY <1>2, <2>1, <2>4
  <2>6. Numeral(v, b) = Append(Numeral(x, b), D(v % b))
    BY <2>2, <2>3, <2>5
  <2>. QED BY <1>5, <2>6 DEF ring_buffer_write_digit, D
<1>. QED BY <1>4, <1>5

\* A recursion over the naturals that is solved by e, and so defines it.
LEMMA ByQuotient ==
    ASSUME NEW b \in Nat, b >= 2, NEW f, NEW e, DOMAIN f = Nat, DOMAIN e = Nat,
           \A v \in Nat : (\A x \in Nat : x < v => f[x] = e[x]) => f[v] = e[v]
    PROVE  \A v \in Nat : f[v] = e[v]
<1> DEFINE T == {v \in Nat : f[v] # e[v]}
<1>1. SUFFICES ASSUME T # {} PROVE FALSE
  OBVIOUS
<1>2. PICK v \in T : \A x \in T : v <= x
  <2>1. T \in SUBSET Nat
    OBVIOUS
  <2> HIDE DEF T
  <2>. QED BY <1>1, <2>1, Data!LeastNatural
<1>3. \A x \in Nat : x < v => f[x] = e[x]
  BY <1>2
<1>. QED BY <1>2, <1>3

\* get_number_len counts the digits.
LEMMA NumberLenIs ==
    ASSUME NEW v \in Nat, NEW b \in 2..16
    PROVE  get_number_len(v, b) = Width(v, b)
<1> DEFINE Eq(f) == f = [x \in Nat |-> IF x \div b = 0 THEN 1 ELSE 1 + f[x \div b]]
           rounds == CHOOSE f : Eq(f)
           e == [x \in Nat |-> Width(x, b)]
<1>0. b \in Nat /\ b >= 2
  OBVIOUS
<1>a. \A x \in Nat : x \div b \in Nat /\ (x \div b # 0 => x \div b < x)
  <2>1. ASSUME NEW x \in Nat PROVE x \div b \in Nat /\ (x \div b # 0 => x \div b < x)
    <3> DEFINE q == x \div b
    <3>1. q \in Nat /\ x = q * b + (x % b) /\ x % b \in 0..(b - 1)
      OBVIOUS
    <3> HIDE DEF q
    <3>2. q * b >= q * 2
      BY <1>0, <3>1
    <3>3. q # 0 => q < x
      BY <3>1, <3>2
    <3>. QED BY <3>1, <3>3 DEF q
  <2>. QED BY <2>1
<1>1. Eq(e)
  <2>1. ASSUME NEW x \in Nat
        PROVE  Width(x, b) = IF x \div b = 0 THEN 1 ELSE 1 + e[x \div b]
    <3>1. x \div b \in Nat /\ Width(x \div b, b) \in Nat
      BY <1>a, NumeralType
    <3>2. x \div b = 0 => Width(x, b) = 1
      BY <1>0, WidthStep
    <3>3. x \div b # 0 => Width(x, b) = Width(x \div b, b) + 1
      BY <1>0, WidthStep
    <3>. QED BY <3>1, <3>2, <3>3
  <2>. QED BY <2>1
<1>2. Eq(rounds)
  <2> HIDE DEF Eq
  <2>. QED BY <1>1
<1>3. get_number_len(v, b) = rounds[v]
  BY DEF get_number_len, rounds
<1> HIDE DEF rounds
<1>4. ASSUME NEW x \in Nat, \A y \in Nat : y < x => rounds[y] = e[y]
      PROVE  rounds[x] = e[x]
  <2>1. rounds[x] = IF x \div b = 0 THEN 1 ELSE 1 + rounds[x \div b]
    BY <1>2
  <2>2. e[x] = IF x \div b = 0 THEN 1 ELSE 1 + e[x \div b]
    BY <1>1
  <2>. QED BY <1>4, <1>a, <2>1, <2>2
<1>5. DOMAIN rounds = Nat /\ DOMAIN e = Nat
  BY <1>2
<1> HIDE DEF Eq
<1>6. \A x \in Nat : rounds[x] = e[x]
  <2> HIDE DEF e
  <2>. QED BY <1>0, <1>4, <1>5, ByQuotient
<1>. QED BY <1>3, <1>6

\* ring_buffer_write_number writes the numeral.
LEMMA WriteNumberIs ==
    ASSUME NEW v \in Nat, NEW b \in 2..16
    PROVE  ring_buffer_write_number(v, b) = Numeral(v, b)
<1> DEFINE G(x) == ring_buffer_write_digit(x % b)
           Eq(f) == f = [x \in Nat |-> IF x \div b = 0 THEN <<ring_buffer_write_digit(x % b)>>
                                      ELSE Append(f[x \div b], ring_buffer_write_digit(x % b))]
           digits == CHOOSE f : Eq(f)
           e == [x \in Nat |-> Numeral(x, b)]
<1>0. b \in Nat /\ b >= 2
  OBVIOUS
<1>a. \A x \in Nat : x \div b \in Nat /\ (x \div b # 0 => x \div b < x)
  <2>1. ASSUME NEW x \in Nat PROVE x \div b \in Nat /\ (x \div b # 0 => x \div b < x)
    <3> DEFINE q == x \div b
    <3>1. q \in Nat /\ x = q * b + (x % b) /\ x % b \in 0..(b - 1)
      OBVIOUS
    <3> HIDE DEF q
    <3>2. q * b >= q * 2
      BY <1>0, <3>1
    <3>3. q # 0 => q < x
      BY <3>1, <3>2
    <3>. QED BY <3>1, <3>3 DEF q
  <2>. QED BY <2>1
<1>1. Eq(e)
  <2>1. ASSUME NEW x \in Nat
        PROVE  Numeral(x, b) = IF x \div b = 0 THEN <<ring_buffer_write_digit(x % b)>>
                               ELSE Append(e[x \div b], ring_buffer_write_digit(x % b))
    <3>1. x \div b \in Nat
      BY <1>a
    <3>2. e[x \div b] = Numeral(x \div b, b)
      BY <3>1
    <3> HIDE DEF e
    <3>. QED BY <3>2, NumeralStep
  <2>. QED BY <2>1
<1>2. Eq(digits)
  <2> HIDE DEF Eq
  <2>. QED BY <1>1
<1>3. ring_buffer_write_number(v, b) = digits[v]
  BY DEF ring_buffer_write_number, digits
<1> HIDE DEF digits
<1>4. ASSUME NEW x \in Nat, \A y \in Nat : y < x => digits[y] = e[y]
      PROVE  digits[x] = e[x]
  <2>1. digits[x] = IF x \div b = 0 THEN <<G(x)>> ELSE Append(digits[x \div b], G(x))
    BY <1>2
  <2>2. e[x] = IF x \div b = 0 THEN <<G(x)>> ELSE Append(e[x \div b], G(x))
    BY <1>1
  <2> HIDE DEF e, G
  <2>. QED BY <1>4, <1>a, <2>1, <2>2
<1>5. DOMAIN digits = Nat /\ DOMAIN e = Nat
  BY <1>2
<1> HIDE DEF Eq
<1>6. \A x \in Nat : digits[x] = e[x]
  <2> HIDE DEF e
  <2>. QED BY <1>0, <1>4, <1>5, ByQuotient
<1>. QED BY <1>3, <1>6

(***************************************************************************)
(* Widths: the digits after a '0' are read back as the number they spell,  *)
(* in a byte.                                                              *)
(***************************************************************************)
\* Multiples of the modulus do not matter.
LEMMA ModMultiple ==
    \A q \in Int, r \in Int, m \in Nat \ {0} : (q * m + r) % m = r % m
<1> TAKE q \in Int, r \in Int, m \in Nat \ {0}
<1> DEFINE y == r % m
           d == r \div m
           z == q + d
<1>1. y \in 0..(m - 1) /\ d \in Int /\ r = d * m + y
  OBVIOUS
<1> HIDE DEF y, d
<1>2. q * m + r = z * m + y
  <2>1. z * m = q * m + d * m
    BY <1>1
  <2>. QED BY <1>1, <2>1
<1>3. (z * m + y) % m = y
  <2> DEFINE u == z * m + y
             c == u \div m
             e == u % m
  <2>1. z \in Int
    BY <1>1
  <2> HIDE DEF z
  <2>2. u \in Int
    BY <1>1, <2>1
  <2> HIDE DEF u
  <2>3. e \in 0..(m - 1) /\ c \in Int /\ u = c * m + e
    BY <2>2
  <2> HIDE DEF e, c
  <2>4. (z - c) * m = e - y
    <3>1. (z - c) * m = z * m - c * m
      BY <2>1, <2>3
    <3>2. z * m + y = c * m + e
      BY <2>3 DEF u
    <3>. QED BY <1>1, <2>1, <2>3, <3>1, <3>2
  <2> DEFINE h == z - c
  <2>5. h \in Int /\ h * m = e - y /\ e - y < m /\ e - y > -m
    BY <1>1, <2>1, <2>3, <2>4
  <2> HIDE DEF h
  <2>6. h = 0
    <3>1. CASE h >= 1
      <4>1. h * m >= m
        BY <2>5, <3>1
      <4>. QED BY <1>1, <2>3, <2>5, <4>1
    <3>2. CASE h <= -1
      <4>1. h * m <= -m
        BY <2>5, <3>2
      <4>. QED BY <1>1, <2>3, <2>5, <4>1
    <3>. QED BY <2>5, <3>1, <3>2
  <2>7. e = y
    BY <1>1, <2>3, <2>5, <2>6
  <2>. QED BY <2>7 DEF e, u
<1>. QED BY <1>2, <1>3 DEF y

\* One more decimal digit.
LEMMA DigitStep ==
    \A x \in Nat, d \in Nat, m \in Nat \ {0} : ((x % m) * 10 + d) % m = (x * 10 + d) % m
<1> TAKE x \in Nat, d \in Nat, m \in Nat \ {0}
<1> DEFINE q == x \div m
           y == x % m
<1>1. q \in Int /\ y \in Int /\ x = q * m + y
  OBVIOUS
<1> HIDE DEF q, y
<1>2. x * 10 + d = (q * 10) * m + (y * 10 + d)
  <2>1. (q * m) * 10 = (q * 10) * m
    BY <1>1
  <2>. QED BY <1>1, <2>1
<1> DEFINE r == y * 10 + d
           s == q * 10
<1>3. r \in Int /\ s \in Int
  BY <1>1
<1> HIDE DEF r, s
<1>4. (s * m + r) % m = r % m
  BY <1>3, ModMultiple
<1>. QED BY <1>2, <1>4 DEF r, s, y

LEMMA DecimalIs ==
    \A m \in 0..9 : DigitChars[m + 1] \in DecimalDigits /\ DigitValue(DigitChars[m + 1]) = m
<1> TAKE m \in 0..9
<1>0. m + 1 \in 1..10
  OBVIOUS
<1>1. \A k \in 1..10 : DigitChars[k] = DigitChars[m + 1] => k = m + 1
  <2>1. SUFFICES \A j \in 1..10, k \in 1..10 : DigitChars[k] = DigitChars[j] => k = j
    BY <1>0
  <2>2. \A k \in 1..10 : k \in {1, 2, 3, 4, 5, 6, 7, 8, 9, 10}
    OBVIOUS
  <2>3. /\ DigitChars[1] = "0" /\ DigitChars[2] = "1" /\ DigitChars[3] = "2" /\ DigitChars[4] = "3"
        /\ DigitChars[5] = "4" /\ DigitChars[6] = "5" /\ DigitChars[7] = "6" /\ DigitChars[8] = "7"
        /\ DigitChars[9] = "8" /\ DigitChars[10] = "9"
    BY DEF DigitChars
  <2>. QED BY <2>2, <2>3
<1> DEFINE n == CHOOSE k \in 1..10 : DigitChars[k] = DigitChars[m + 1]
<1>2. n = m + 1
  BY <1>0, <1>1
<1>3. DigitValue(DigitChars[m + 1]) = m
  <2>1. DigitValue(DigitChars[m + 1]) = n - 1
    BY DEF DigitValue
  <2> HIDE DEF n
  <2>. QED BY <1>2, <2>1
<1>4. DigitChars[m + 1] \in DecimalDigits
  BY <1>0 DEF DecimalDigits
<1>. QED BY <1>3, <1>4

\* What the first k digits of a numeral spell.
Spelling(w, k) == w \div Weight(10, Width(w, 10) - k)

LEMMA SpellingIs ==
    ASSUME NEW w \in Nat
    PROVE  LET n == Width(w, 10)
           IN  /\ n \in Nat \ {0}
               /\ Spelling(w, 0) = 0 /\ Spelling(w, n) = w
               /\ \A k \in 0..n : Spelling(w, k) \in Nat
               /\ \A k \in 1..n : LET c == Numeral(w, 10)[k]
                                  IN  /\ c \in DecimalDigits
                                      /\ DigitValue(c) \in Nat
                                      /\ Spelling(w, k) = Spelling(w, k - 1) * 10 + DigitValue(c)
<1> DEFINE n == Width(w, 10)
           W(k) == Weight(10, k)
<1>0. IsWidth(w, 10, n)
  BY WidthIs
<1>1. n \in Nat \ {0} /\ w < W(n)
  BY <1>0 DEF IsWidth
<1>2. W(0) = 1 /\ \A k \in Nat : W(k) \in Nat \ {0} /\ W(k + 1) = 10 * W(k)
  BY Weights
<1>a. Numeral(w, 10) = [k \in 1..n |-> DigitChars[((w \div W(n - k)) % 10) + 1]]
  BY DEF Numeral
<1>b. \A k : Spelling(w, k) = w \div W(n - k)
  BY DEF Spelling
<1> HIDE DEF n, W
<1>3. Spelling(w, 0) = 0
  <2>1. n - 0 = n /\ W(n) \in Nat \ {0}
    BY <1>1, <1>2
  <2>2. w \div W(n) = 0
    BY <1>1, <2>1
  <2>. QED BY <1>b, <2>1, <2>2
<1>4. Spelling(w, n) = w
  <2>1. n - n = 0
    BY <1>1
  <2>2. w \div 1 = w
    OBVIOUS
  <2>. QED BY <1>2, <1>b, <2>1, <2>2
<1>5. ASSUME NEW k \in 0..n PROVE Spelling(w, k) \in Nat
  <2>1. n - k \in Nat
    BY <1>1
  <2> DEFINE p == W(n - k)
  <2>2. p \in Nat \ {0}
    BY <1>2, <2>1
  <2> HIDE DEF p
  <2>3. w \div p \in Nat
    BY <2>2
  <2>. QED BY <1>b, <2>3 DEF p
<1>6. ASSUME NEW k \in 1..n
      PROVE  LET c == Numeral(w, 10)[k]
             IN  /\ c \in DecimalDigits
                 /\ DigitValue(c) \in Nat
                 /\ Spelling(w, k) = Spelling(w, k - 1) * 10 + DigitValue(c)
  <2> DEFINE x == Spelling(w, k)
             y == Spelling(w, k - 1)
             p == W(n - k)
  <2>1. n - k \in Nat /\ n - (k - 1) = (n - k) + 1 /\ k \in 0..n /\ k - 1 \in 0..n
    BY <1>1
  <2>2. x \in Nat /\ x = w \div p
    BY <1>5, <1>b, <2>1
  <2>3. p \in Nat \ {0} /\ W(n - (k - 1)) = 10 * p
    BY <1>2, <2>1
  <2>4. 10 * p = p * 10
    BY <2>3
  <2>5. y = w \div (p * 10)
    BY <1>b, <2>3, <2>4
  <2>6. Numeral(w, 10)[k] = DigitChars[(x % 10) + 1]
    BY <1>a, <2>2
  <2> HIDE DEF p, x, y
  <2>7. w \div (p * 10) = (w \div p) \div 10
    <3>1. 10 \in Nat \ {0}
      OBVIOUS
    <3>. QED BY <2>3, <3>1, DivDiv
  <2>8. y = x \div 10
    BY <2>2, <2>5, <2>7
  <2> DEFINE m == x % 10
  <2>9. m \in 0..9 /\ x = y * 10 + m /\ m \in Nat
    <3>1. \A z \in Nat : z % 10 \in 0..9 /\ z = (z \div 10) * 10 + (z % 10)
      OBVIOUS
    <3>2. x % 10 \in 0..9 /\ x = (x \div 10) * 10 + (x % 10)
      BY <2>2, <3>1
    <3>. QED BY <2>8, <3>2
  <2> HIDE DEF m
  <2>10. Numeral(w, 10)[k] = DigitChars[m + 1]
    BY <2>6 DEF m
  <2>11. DigitChars[m + 1] \in DecimalDigits /\ DigitValue(DigitChars[m + 1]) = m
    BY <2>9, DecimalIs
  <2>. QED BY <2>9, <2>10, <2>11 DEF x, y
<1>. QED BY <1>1, <1>3, <1>4, <1>5, <1>6 DEF n

\* The loop that reads a width, over digits that c gives: it has a solution, and
\* ends with the width in a byte.
LEMMA WidthLoop ==
    ASSUME NEW w \in Nat, NEW c, \A k \in 1..Width(w, 10) : c[k] = Numeral(w, 10)[k]
    PROVE  LET n == Width(w, 10)
               Eq(f) == f = [k \in 0..n |-> IF k = 0 THEN 0
                                            ELSE (f[k - 1] * 10 + DigitValue(c[k])) % UCHAR]
           IN  /\ \E f : Eq(f)
               /\ \A f : Eq(f) => f[n] = w % UCHAR
<1> DEFINE n == Width(w, 10)
           Eq(f) == f = [k \in 0..n |-> IF k = 0 THEN 0
                                        ELSE (f[k - 1] * 10 + DigitValue(c[k])) % UCHAR]
           S(k) == Spelling(w, k)
           e == [k \in 0..n |-> S(k) % UCHAR]
<1>0. UCHAR \in Nat \ {0}
  BY WidthAssumption
<1>1. n \in Nat \ {0} /\ S(0) = 0 /\ S(n) = w /\ \A k \in 0..n : S(k) \in Nat
  BY SpellingIs
<1>2. \A k \in 1..n : DigitValue(c[k]) \in Nat /\ S(k) = S(k - 1) * 10 + DigitValue(c[k])
  BY SpellingIs
<1>3. 0 % UCHAR = 0
  BY <1>0
<1> HIDE DEF n, S
<1>4. ASSUME NEW k \in 1..n
      PROVE  S(k) % UCHAR = ((S(k - 1) % UCHAR) * 10 + DigitValue(c[k])) % UCHAR
  <2>1. k - 1 \in 0..n
    BY <1>1
  <2>2. S(k - 1) \in Nat /\ DigitValue(c[k]) \in Nat /\ S(k) = S(k - 1) * 10 + DigitValue(c[k])
    BY <1>1, <1>2, <2>1
  <2> DEFINE x == S(k - 1)
             d == DigitValue(c[k])
  <2>3. x \in Nat /\ d \in Nat /\ S(k) = x * 10 + d
    BY <2>2
  <2> HIDE DEF x, d
  <2>4. ((x % UCHAR) * 10 + d) % UCHAR = (x * 10 + d) % UCHAR
    BY <1>0, <2>3, DigitStep
  <2>. QED BY <2>3, <2>4 DEF x, d
<1>5. Eq(e)
  <2>1. ASSUME NEW k \in 0..n
        PROVE  S(k) % UCHAR = IF k = 0 THEN 0 ELSE (e[k - 1] * 10 + DigitValue(c[k])) % UCHAR
    <3>1. CASE k = 0
      BY <1>1, <1>3, <3>1
    <3>2. CASE k # 0
      <4>1. k \in 1..n /\ k - 1 \in 0..n
        BY <1>1, <3>2
      <4>2. e[k - 1] = S(k - 1) % UCHAR
        BY <4>1
      <4> HIDE DEF e
      <4>. QED BY <1>4, <3>2, <4>1, <4>2
    <3>. QED BY <3>1, <3>2
  <2>. QED BY <2>1
<1>6. ASSUME NEW f, Eq(f) PROVE f[n] = w % UCHAR
  <2> DEFINE Same == {k \in 0..n : f[k] = S(k) % UCHAR}
  <2>1. 0 \in Same
    <3>1. 0 \in 0..n
      BY <1>1
    <3>2. f[0] = 0
      BY <1>6, <3>1
    <3>. QED BY <1>1, <1>3, <3>1, <3>2
  <2>2. ASSUME NEW k \in 0..(n - 1), k \in Same PROVE k + 1 \in Same
    <3>1. k + 1 \in 0..n /\ k + 1 \in 1..n /\ (k + 1) - 1 = k /\ k + 1 # 0
      BY <1>1
    <3>2. f[k + 1] = (f[k] * 10 + DigitValue(c[k + 1])) % UCHAR
      BY <1>6, <3>1
    <3>3. f[k] = S(k) % UCHAR
      BY <2>2
    <3>4. f[k + 1] = S(k + 1) % UCHAR
      BY <1>4, <3>1, <3>2, <3>3
    <3>. QED BY <3>1, <3>4
  <2> HIDE DEF Same, Eq
  <2>3. 0..n \subseteq Same
    BY <1>1, <2>1, <2>2, Data!UpTo
  <2>4. n \in Same
    BY <1>1, <2>3
  <2>. QED BY <1>1, <2>4 DEF Same
<1> HIDE DEF e
<1>7. \E f : Eq(f)
  BY <1>5
<1>. QED BY <1>6, <1>7 DEF n

(***************************************************************************)
(* The arguments, as va_arg and the casts give them.                       *)
(***************************************************************************)
\* Two numbers that agree modulo m and are closer than m are the same.
LEMMA SameResidue ==
    ASSUME NEW m \in Nat \ {0}, NEW x \in Int, x % m = 0, x < m, x > -m
    PROVE  x = 0
<1> DEFINE c == x \div m
<1>1. c \in Int /\ x = c * m
  <2>1. c \in Int /\ x = c * m + (x % m)
    OBVIOUS
  <2> HIDE DEF c
  <2>2. c * m \in Int
    BY <2>1
  <2>. QED BY <2>1, <2>2
<1> HIDE DEF c
<1>2. CASE c >= 1
  <2>1. c * m >= m
    BY <1>1, <1>2
  <2>. QED BY <1>1, <2>1
<1>3. CASE c <= -1
  <2>1. c * m <= -m
    BY <1>1, <1>3
  <2>. QED BY <1>1, <2>1
<1>4. CASE c = 0
  BY <1>1, <1>4
<1>. QED BY <1>1, <1>2, <1>3, <1>4

\* The value in a signed type is the residue nearest to zero.
LEMMA CastIs ==
    ASSUME NEW v \in Int, NEW w \in Nat \ {0}, w % 2 = 0
    PROVE  /\ Signed(v, w) = Narrow(v, w) /\ Signed(v, w) \in Int
           /\ Signed(v, w) < w
<1> DEFINE h == w \div 2
           R == (-h)..(h - 1)
           P(n) == (n - v) % w = 0
           y == (v + h) % w
           q == (v + h) \div w
<1>0. w \in Nat \ {0} /\ w = 2 * h /\ h \in Nat
  OBVIOUS
<1>a. Narrow(v, w) = CHOOSE n \in R : P(n)
  BY DEF Narrow
<1>b. Signed(v, w) = y - h
  BY DEF Signed
<1> HIDE DEF h
<1>1. y \in 0..(w - 1) /\ q \in Int /\ v + h = q * w + y
  <2>1. \A x \in Int, m \in Nat \ {0} : x % m \in 0..(m - 1) /\ x \div m \in Int /\ x = (x \div m) * m + (x % m)
    OBVIOUS
  <2>2. v + h \in Int
    BY <1>0
  <2>. QED BY <1>0, <2>1, <2>2
<1> HIDE DEF y, q
<1>2. y - h \in R
  BY <1>0, <1>1
<1>3. P(y - h)
  <2>1. (y - h) - v = (-q) * w + 0
    <3>1. (-q) * w = -(q * w) /\ q * w \in Int
      BY <1>0, <1>1
    <3>. QED BY <1>0, <1>1, <3>1
  <2>2. ((-q) * w + 0) % w = 0 % w
    <3>1. -q \in Int /\ 0 \in Int
      BY <1>1
    <3>. QED BY <1>0, <3>1, ModMultiple
  <2>3. 0 % w = 0
    BY <1>0
  <2>. QED BY <2>1, <2>2, <2>3
<1>4. ASSUME NEW n \in R, P(n) PROVE n = y - h
  <2> DEFINE z == n - (y - h)
             s == (n - v) \div w
             t == ((y - h) - v) \div w
  <2>1. z \in Int /\ z < w /\ z > -w
    BY <1>0, <1>1
  <2>2. s \in Int /\ n - v = s * w
    <3>1. \A u \in Int : u % w = 0 => u = (u \div w) * w /\ u \div w \in Int
      <4>1. ASSUME NEW u \in Int, u % w = 0
            PROVE  u = (u \div w) * w /\ u \div w \in Int
        <5>1. u = (u \div w) * w + (u % w) /\ u \div w \in Int
          BY <1>0
        <5>2. (u \div w) * w \in Int
          BY <1>0, <5>1
        <5>. QED BY <4>1, <5>1, <5>2
      <4>. QED BY <4>1
    <3>2. n - v \in Int
      BY <1>0
    <3>. QED BY <1>4, <3>1, <3>2
  <2> HIDE DEF s, t
  <2>3. z = (s + q) * w + 0
    <3>1. (s + q) * w = s * w + q * w
      BY <1>0, <1>1, <2>2
    <3>. QED BY <1>0, <1>1, <2>2, <3>1
  <2>4. ((s + q) * w + 0) % w = 0
    <3>1. s + q \in Int /\ 0 \in Int /\ 0 % w = 0
      BY <1>0, <1>1, <2>2
    <3>. QED BY <1>0, <3>1, ModMultiple
  <2> HIDE DEF z
  <2>5. z = 0
    BY <1>0, <2>1, <2>3, <2>4, SameResidue
  <2>. QED BY <1>0, <1>1, <2>5 DEF z
<1> HIDE DEF P, R
<1>5. (CHOOSE n \in R : P(n)) = y - h
  BY <1>2, <1>3, <1>4
<1>6. Narrow(v, w) = y - h /\ Signed(v, w) = y - h
  BY <1>5, <1>a, <1>b
<1>. QED BY <1>0, <1>1, <1>6

\* The parser gives va_arg's value the same 64 bits as the conversion stands for.
LEMMA ArgValueIs ==
    ASSUME NEW d, d.conv \in DOMAIN Base, d.arg \in Int
    PROVE  /\ ArgValue(d.conv, d.arg) = Number(d) /\ Number(d) \in Nat
           /\ Value(d) \in Int /\ Value(d) < LLONG
           /\ NumberBase(d.conv) = Base[d.conv] /\ Base[d.conv] \in 2..16
<1> DEFINE c == d.conv
           v == d.arg
<1>0. /\ UCHAR \in Nat \ {0} /\ LLONG \in Nat \ {0} /\ INT \in Nat \ {0}
      /\ UCHAR <= LLONG /\ INT <= LLONG
      /\ c \in {"d", "i", "l", "ll", "h", "hh", "u", "x", "o", "p"} /\ v \in Int
  BY WidthAssumption DEF Base
<1>1. \A x \in Int, m \in Nat \ {0} : x % m \in Nat /\ x % m < m
  OBVIOUS
<1>2. NumberBase(c) = Base[c] /\ Base[c] \in 2..16
  BY <1>0 DEF NumberBase, Base
<1>3. ASSUME NEW w \in {SHORT, INT, LONG, LLONG},
             ArgValue(c, v) = Signed(v, w) % LLONG, Value(d) = Narrow(v, w)
      PROVE  /\ ArgValue(c, v) = Number(d) /\ Number(d) \in Nat
             /\ Value(d) \in Int /\ Value(d) < LLONG
  <2>1. w \in Nat \ {0} /\ w % 2 = 0 /\ w <= LLONG
    BY WidthAssumption
  <2>2. /\ Signed(v, w) = Narrow(v, w) /\ Signed(v, w) \in Int
        /\ Signed(v, w) < w
    BY <1>0, <2>1, CastIs
  <2>3. Value(d) = Signed(v, w)
    BY <1>3, <2>2
  <2>4. ArgValue(c, v) = Number(d)
    BY <1>3, <2>3 DEF Number
  <2>5. Value(d) \in Int /\ Value(d) < LLONG
    <3> DEFINE n == Signed(v, w)
    <3> HIDE DEF n
    <3>1. n \in Int /\ n < w /\ Value(d) = n
      BY <2>2, <2>3 DEF n
    <3>. QED BY <1>0, <2>1, <3>1
  <2>6. Number(d) \in Nat
    BY <1>0, <1>1, <2>5 DEF Number
  <2>. QED BY <2>4, <2>5, <2>6
<1>4. ASSUME NEW w \in {UCHAR, INT}, ArgValue(c, v) = v % w, Value(d) = v % w
      PROVE  /\ ArgValue(c, v) = Number(d) /\ Number(d) \in Nat
             /\ Value(d) \in Int /\ Value(d) < LLONG
  <2>1. w \in Nat \ {0} /\ w <= LLONG
    BY <1>0
  <2>2. v % w \in Nat /\ v % w < LLONG
    BY <1>0, <1>1, <2>1
  <2>3. \A x \in Nat : x < LLONG => x % LLONG = x
    BY <1>0
  <2>. QED BY <1>4, <2>2, <2>3 DEF Number
<1>5. CASE c \in {"d", "i"}
  <2>1. ArgValue(c, v) = Signed(v, INT) % LLONG /\ Value(d) = Narrow(v, INT)
    BY <1>5 DEF ArgValue, Value
  <2>. QED BY <1>2, <1>3, <2>1
<1>6. CASE c = "l"
  <2>1. ArgValue(c, v) = Signed(v, LONG) % LLONG /\ Value(d) = Narrow(v, LONG)
    BY <1>6 DEF ArgValue, Value
  <2>. QED BY <1>2, <1>3, <2>1
<1>7. CASE c = "ll"
  <2>1. ArgValue(c, v) = Signed(v, LLONG) % LLONG /\ Value(d) = Narrow(v, LLONG)
    BY <1>7 DEF ArgValue, Value
  <2>. QED BY <1>2, <1>3, <2>1
<1>8. CASE c = "h"
  <2>1. ArgValue(c, v) = Signed(v, SHORT) % LLONG /\ Value(d) = Narrow(v, SHORT)
    BY <1>8 DEF ArgValue, Value
  <2>. QED BY <1>2, <1>3, <2>1
<1>9. CASE c = "hh"
  <2>1. ArgValue(c, v) = v % UCHAR /\ Value(d) = v % UCHAR
    BY <1>9 DEF ArgValue, Value
  <2>. QED BY <1>2, <1>4, <2>1
<1>10. CASE c \in {"u", "x", "o", "p"}
  <2>1. ArgValue(c, v) = v % INT /\ Value(d) = v % INT
    BY <1>10 DEF ArgValue, Value
  <2>. QED BY <1>2, <1>4, <2>1
<1>. QED BY <1>0, <1>5, <1>6, <1>7, <1>8, <1>9, <1>10

\* Padding to a width that is reached already changes nothing.
LEMMA NoPadding ==
    ASSUME NEW S, NEW q \in Seq(S), NEW w \in Int, w <= Len(q)
    PROVE  Padded(q, w) = q
<1>1. 1..(w - Len(q)) = {}
  OBVIOUS
<1>2. [k \in 1..(w - Len(q)) |-> "0"] = <<>>
  BY <1>1
<1>3. Padded(q, w) = <<>> \o q
  BY <1>2 DEF Padded
<1>4. <<>> \o q = q
  OBVIOUS
<1>. QED BY <1>3, <1>4

\* What printf.c shows of a number is the same expression whether it is one of
\* the departures or not: where none applies it is the standard rendering.
LEMMA NumberRendered ==
    ASSUME NEW d, IsDirective(d), d.conv \in DOMAIN Base
    PROVE  Rendered(d) = DepartingNumber(d)
<1>0. d.arg \in Int /\ d.width \in Nat \cup {-1} /\ LLONG \in Nat \ {0} /\ UCHAR \in Nat \ {0}
  BY WidthAssumption DEF IsDirective
<1>1. Value(d) \in Int /\ Value(d) < LLONG /\ Base[d.conv] \in 2..16
  BY <1>0, ArgValueIs
<1>2. d.conv \notin {"lit", "c"} /\ d.conv # "%" /\ d.conv # "s"
  BY DEF Base
<1>3. Rendered(d) = IF Departs(d) THEN DepartingNumber(d) ELSE StandardNumber(d)
  BY <1>2 DEF Rendered
<1>4. SUFFICES ASSUME ~Departs(d) PROVE StandardNumber(d) = DepartingNumber(d)
  BY <1>3
<1> DEFINE v == Value(d)
           f == Field(d)
           b == Base[d.conv]
           q == Numeral(v, b)
<1>5. v \in Nat /\ v < LLONG
  BY <1>1, <1>4 DEF Departs, NegativeNumber
<1>6. Number(d) = v /\ Magnitude(d) = v
  <2>1. v % LLONG = v
    BY <1>0, <1>5
  <2>2. ~(v < 0)
    BY <1>5
  <2>. QED BY <2>1, <2>2 DEF Number, Magnitude
<1>7. f \in Nat /\ f % UCHAR = f
  <2>1. f \in Nat
    BY <1>0 DEF Field
  <2>2. f < UCHAR
    BY <1>0, <1>4, <2>1 DEF Departs, WideField
  <2> HIDE DEF f
  <2>. QED BY <1>0, <2>1, <2>2
<1>8. q \in Seq(Digits) /\ Len(q) \in Nat
  BY <1>1, <1>5, NumeralType
<1>9. CASE d.conv # "p"
  <2>1. Sign(d) = <<>>
    BY <1>5, <1>9 DEF Sign
  <2>2. StandardNumber(d) = <<>> \o Padded(q, f - Len(<<>>))
    BY <1>6, <2>1 DEF StandardNumber
  <2>3. DepartingNumber(d) = <<>> \o Padded(q, f)
    BY <1>6, <1>7, <1>9 DEF DepartingNumber
  <2>4. f - Len(<<>>) = f
    BY <1>7
  <2>. QED BY <2>2, <2>3, <2>4
<1>10. CASE d.conv = "p"
  <2>0. b = 16
    BY <1>10 DEF Base
  <2>1. v # 0 /\ ~(f > Len(q))
    BY <1>4, <1>10, <2>0 DEF Departs, PaddedPointer
  <2>2. Sign(d) = <<"0", "x">>
    BY <1>5, <1>10, <2>1 DEF Sign
  <2>3. StandardNumber(d) = <<"0", "x">> \o Padded(q, f - 2)
    <3>1. Len(<<"0", "x">>) = 2
      OBVIOUS
    <3>. QED BY <1>6, <2>2, <3>1 DEF StandardNumber
  <2>4. DepartingNumber(d) = <<"0", "x">> \o Padded(q, f)
    BY <1>6, <1>7, <1>10 DEF DepartingNumber
  <2>5. f \in Int /\ f - 2 \in Int /\ f <= Len(q) /\ f - 2 <= Len(q)
    BY <1>7, <1>8, <2>1
  <2> HIDE DEF f, q
  <2>6. Padded(q, f - 2) = q /\ Padded(q, f) = q
    BY <1>8, <2>5, NoPadding
  <2>. QED BY <2>3, <2>4, <2>6
<1>. QED BY <1>9, <1>10

\* What a conversion of a number writes is what it stands for.
LEMMA NumberText ==
    ASSUME NEW d, IsDirective(d), d.conv \in DOMAIN Base, NEW w \in Nat,
           w = IF d.width = -1 THEN 0 ELSE d.width % UCHAR
    PROVE  LET v == ArgValue(d.conv, d.arg)
               b == NumberBase(d.conv)
               str == Zeros(w - get_number_len(v, b)) \o ring_buffer_write_number(v, b)
           IN  /\ Rendered(d) = (IF d.conv = "p" THEN <<"0", "x">> ELSE <<>>) \o str
               /\ str \in Seq(Char)
               /\ w = 0 => str = Zeros(0) \o ring_buffer_write_number(v, b)
<1> DEFINE v == ArgValue(d.conv, d.arg)
           b == NumberBase(d.conv)
           q == Numeral(v, b)
           z == Zeros(w - get_number_len(v, b))
           str == z \o ring_buffer_write_number(v, b)
<1>0. d.arg \in Int
  BY DEF IsDirective
<1>1. v = Number(d) /\ v \in Nat /\ b = Base[d.conv] /\ b \in 2..16
  BY <1>0, ArgValueIs
<1>2. Rendered(d) = (IF d.conv = "p" THEN <<"0", "x">> ELSE <<>>)
                      \o Padded(Numeral(Number(d), Base[d.conv]), w)
  <2>1. UCHAR \in Nat \ {0}
    BY WidthAssumption
  <2>2. 0 % UCHAR = 0
    BY <2>1
  <2>3. Field(d) % UCHAR = w
    BY <2>2 DEF Field
  <2>4. Rendered(d) = DepartingNumber(d)
    BY NumberRendered
  <2>. QED BY <2>3, <2>4 DEF DepartingNumber
<1> HIDE DEF v, b
<1>3. ring_buffer_write_number(v, b) = q /\ get_number_len(v, b) = Width(v, b) /\ Len(q) = Width(v, b)
      /\ Width(v, b) \in Nat \ {0} /\ q \in Seq(Digits)
  BY <1>1, WriteNumberIs, NumberLenIs, NumeralType
<1> HIDE DEF q
<1>4. Padded(q, w) = str
  BY <1>3 DEF Padded, Zeros
<1>5. Digits \subseteq Char /\ "0" \in Char
  <2>1. \A k \in 1..16 : DigitChars[k] \in Range(DigitChars)
    BY DEF DigitChars, Range
  <2>2. DigitChars[1] = "0" /\ 1 \in 1..16
    BY DEF DigitChars
  <2>. QED BY <2>1, <2>2, CharAssumption DEF Digits
<1>6. str \in Seq(Char)
  <2>1. z \in Seq(Char)
    <3>1. w - get_number_len(v, b) \in Int
      BY <1>3
    <3>2. ASSUME NEW m \in Int PROVE Zeros(m) \in Seq(Char)
      <4>1. CASE m <= 0
        <5>1. 1..m = {}
          BY <4>1
        <5>2. Zeros(m) = <<>>
          BY <5>1 DEF Zeros
        <5>. QED BY <5>2
      <4>2. CASE m > 0
        BY <1>5, <4>2 DEF Zeros
      <4>. QED BY <4>1, <4>2
    <3>. QED BY <3>1, <3>2
  <2>2. q \in Seq(Char)
    BY <1>3, <1>5
  <2> HIDE DEF z
  <2>. QED BY <1>3, <2>1, <2>2
<1>7. w = 0 => z = Zeros(0)
  <2>1. SUFFICES ASSUME w = 0 PROVE z = Zeros(0)
    OBVIOUS
  <2>2. 1..(w - get_number_len(v, b)) = {} /\ 1..0 = {}
    BY <1>3, <2>1
  <2>. QED BY <2>2 DEF Zeros
<1>. QED BY <1>1, <1>2, <1>4, <1>6, <1>7 DEF q, v, b

(***************************************************************************)
(* Formats, directive by directive.                                        *)
(***************************************************************************)
First(ds, k) == SubSeq(ds, 1, k)

\* What a format is made of.
Symbols(ds) == Char \cup {"l", "h"} \cup {ds[n].conv : n \in DOMAIN ds}

\* The characters of a conversion before its letters.
Ahead(d) == IF d.width = -1 THEN 1 ELSE Len(Numeral(d.width, 10)) + 2

LEMMA DigitsAreChars == Digits \subseteq Char /\ "0" \in Char /\ "%" \in Char /\ "x" \in Char
<1>1. \A k \in 1..16 : DigitChars[k] \in Range(DigitChars)
  BY DEF DigitChars, Range
<1>2. DigitChars[1] = "0" /\ 1 \in 1..16
  BY DEF DigitChars
<1>. QED BY <1>1, <1>2, CharAssumption DEF Digits

LEMMA LettersIs ==
    ASSUME NEW d
    PROVE  /\ d.conv = "" => Letters(d.conv) = <<>>
           /\ d.conv = "ll" => Letters(d.conv) = <<"l", "l">>
           /\ d.conv = "hh" => Letters(d.conv) = <<"h", "h">>
           /\ d.conv \notin {"", "ll", "hh"} => Letters(d.conv) = <<d.conv>>
  BY DEF Letters

LEMMA SpelledIs ==
    ASSUME NEW d, IsDirective(d), NEW S, Char \cup {"l", "h", d.conv} \subseteq S
    PROVE  /\ Spelled(d) \in Seq(S) /\ Letters(d.conv) \in Seq(S)
           /\ Ahead(d) \in Nat /\ Ahead(d) >= 1
           /\ d.conv = "lit" => Spelled(d) = <<d.arg>> /\ d.arg \in Char \ {NUL, "%"}
           /\ d.conv # "lit" =>
                /\ Len(Spelled(d)) = Ahead(d) + Len(Letters(d.conv))
                /\ Spelled(d)[1] = "%"
                /\ \A j \in 1..Len(Letters(d.conv)) : Spelled(d)[Ahead(d) + j] = Letters(d.conv)[j]
                /\ d.width # -1 => /\ Spelled(d)[2] = "0"
                                   /\ \A j \in 1..Len(Numeral(d.width, 10)) :
                                         Spelled(d)[2 + j] = Numeral(d.width, 10)[j]
<1> DEFINE L == Letters(d.conv)
           N == Numeral(d.width, 10)
           W == IF d.width = -1 THEN <<>> ELSE <<"0">> \o N
           H == <<"%">> \o W
<1>0. d.width \in Nat \cup {-1} /\ (d.conv = "lit" => d.arg \in Char \ {NUL, "%"})
  BY DEF IsDirective
<1>1. L \in Seq(S)
  <2>1. \/ L = <<>> \/ L = <<"l", "l">> \/ L = <<"h", "h">> \/ L = <<d.conv>>
    BY LettersIs
  <2>2. "l" \in S /\ "h" \in S /\ d.conv \in S
    OBVIOUS
  <2>3. <<>> \in Seq(S) /\ <<"l", "l">> \in Seq(S) /\ <<"h", "h">> \in Seq(S) /\ <<d.conv>> \in Seq(S)
    BY <2>2
  <2> HIDE DEF L
  <2>. QED BY <2>1, <2>3, Zenon
<1>2. d.width # -1 => N \in Seq(S) /\ Len(N) \in Nat
  <2>1. SUFFICES ASSUME d.width # -1 PROVE N \in Seq(S)
    OBVIOUS
  <2>2. d.width \in Nat /\ 10 \in 2..16
    BY <1>0, <2>1
  <2>3. N \in Seq(Digits)
    BY <2>2, NumeralType
  <2>. QED BY <2>3, DigitsAreChars
<1> HIDE DEF L, N
<1>3. /\ W \in Seq(S) /\ (d.width = -1 => Len(W) = 0)
      /\ d.width # -1 => /\ Len(W) = 1 + Len(N) /\ W[1] = "0" /\ \A j \in 1..Len(N) : W[1 + j] = N[j]
  <2>1. CASE d.width = -1
    BY <2>1
  <2>2. CASE d.width # -1
    <3>1. <<"0">> \in Seq(S) /\ Len(<<"0">>) = 1 /\ <<"0">>[1] = "0"
      BY DigitsAreChars
    <3>2. W = <<"0">> \o N
      BY <2>2
    <3>3. /\ W \in Seq(S) /\ Len(W) = 1 + Len(N)
          /\ \A j \in 1..(1 + Len(N)) : W[j] = IF j <= 1 THEN <<"0">>[j] ELSE N[j - 1]
      BY <1>2, <2>2, <3>1, <3>2, ConcatProperties
    <3>4. 1 \in 1..(1 + Len(N)) /\ \A j \in 1..Len(N) : 1 + j \in 1..(1 + Len(N)) /\ ~(1 + j <= 1) /\ (1 + j) - 1 = j
      BY <1>2, <2>2
    <3> HIDE DEF W
    <3>. QED BY <2>2, <3>1, <3>3, <3>4
  <2>. QED BY <2>1, <2>2
<1> HIDE DEF W
<1>4. /\ H \in Seq(S) /\ Len(H) = 1 + Len(W) /\ Len(W) \in Nat
      /\ H[1] = "%" /\ \A j \in 1..Len(W) : H[1 + j] = W[j]
  <2>1. <<"%">> \in Seq(S) /\ Len(<<"%">>) = 1 /\ <<"%">>[1] = "%"
    BY DigitsAreChars
  <2>2. /\ H \in Seq(S) /\ Len(H) = 1 + Len(W) /\ Len(W) \in Nat
        /\ \A j \in 1..(1 + Len(W)) : H[j] = IF j <= 1 THEN <<"%">>[j] ELSE W[j - 1]
    BY <1>3, <2>1, ConcatProperties
  <2>3. 1 \in 1..(1 + Len(W)) /\ \A j \in 1..Len(W) : 1 + j \in 1..(1 + Len(W)) /\ ~(1 + j <= 1) /\ (1 + j) - 1 = j
    BY <2>2
  <2> HIDE DEF H
  <2>. QED BY <2>1, <2>2, <2>3
<1> HIDE DEF H
<1>5. Len(H) = Ahead(d) /\ Ahead(d) \in Nat /\ Ahead(d) >= 1
  <2>1. CASE d.width = -1
    BY <1>3, <1>4, <2>1 DEF Ahead
  <2>2. CASE d.width # -1
    BY <1>2, <1>3, <1>4, <2>2 DEF Ahead, N
  <2>. QED BY <2>1, <2>2
<1>6. CASE d.conv = "lit"
  <2>1. Spelled(d) = <<d.arg>>
    BY <1>6 DEF Spelled
  <2>. QED BY <1>0, <1>1, <1>5, <1>6, <2>1 DEF L
<1>7. CASE d.conv # "lit"
  <2>1. Spelled(d) = H \o L
    BY <1>7 DEF Spelled, H, L, N, W
  <2>2. /\ Spelled(d) \in Seq(S) /\ Len(Spelled(d)) = Len(H) + Len(L) /\ Len(L) \in Nat /\ Len(H) \in Nat
        /\ \A j \in 1..(Len(H) + Len(L)) : Spelled(d)[j] = IF j <= Len(H) THEN H[j] ELSE L[j - Len(H)]
    <3>1. /\ H \o L \in Seq(S) /\ Len(H \o L) = Len(H) + Len(L)
          /\ \A j \in 1..(Len(H) + Len(L)) : (H \o L)[j] = IF j <= Len(H) THEN H[j] ELSE L[j - Len(H)]
      <4>1. H \in Seq(S) /\ L \in Seq(S)
        BY <1>1, <1>4
      <4>. QED BY <4>1, ConcatProperties, Zenon
    <3>2. Len(L) \in Nat /\ Len(H) \in Nat
      BY <1>1, <1>4
    <3> DEFINE q == H \o L
    <3> HIDE DEF q
    <3>. QED BY <2>1, <3>1, <3>2 DEF q
  <2>3. ASSUME NEW j \in 1..Len(H) PROVE Spelled(d)[j] = H[j]
    <3>1. j \in 1..(Len(H) + Len(L)) /\ j <= Len(H)
      BY <2>2
    <3>. QED BY <2>2, <3>1
  <2>4. ASSUME NEW j \in 1..Len(L) PROVE Spelled(d)[Ahead(d) + j] = L[j]
    <3>1. Len(H) + j \in 1..(Len(H) + Len(L)) /\ ~(Len(H) + j <= Len(H)) /\ (Len(H) + j) - Len(H) = j
      BY <2>2
    <3>. QED BY <1>5, <2>2, <3>1
  <2>5. 1 \in 1..Len(H) /\ \A j \in 1..Len(W) : 1 + j \in 1..Len(H)
    BY <1>4
  <2>6. Spelled(d)[1] = "%" /\ \A j \in 1..Len(W) : Spelled(d)[1 + j] = W[j]
    BY <1>4, <2>3, <2>5
  <2>7. ASSUME d.width # -1
        PROVE  Spelled(d)[2] = "0" /\ \A j \in 1..Len(N) : Spelled(d)[2 + j] = N[j]
    <3>1. 1 \in 1..Len(W) /\ 1 + 1 = 2 /\ \A j \in 1..Len(N) : 1 + j \in 1..Len(W) /\ 1 + (1 + j) = 2 + j
      BY <1>2, <1>3, <2>7
    <3>2. Spelled(d)[2] = W[1]
      BY <2>6, <3>1
    <3>3. ASSUME NEW j \in 1..Len(N) PROVE Spelled(d)[2 + j] = N[j]
      <4>1. Spelled(d)[1 + (1 + j)] = W[1 + j]
        BY <2>6, <3>1
      <4>. QED BY <1>3, <2>7, <3>1, <4>1
    <3>. QED BY <1>3, <2>7, <3>2, <3>3
  <2>. QED BY <1>1, <1>5, <1>7, <2>2, <2>4, <2>6, <2>7 DEF L, N
<1>. QED BY <1>6, <1>7

\* The pieces of a format, of its arguments and of its text.
Spellings(ds)  == [n \in DOMAIN ds |-> Spelled(ds[n])]
Renderings(ds) == [n \in DOMAIN ds |-> Rendered(ds[n])]
Takings(ds)    == [n \in DOMAIN ds |-> IF TakesArg(ds[n]) THEN <<ds[n]>> ELSE <<>>]

LEMMA RenderedType ==
    ASSUME NEW d, IsDirective(d)
    PROVE  Rendered(d) \in Seq(Char)
<1>1. CASE d.conv \in DOMAIN Base
  <2> DEFINE w == IF d.width = -1 THEN 0 ELSE d.width % UCHAR
             v == ArgValue(d.conv, d.arg)
             b == NumberBase(d.conv)
             str == Zeros(w - get_number_len(v, b)) \o ring_buffer_write_number(v, b)
  <2>1. d.width \in Nat \cup {-1}
    BY DEF IsDirective
  <2>2. w \in Nat
    BY <2>1, WidthAssumption
  <2>3. str \in Seq(Char) /\ Rendered(d) = (IF d.conv = "p" THEN <<"0", "x">> ELSE <<>>) \o str
    BY <1>1, <2>2, NumberText
  <2> HIDE DEF str
  <2>4. (IF d.conv = "p" THEN <<"0", "x">> ELSE <<>>) \in Seq(Char)
    BY DigitsAreChars
  <2>. QED BY <2>3, <2>4
<1>2. CASE d.conv \notin DOMAIN Base
  <2>1. CASE d.conv \in {"lit", "c"}
    <3>1. d.arg \in Char
      BY <2>1 DEF IsDirective
    <3>2. Rendered(d) = <<d.arg>>
      BY <1>2, <2>1 DEF Rendered
    <3>. QED BY <3>1, <3>2
  <2>2. CASE d.conv = "%"
    BY <1>2, <2>2, DigitsAreChars DEF Rendered
  <2>3. CASE d.conv = "s"
    <3>1. d.arg \in Seq(Char \ {NUL})
      BY <2>3 DEF IsDirective
    <3>2. Rendered(d) = d.arg
      BY <1>2, <2>3 DEF Rendered
    <3>. QED BY <3>1, <3>2
  <2>4. CASE d.conv \notin {"lit", "c", "%", "s"}
    <3>1. Rendered(d) = <<>>
      BY <1>2, <2>4 DEF Rendered
    <3>. QED BY <3>1
  <2>. QED BY <2>1, <2>2, <2>3, <2>4
<1>. QED BY <1>1, <1>2

LEMMA FormatParts ==
    ASSUME NEW ds, IsFormat(ds)
    PROVE  /\ Len(ds) \in Nat /\ DOMAIN ds = 1..Len(ds)
           /\ Spellings(ds) \in Seq(Seq(Symbols(ds))) /\ Len(Spellings(ds)) = Len(ds)
           /\ Renderings(ds) \in Seq(Seq(Char)) /\ Len(Renderings(ds)) = Len(ds)
           /\ Takings(ds) \in Seq(Seq(Range(ds))) /\ Len(Takings(ds)) = Len(ds)
           /\ \A k \in 0..Len(ds) : /\ Format(First(ds, k)) = Flat(Spellings(ds), k)
                                    /\ Text(First(ds, k)) = Flat(Renderings(ds), k)
                                    /\ ArgsOf(First(ds, k)) = Flat(Takings(ds), k)
           /\ First(ds, Len(ds)) = ds
<1>1. ds \in Seq(Range(ds)) /\ \A n \in DOMAIN ds : IsDirective(ds[n])
  BY DEF IsFormat
<1>2. Len(ds) \in Nat /\ DOMAIN ds = 1..Len(ds)
  BY <1>1
<1>3. ASSUME NEW n \in 1..Len(ds)
      PROVE  /\ Spelled(ds[n]) \in Seq(Symbols(ds)) /\ Rendered(ds[n]) \in Seq(Char)
             /\ (IF TakesArg(ds[n]) THEN <<ds[n]>> ELSE <<>>) \in Seq(Range(ds))
  <2>1. IsDirective(ds[n])
    BY <1>1, <1>2
  <2>2. Char \cup {"l", "h", ds[n].conv} \subseteq Symbols(ds)
    BY <1>2 DEF Symbols
  <2>3. Spelled(ds[n]) \in Seq(Symbols(ds))
    BY <2>1, <2>2, SpelledIs
  <2>4. ds[n] \in Range(ds)
    BY <1>2 DEF Range
  <2>. QED BY <2>1, <2>3, <2>4, RenderedType
<1>4. Spellings(ds) \in Seq(Seq(Symbols(ds))) /\ Len(Spellings(ds)) = Len(ds)
  BY <1>2, <1>3 DEF Spellings
<1>5. Renderings(ds) \in Seq(Seq(Char)) /\ Len(Renderings(ds)) = Len(ds)
  BY <1>2, <1>3 DEF Renderings
<1>6. Takings(ds) \in Seq(Seq(Range(ds))) /\ Len(Takings(ds)) = Len(ds)
  BY <1>2, <1>3 DEF Takings
<1>7. ASSUME NEW k \in 0..Len(ds)
      PROVE  /\ Format(First(ds, k)) = Flat(Spellings(ds), k)
             /\ Text(First(ds, k)) = Flat(Renderings(ds), k)
             /\ ArgsOf(First(ds, k)) = Flat(Takings(ds), k)
  <2> DEFINE p == First(ds, k)
  <2>1. DOMAIN p = 1..k /\ \A n \in 1..k : p[n] = ds[n] /\ n \in DOMAIN ds
    BY <1>1, <1>2 DEF First
  <2>2. \A q : SubSeq(q, 1, k) = [n \in 1..k |-> q[n]]
    <3>1. k - 1 + 1 = k /\ \A n \in 1..k : n + 1 - 1 = n
      BY <1>2
    <3>. QED BY <3>1
  <2> HIDE DEF p
  <2>3. [n \in DOMAIN p |-> Spelled(p[n])] = SubSeq(Spellings(ds), 1, k)
    BY <2>1, <2>2 DEF Spellings
  <2>4. [n \in DOMAIN p |-> Rendered(p[n])] = SubSeq(Renderings(ds), 1, k)
    BY <2>1, <2>2 DEF Renderings
  <2>5. [n \in DOMAIN p |-> IF TakesArg(p[n]) THEN <<p[n]>> ELSE <<>>] = SubSeq(Takings(ds), 1, k)
    BY <2>1, <2>2 DEF Takings
  <2>. QED BY <2>3, <2>4, <2>5 DEF Format, Text, ArgsOf, Flat, p
<1>8. First(ds, Len(ds)) = ds
  BY <1>1 DEF First
<1>. QED BY <1>2, <1>4, <1>5, <1>6, <1>7, <1>8

\* Where each directive lies in its format.
LEMMA PieceAt ==
    ASSUME NEW ds, IsFormat(ds), NEW k \in 0..(Len(ds) - 1)
    PROVE  LET lo == Len(Format(First(ds, k)))
               sp == Spelled(ds[k + 1])
           IN  /\ lo \in Nat /\ Len(sp) \in Nat \ {0} /\ Len(sp) + 1 < UCHAR
               /\ Len(Format(ds)) \in Nat
               /\ Len(Format(First(ds, k + 1))) = lo + Len(sp)
               /\ lo + Len(sp) <= Len(Format(ds))
               /\ \A j \in 1..Len(sp) : Format(ds)[lo + j] = sp[j]
<1> DEFINE q == Spellings(ds)
           S == Symbols(ds)
<1>1. /\ Len(ds) \in Nat /\ DOMAIN ds = 1..Len(ds) /\ q \in Seq(Seq(S)) /\ Len(q) = Len(ds)
      /\ \A n \in 0..Len(ds) : Format(First(ds, n)) = Flat(q, n)
      /\ First(ds, Len(ds)) = ds
  BY FormatParts
<1>2. k + 1 \in 1..Len(q) /\ (k + 1) - 1 = k /\ k \in 0..Len(ds) /\ k + 1 \in 0..Len(ds) /\ Len(ds) \in 0..Len(ds)
      /\ k + 1 \in DOMAIN ds
  BY <1>1
<1>3. q[k + 1] = Spelled(ds[k + 1])
  BY <1>2 DEF Spellings
<1>4. Format(ds) = FlattenSeq(q)
  <2>1. Format(ds) = Flat(q, Len(ds))
    BY <1>1, <1>2
  <2>2. Flat(q, Len(q)) = FlattenSeq(q)
    BY <1>1, FlatStep
  <2>. QED BY <1>1, <2>1, <2>2
<1>5. IsDirective(ds[k + 1])
  BY <1>2 DEF IsFormat
<1>6. Len(Spelled(ds[k + 1])) \in Nat \ {0}
  <2>1. Char \cup {"l", "h", ds[k + 1].conv} \subseteq S
    BY <1>2 DEF Symbols
  <2>2. /\ ds[k + 1].conv = "lit" => Spelled(ds[k + 1]) = <<ds[k + 1].arg>>
        /\ ds[k + 1].conv # "lit" => Len(Spelled(ds[k + 1])) = Ahead(ds[k + 1]) + Len(Letters(ds[k + 1].conv))
        /\ Ahead(ds[k + 1]) \in Nat /\ Ahead(ds[k + 1]) >= 1
        /\ Letters(ds[k + 1].conv) \in Seq(S)
    BY <1>5, <2>1, SpelledIs
  <2>3. Len(Letters(ds[k + 1].conv)) \in Nat
    BY <2>2
  <2>4. CASE ds[k + 1].conv = "lit"
    <3> DEFINE sp == Spelled(ds[k + 1])
               a  == ds[k + 1].arg
    <3>1. sp = <<a>>
      BY <2>2, <2>4
    <3> HIDE DEF sp, a
    <3>2. Len(sp) = 1
      BY <3>1
    <3>. QED BY <3>2 DEF sp
  <2>5. CASE ds[k + 1].conv # "lit"
    <3> DEFINE a == Ahead(ds[k + 1])
               l == Len(Letters(ds[k + 1].conv))
    <3>1. Len(Spelled(ds[k + 1])) = a + l /\ a \in Nat /\ a >= 1 /\ l \in Nat
      BY <2>2, <2>3, <2>5
    <3> HIDE DEF a, l
    <3>. QED BY <3>1
  <2>. QED BY <2>4, <2>5
<1>7. Len(Spelled(ds[k + 1])) + 1 < UCHAR
  BY <1>5 DEF IsDirective
<1>8. Len(Format(ds)) \in Nat
  <2>1. Flat(q, Len(q)) \in Seq(S)
    BY <1>1, <1>2, FlatStep
  <2>. QED BY <1>1, <1>2, <2>1
<1>9. LET lo == Len(Flat(q, (k + 1) - 1))
      IN  /\ lo \in Nat
          /\ Len(Flat(q, k + 1)) = lo + Len(q[k + 1]) /\ lo + Len(q[k + 1]) <= Len(FlattenSeq(q))
          /\ \A j \in 1..Len(q[k + 1]) : FlattenSeq(q)[lo + j] = q[k + 1][j]
  BY <1>1, <1>2, FlatPiece
<1> HIDE DEF q, S
<1>10. Format(First(ds, k)) = Flat(q, (k + 1) - 1) /\ Format(First(ds, k + 1)) = Flat(q, k + 1)
  BY <1>1, <1>2
<1>. QED BY <1>3, <1>4, <1>6, <1>7, <1>8, <1>9, <1>10

\* Nothing, and all of a format.
LEMMA EndPieces ==
    ASSUME NEW ds, IsFormat(ds)
    PROVE  /\ Len(ds) \in Nat /\ First(ds, Len(ds)) = ds
           /\ Format(First(ds, 0)) = <<>> /\ Text(First(ds, 0)) = <<>> /\ ArgsOf(First(ds, 0)) = <<>>
           /\ Len(Format(ds)) \in Nat
<1>1. 0 \in 0..Len(ds) /\ Len(ds) \in 0..Len(ds)
  BY FormatParts
<1>2. /\ Spellings(ds) \in Seq(Seq(Symbols(ds))) /\ Renderings(ds) \in Seq(Seq(Char)) /\ Takings(ds) \in Seq(Seq(Range(ds)))
      /\ Len(ds) \in Nat /\ First(ds, Len(ds)) = ds /\ Len(Spellings(ds)) = Len(ds)
  BY FormatParts
<1>3. /\ Format(First(ds, 0)) = Flat(Spellings(ds), 0) /\ Text(First(ds, 0)) = Flat(Renderings(ds), 0)
      /\ ArgsOf(First(ds, 0)) = Flat(Takings(ds), 0) /\ Format(First(ds, Len(ds))) = Flat(Spellings(ds), Len(ds))
  BY <1>1, FormatParts
<1>4. Flat(Spellings(ds), 0) = <<>> /\ Flat(Spellings(ds), Len(ds)) \in Seq(Symbols(ds))
  BY <1>1, <1>2, FlatStep
<1>5. Flat(Renderings(ds), 0) = <<>>
  BY <1>2, FlatStep
<1>6. Flat(Takings(ds), 0) = <<>>
  BY <1>2, FlatStep
<1>. QED BY <1>2, <1>3, <1>4, <1>5, <1>6

\* The text grows by what each directive is rendered to.
LEMMA TextAt ==
    ASSUME NEW ds, IsFormat(ds), NEW k \in 0..(Len(ds) - 1)
    PROVE  /\ Text(First(ds, k)) \in Seq(Char) /\ Rendered(ds[k + 1]) \in Seq(Char)
           /\ Text(First(ds, k + 1)) = Text(First(ds, k)) \o Rendered(ds[k + 1])
<1> DEFINE q == Renderings(ds)
<1>1. /\ Len(ds) \in Nat /\ DOMAIN ds = 1..Len(ds) /\ q \in Seq(Seq(Char)) /\ Len(q) = Len(ds)
      /\ \A n \in 0..Len(ds) : Text(First(ds, n)) = Flat(q, n)
  BY FormatParts
<1>2. k + 1 \in 1..Len(q) /\ (k + 1) - 1 = k /\ k \in 0..Len(q) /\ k \in 0..Len(ds) /\ k + 1 \in 0..Len(ds)
      /\ k + 1 \in DOMAIN ds
  BY <1>1
<1>3. q[k + 1] = Rendered(ds[k + 1])
  BY <1>2 DEF Renderings
<1>4. Flat(q, k + 1) = Flat(q, (k + 1) - 1) \o q[k + 1] /\ Flat(q, k) \in Seq(Char)
  BY <1>1, <1>2, FlatStep
<1>5. q[k + 1] \in Seq(Char)
  BY <1>1, <1>2
<1> HIDE DEF q
<1>. QED BY <1>1, <1>2, <1>3, <1>4, <1>5

LEMMA TextType ==
    ASSUME NEW ds, IsFormat(ds), NEW k \in 0..Len(ds)
    PROVE  Text(First(ds, k)) \in Seq(Char)
<1>1. Renderings(ds) \in Seq(Seq(Char)) /\ Len(Renderings(ds)) = Len(ds) /\ Text(First(ds, k)) = Flat(Renderings(ds), k)
  BY FormatParts
<1>. QED BY <1>1, FlatStep

\* The argument that a directive takes.
LEMMA ArgAt ==
    ASSUME NEW ds, IsFormat(ds), NEW k \in 0..(Len(ds) - 1)
    PROVE  LET n == Len(ArgsOf(First(ds, k)))
           IN  /\ n \in Nat
               /\ Len(ArgsOf(First(ds, k + 1))) = IF TakesArg(ds[k + 1]) THEN n + 1 ELSE n
               /\ TakesArg(ds[k + 1]) => ArgsOf(ds)[n + 1] = ds[k + 1]
<1> DEFINE q == Takings(ds)
           R == Range(ds)
           p == IF TakesArg(ds[k + 1]) THEN <<ds[k + 1]>> ELSE <<>>
<1>1. /\ Len(ds) \in Nat /\ DOMAIN ds = 1..Len(ds) /\ q \in Seq(Seq(R)) /\ Len(q) = Len(ds)
      /\ \A n \in 0..Len(ds) : ArgsOf(First(ds, n)) = Flat(q, n)
      /\ First(ds, Len(ds)) = ds
  BY FormatParts
<1>2. k + 1 \in 1..Len(q) /\ (k + 1) - 1 = k /\ k \in 0..Len(ds) /\ k + 1 \in 0..Len(ds) /\ Len(ds) \in 0..Len(ds)
      /\ k + 1 \in DOMAIN ds
  BY <1>1
<1>3. q[k + 1] = p
  BY <1>2 DEF Takings
<1>4. ArgsOf(ds) = FlattenSeq(q)
  <2>1. ArgsOf(ds) = Flat(q, Len(ds))
    BY <1>1, <1>2
  <2>2. Flat(q, Len(q)) = FlattenSeq(q)
    BY <1>1, FlatStep
  <2>. QED BY <1>1, <2>1, <2>2
<1>5. LET lo == Len(Flat(q, (k + 1) - 1))
      IN  /\ lo \in Nat
          /\ Len(Flat(q, k + 1)) = lo + Len(q[k + 1])
          /\ \A j \in 1..Len(q[k + 1]) : FlattenSeq(q)[lo + j] = q[k + 1][j]
  BY <1>1, <1>2, FlatPiece
<1> HIDE DEF q, R
<1>6. ArgsOf(First(ds, k)) = Flat(q, (k + 1) - 1) /\ ArgsOf(First(ds, k + 1)) = Flat(q, k + 1)
  BY <1>1, <1>2
<1> DEFINE n == Len(ArgsOf(First(ds, k)))
<1>7. /\ n \in Nat /\ Len(ArgsOf(First(ds, k + 1))) = n + Len(p)
      /\ \A j \in 1..Len(p) : ArgsOf(ds)[n + j] = p[j]
  BY <1>3, <1>4, <1>5, <1>6
<1> HIDE DEF n
<1>8. CASE TakesArg(ds[k + 1])
  <2>1. Len(p) = 1 /\ p[1] = ds[k + 1] /\ 1 \in 1..1
    BY <1>8
  <2> HIDE DEF p
  <2>. QED BY <1>7, <1>8, <2>1 DEF n
<1>9. CASE ~TakesArg(ds[k + 1])
  <2>1. Len(p) = 0
    BY <1>9
  <2> HIDE DEF p
  <2>. QED BY <1>7, <1>9, <2>1 DEF n
<1>. QED BY <1>8, <1>9

(***************************************************************************)
(* What the parser sees of a directive.                                    *)
(***************************************************************************)
NotChars == {"%", "s", "c", "d", "i", "l", "ll", "h", "hh", "u", "x", "o", "p"} \cup DecimalDigits

LEMMA NulIsNone == NUL \notin NotChars
<1>1. DecimalDigits \subseteq Range(DigitChars)
  <2>1. \A k \in 1..10 : DigitChars[k] \in Range(DigitChars)
    BY DEF DigitChars, Range
  <2>. QED BY <2>1 DEF DecimalDigits
<1>2. DOMAIN Base = {"d", "i", "l", "ll", "h", "hh", "u", "x", "o", "p"}
  BY DEF Base
<1>. QED BY <1>1, <1>2, CharAssumption DEF NotChars

LEMMA AtPiece ==
    ASSUME NEW ds, IsFormat(ds), fmt = Format(ds), NEW k \in 0..(Len(ds) - 1),
           i = Len(Format(First(ds, k)))
    PROVE  LET sp == Spelled(ds[k + 1])
           IN  /\ i \in Nat /\ Len(sp) \in Nat \ {0} /\ Len(sp) + 1 < UCHAR
               /\ Len(fmt) \in Nat /\ i + Len(sp) <= Len(fmt)
               /\ Len(Format(First(ds, k + 1))) = i + Len(sp)
               /\ \A j \in 0..(Len(sp) - 1) : At(i + j) = sp[j + 1]
               /\ k + 1 = Len(ds) => i + Len(sp) = Len(fmt) /\ At(i + Len(sp)) = NUL
               /\ k + 1 # Len(ds) => At(i + Len(sp)) = Spelled(ds[k + 2])[1]
<1> DEFINE sp == Spelled(ds[k + 1])
<1>1. /\ i \in Nat /\ Len(sp) \in Nat \ {0} /\ Len(sp) + 1 < UCHAR
      /\ Len(fmt) \in Nat
      /\ Len(Format(First(ds, k + 1))) = i + Len(sp)
      /\ i + Len(sp) <= Len(fmt)
      /\ \A j \in 1..Len(sp) : fmt[i + j] = sp[j]
  BY PieceAt
<1>0. Len(ds) \in Nat
  BY EndPieces
<1>2. ASSUME NEW j \in 0..(Len(sp) - 1) PROVE At(i + j) = sp[j + 1]
  <2>1. j + 1 \in 1..Len(sp) /\ i + j < Len(fmt) /\ (i + j) + 1 = i + (j + 1)
    BY <1>1
  <2> HIDE DEF sp
  <2>2. fmt[i + (j + 1)] = sp[j + 1]
    BY <1>1, <2>1
  <2>3. At(i + j) = fmt[(i + j) + 1]
    BY <2>1 DEF At
  <2>. QED BY <2>1, <2>2, <2>3
<1>3. ASSUME k + 1 = Len(ds) PROVE i + Len(sp) = Len(fmt) /\ At(i + Len(sp)) = NUL
  <2>1. First(ds, k + 1) = ds
    BY <1>3, EndPieces
  <2>2. i + Len(sp) = Len(fmt)
    BY <1>1, <2>1
  <2>3. ~(i + Len(sp) < Len(fmt))
    BY <1>1, <2>2
  <2>. QED BY <2>2, <2>3 DEF At
<1>4. ASSUME k + 1 # Len(ds) PROVE At(i + Len(sp)) = Spelled(ds[k + 2])[1]
  <2> DEFINE m == k + 1
             sq == Spelled(ds[m + 1])
             lo == Len(Format(First(ds, m)))
  <2>1. m \in 0..(Len(ds) - 1) /\ m + 1 = k + 2
    BY <1>0, <1>4
  <2>2. /\ lo \in Nat /\ Len(sq) \in Nat \ {0} /\ lo + Len(sq) <= Len(Format(ds))
        /\ \A j \in 1..Len(sq) : Format(ds)[lo + j] = sq[j]
    BY <2>1, PieceAt
  <2>3. lo = i + Len(sp)
    BY <1>1
  <2>4. lo < Len(fmt) /\ 1 \in 1..Len(sq)
    BY <1>1, <2>2
  <2>5. At(lo) = fmt[lo + 1]
    BY <2>4 DEF At
  <2> HIDE DEF lo, sq
  <2>6. At(lo) = sq[1]
    BY <2>2, <2>4, <2>5
  <2>. QED BY <2>1, <2>3, <2>6 DEF sq
<1>. QED BY <1>1, <1>2, <1>3, <1>4

LEMMA DirectiveAt ==
    ASSUME NEW ds, IsFormat(ds), NEW k \in 1..Len(ds)
    PROVE  /\ IsDirective(ds[k]) /\ k \in DOMAIN ds
           /\ Char \cup {"l", "h", ds[k].conv} \subseteq Symbols(ds)
<1>1. DOMAIN ds = 1..Len(ds)
  BY FormatParts
<1>. QED BY <1>1 DEF IsFormat, Symbols

\* What follows a conversion by "l" or "h" does not look like one more letter of it.
LEMMA Follower ==
    ASSUME NEW ds, IsFormat(ds), fmt = Format(ds), NEW k \in 0..(Len(ds) - 1),
           i = Len(Format(First(ds, k))), ds[k + 1].conv \in {"l", "h"}
    PROVE  At(i + Len(Spelled(ds[k + 1]))) # ds[k + 1].conv
<1> DEFINE a == At(i + Len(Spelled(ds[k + 1])))
<1>0. Len(ds) \in Nat /\ DOMAIN ds = 1..Len(ds)
  BY FormatParts
<1>1. CASE k + 1 = Len(ds)
  <2>1. a = NUL
    BY <1>1, AtPiece
  <2>. QED BY <2>1, NulIsNone DEF NotChars
<1>2. CASE k + 1 # Len(ds)
  <2> DEFINE e == ds[k + 2]
  <2>1. a = Spelled(e)[1]
    BY <1>2, AtPiece
  <2>2. k + 2 \in 1..Len(ds) /\ k + 1 \in DOMAIN ds /\ (k + 1) + 1 = k + 2 /\ k + 2 \in DOMAIN ds
    <3> DEFINE n == Len(ds)
    <3>0. n \in Nat /\ k \in 0..(n - 1) /\ k + 1 # n
      BY <1>0, <1>2
    <3> HIDE DEF n
    <3>1. k + 2 \in 1..n /\ k + 1 \in 1..n /\ (k + 1) + 1 = k + 2
      BY <3>0
    <3> USE DEF n
    <3>. QED BY <1>0, <3>1
  <2>3. IsDirective(e) /\ Char \cup {"l", "h", e.conv} \subseteq Symbols(ds)
    BY <2>2, DirectiveAt
  <2>4. /\ e.conv = "lit" => Spelled(e) = <<e.arg>>
        /\ e.conv # "lit" => Spelled(e)[1] = "%"
    BY <2>3, SpelledIs
  <2>5. ~(e.conv = "lit" /\ e.arg = ds[k + 1].conv)
    BY <2>2 DEF IsFormat
  <2> HIDE DEF e, a
  <2>. QED BY <2>1, <2>4, <2>5 DEF a
<1>. QED BY <1>1, <1>2

\* A conversion: its first character, its width, its letters and what follows them.
LEMMA ConversionAt ==
    ASSUME NEW ds, IsFormat(ds), fmt = Format(ds), NEW k \in 0..(Len(ds) - 1),
           i = Len(Format(First(ds, k))), ds[k + 1].conv # "lit"
    PROVE  LET d == ds[k + 1]
               L == Letters(d.conv)
           IN  /\ Ahead(d) \in Nat /\ Ahead(d) >= 1 /\ Len(L) \in Nat
               /\ Len(Spelled(d)) = Ahead(d) + Len(L)
               /\ At(i) = "%"
               /\ \A j \in 1..Len(L) : At(i + Ahead(d) + j - 1) = L[j]
               /\ d.width # -1 => /\ At(i + 1) = "0"
                                  /\ \A j \in 1..Len(Numeral(d.width, 10)) :
                                        At(i + 1 + j) = Numeral(d.width, 10)[j]
<1> DEFINE d == ds[k + 1]
           L == Letters(d.conv)
           sp == Spelled(d)
           N == Numeral(d.width, 10)
<1>0. Len(ds) \in Nat /\ k + 1 \in 1..Len(ds)
  BY FormatParts
<1>1. IsDirective(d) /\ Char \cup {"l", "h", d.conv} \subseteq Symbols(ds)
  BY <1>0, DirectiveAt
<1>2. /\ L \in Seq(Symbols(ds)) /\ Ahead(d) \in Nat /\ Ahead(d) >= 1
      /\ Len(sp) = Ahead(d) + Len(L) /\ sp[1] = "%"
      /\ \A j \in 1..Len(L) : sp[Ahead(d) + j] = L[j]
      /\ d.width # -1 => sp[2] = "0" /\ \A j \in 1..Len(N) : sp[2 + j] = N[j]
  BY <1>1, SpelledIs
<1>3. /\ i \in Nat /\ \A j \in 0..(Len(sp) - 1) : At(i + j) = sp[j + 1]
  BY AtPiece
<1>a. d.width # -1 => Len(N) \in Nat /\ Ahead(d) = Len(N) + 2 /\ Len(N) >= 1
  <2>1. SUFFICES ASSUME d.width # -1 PROVE Len(N) \in Nat \ {0}
    BY DEF Ahead
  <2>2. d.width \in Nat /\ 10 \in 2..16
    BY <1>1, <2>1 DEF IsDirective
  <2>. QED BY <2>2, NumeralType
<1>4. Len(L) \in Nat
  BY <1>2
<1> HIDE DEF d, L, sp, N
<1>5. At(i) = "%"
  <2>1. Ahead(d) \in Nat /\ Ahead(d) >= 1 /\ Len(sp) = Ahead(d) + Len(L) /\ i \in Nat
    BY <1>2, <1>3
  <2>2. 0 \in 0..(Len(sp) - 1) /\ i + 0 = i /\ 0 + 1 = 1
    BY <1>4, <2>1
  <2>3. At(i + 0) = sp[0 + 1]
    BY <1>3, <2>2
  <2>. QED BY <1>2, <2>2, <2>3
<1>6. ASSUME NEW j \in 1..Len(L) PROVE At(i + Ahead(d) + j - 1) = L[j]
  <2> DEFINE n == Ahead(d) + j - 1
  <2>1. n \in 0..(Len(sp) - 1) /\ n + 1 = Ahead(d) + j /\ i + Ahead(d) + j - 1 = i + n
    <3>1. Ahead(d) \in Nat /\ Ahead(d) >= 1 /\ Len(sp) = Ahead(d) + Len(L) /\ i \in Nat
      BY <1>2, <1>3
    <3>. QED BY <1>4, <3>1
  <2> HIDE DEF n
  <2>2. At(i + n) = sp[n + 1]
    BY <1>3, <2>1
  <2>. QED BY <1>2, <2>1, <2>2
<1>7. ASSUME d.width # -1
      PROVE  At(i + 1) = "0" /\ \A j \in 1..Len(N) : At(i + 1 + j) = N[j]
  <2>1. 1 \in 0..(Len(sp) - 1) /\ 1 + 1 = 2
    BY <1>2, <1>4, <1>7, <1>a
  <2>2. At(i + 1) = "0"
    BY <1>2, <1>3, <1>7, <2>1
  <2>3. ASSUME NEW j \in 1..Len(N) PROVE At(i + 1 + j) = N[j]
    <3>1. 1 + j \in 0..(Len(sp) - 1) /\ (1 + j) + 1 = 2 + j /\ i + 1 + j = i + (1 + j)
      BY <1>2, <1>3, <1>4, <1>7, <1>a
    <3>2. At(i + (1 + j)) = sp[(1 + j) + 1]
      BY <1>3, <3>1
    <3>. QED BY <1>2, <1>7, <3>1, <3>2
  <2>. QED BY <2>2, <2>3
<1>. QED BY <1>2, <1>4, <1>5, <1>6, <1>7 DEF d, L, sp, N

(***************************************************************************)
(* What a write adds to the ring of a call.                                *)
(***************************************************************************)
\* new is r after the text s: what fits is added, and a full ring drops it.
Writes(r, new, s) ==
    /\ new \in SoundRing
    /\ r.full => new = r
    /\ \A u \in Seq(Char) : Holds(r, Take(u, Capacity)) => Holds(new, Take(u \o s, Capacity))

LEMMA CapacityIs == Capacity \in Nat /\ Capacity = BUF_MAX - 1 /\ BUF_MAX \in Nat
  BY BufMax DEF Capacity

LEMMA TakeIs ==
    ASSUME NEW s \in Seq(Char), NEW n \in Nat
    PROVE  /\ Take(s, n) \in Seq(Char)
           /\ Len(s) <= n => Take(s, n) = s
           /\ Len(s) > n => Len(Take(s, n)) = n
           /\ Len(Take(s, n)) = IF Len(s) < n THEN Len(s) ELSE n
           /\ \A k \in 1..Len(Take(s, n)) : Take(s, n)[k] = s[k]
<1> DEFINE m == IF Len(s) < n THEN Len(s) ELSE n
<1>1. m \in Nat /\ m <= Len(s) /\ Len(s) \in Nat /\ (Len(s) <= n => m = Len(s)) /\ (Len(s) > n => m = n)
  OBVIOUS
<1>2. Take(s, n) = SubSeq(s, 1, m)
  BY DEF Take
<1> HIDE DEF m
<1>3. /\ SubSeq(s, 1, m) \in Seq(Char) /\ Len(SubSeq(s, 1, m)) = m
      /\ \A k \in 1..m : SubSeq(s, 1, m)[k] = s[k]
  BY <1>1
<1>4. SubSeq(s, 1, Len(s)) = s
  OBVIOUS
<1>. QED BY <1>1, <1>2, <1>3, <1>4 DEF m

\* Cutting before a text is added makes no difference.
LEMMA TakeTake ==
    ASSUME NEW u \in Seq(Char), NEW s \in Seq(Char), NEW n \in Nat
    PROVE  Take(Take(u, n) \o s, n) = Take(u \o s, n)
<1> DEFINE t == Take(u, n)
           p == t \o s
           q == u \o s
<1>1. t \in Seq(Char) /\ (Len(u) <= n => t = u) /\ (Len(u) > n => Len(t) = n)
      /\ \A k \in 1..Len(t) : t[k] = u[k]
  BY TakeIs
<1>2. CASE Len(u) <= n
  BY <1>1, <1>2
<1>3. CASE Len(u) > n
  <2>1. Len(t) = n
    BY <1>1, <1>3
  <2>a. Len(u) \in Nat /\ Len(s) \in Nat
    OBVIOUS
  <2> HIDE DEF t
  <2>2. /\ p \in Seq(Char) /\ Len(p) = n + Len(s)
        /\ \A k \in 1..(n + Len(s)) : p[k] = IF k <= n THEN t[k] ELSE s[k - n]
    <3>1. /\ p \in Seq(Char) /\ Len(p) = Len(t) + Len(s)
          /\ \A k \in 1..(Len(t) + Len(s)) : p[k] = IF k <= Len(t) THEN t[k] ELSE s[k - Len(t)]
      BY <1>1, ConcatProperties
    <3>. QED BY <2>1, <3>1
  <2>3. /\ q \in Seq(Char) /\ Len(q) = Len(u) + Len(s)
        /\ \A k \in 1..(Len(u) + Len(s)) : q[k] = IF k <= Len(u) THEN u[k] ELSE s[k - Len(u)]
    BY ConcatProperties
  <2> HIDE DEF p, q
  <2>4. Take(p, n) \in Seq(Char) /\ Len(Take(p, n)) = n /\ \A k \in 1..n : Take(p, n)[k] = p[k]
    <3>1. ~(Len(p) < n)
      BY <2>2, <2>a
    <3>2. Len(Take(p, n)) = n /\ Take(p, n) \in Seq(Char)
      BY <2>2, <3>1, TakeIs
    <3>3. \A k \in 1..Len(Take(p, n)) : Take(p, n)[k] = p[k]
      BY <2>2, TakeIs
    <3>. QED BY <3>2, <3>3
  <2>5. Take(q, n) \in Seq(Char) /\ Len(Take(q, n)) = n /\ \A k \in 1..n : Take(q, n)[k] = q[k]
    <3>1. ~(Len(q) < n)
      BY <1>3, <2>3, <2>a
    <3>2. Len(Take(q, n)) = n /\ Take(q, n) \in Seq(Char)
      BY <2>3, <3>1, TakeIs
    <3>3. \A k \in 1..Len(Take(q, n)) : Take(q, n)[k] = q[k]
      BY <2>3, TakeIs
    <3>. QED BY <3>2, <3>3
  <2>6. ASSUME NEW k \in 1..n PROVE p[k] = q[k]
    <3>1. k \in 1..(n + Len(s)) /\ k \in 1..(Len(u) + Len(s)) /\ k <= n /\ k <= Len(u)
      BY <1>3, <2>a
    <3>2. p[k] = t[k] /\ q[k] = u[k] /\ t[k] = u[k]
      BY <1>1, <2>1, <2>2, <2>3, <3>1
    <3>. QED BY <3>2
  <2>7. Take(p, n) = Take(q, n)
    <3>1. \A k \in 1..Len(Take(p, n)) : Take(p, n)[k] = Take(q, n)[k]
      BY <2>4, <2>5, <2>6
    <3>2. Take(p, n) \in Seq(Char) /\ Take(q, n) \in Seq(Char) /\ Len(Take(p, n)) = Len(Take(q, n))
      BY <2>4, <2>5
    <3>. QED BY <3>1, <3>2, SeqEqual
  <2>. QED BY <2>7 DEF p, q, t
<1>. QED
  <2>1. Len(u) \in Nat
    OBVIOUS
  <2>. QED BY <1>2, <1>3, <2>1

LEMMA CharWrites ==
    ASSUME NEW r \in SoundRing, NEW c \in Char
    PROVE  Writes(r, ring_buffer_write_char(r, c), <<c>>)
<1>1. ring_buffer_write_char(r, c) \in SoundRing
  BY WriteCharSound
<1>2. r.full => ring_buffer_write_char(r, c) = r
  BY DEF ring_buffer_write_char
<1>3. ASSUME NEW u \in Seq(Char), Holds(r, Take(u, Capacity))
      PROVE  Holds(ring_buffer_write_char(r, c), Take(u \o <<c>>, Capacity))
  <2>1. Holds(ring_buffer_write_char(r, c), Added(Take(u, Capacity), c))
    BY <1>3, WriteCharHolds
  <2>2. Added(Take(u, Capacity), c) = Take(Append(u, c), Capacity)
    BY TakeAppend
  <2>3. Append(u, c) = u \o <<c>>
    BY AppendIsConcat
  <2>. QED BY <2>1, <2>2, <2>3
<1>. QED BY <1>1, <1>2, <1>3 DEF Writes

LEMMA StringWrites ==
    ASSUME NEW r \in SoundRing, NEW s \in Seq(Char)
    PROVE  Writes(r, ring_buffer_write_string(r, s), s)
<1>1. ring_buffer_write_string(r, s) \in SoundRing
  BY WriteStringSound
<1>2. ASSUME r.full PROVE ring_buffer_write_string(r, s) = r
  <2>1. PICK after : Runs(r, s, after)
    BY WriteStringRuns
  <2>2. Len(s) \in Nat
    OBVIOUS
  <2> DEFINE Same == {k \in 0..Len(s) : after[k] = r}
  <2>3. 0 \in Same
    BY <2>1, <2>2 DEF Runs
  <2>4. ASSUME NEW k \in 0..(Len(s) - 1), k \in Same PROVE k + 1 \in Same
    <3>1. k + 1 \in 0..Len(s) /\ k + 1 \in 1..Len(s) /\ (k + 1) - 1 = k
      BY <2>2
    <3>2. after[k + 1] = ring_buffer_write_char(after[k], s[k + 1])
      BY <2>1, <3>1 DEF Runs
    <3>3. after[k] = r
      BY <2>4
    <3>4. after[k + 1] = r
      BY <1>2, <3>2, <3>3 DEF ring_buffer_write_char
    <3>. QED BY <3>1, <3>4
  <2> HIDE DEF Same
  <2>5. 0..Len(s) \subseteq Same
    BY <2>2, <2>3, <2>4, Data!UpTo
  <2>6. after[Len(s)] = r
    BY <2>2, <2>5 DEF Same
  <2>. QED BY <2>1, <2>6 DEF Runs
<1>3. ASSUME NEW u \in Seq(Char), Holds(r, Take(u, Capacity))
      PROVE  Holds(ring_buffer_write_string(r, s), Take(u \o s, Capacity))
  <2>1. Holds(ring_buffer_write_string(r, s), Take(Take(u, Capacity) \o s, Capacity))
    BY <1>3, WriteStringHolds
  <2>. QED BY <2>1, TakeTake, CapacityIs
<1>. QED BY <1>1, <1>2, <1>3 DEF Writes

\* A ring that is not full holds what it shows.
LEMMA ShowsIs ==
    ASSUME NEW r \in SoundRing
    PROVE  /\ Shows(r) \in Seq(Char) /\ Len(Shows(r)) = r.end /\ r.end \in 0..Capacity
           /\ Flushed(r) = Shows(r)
           /\ ~r.full => Holds(r, Shows(r))
           /\ Take(Shows(r), Capacity) = Shows(r)
<1>1. r.end \in 0..(BUF_MAX - 1) /\ r.start = 0 /\ r.buf \in [0..BUF_MAX -> Char] /\ BUF_MAX \in Nat
  BY RingFields, BufMax DEF SoundRing
<1>2. Shows(r) = [k \in 1..r.end |-> r.buf[k - 1]]
  BY <1>1 DEF Shows, Slice
<1>3. \A k \in 1..r.end : k - 1 \in 0..BUF_MAX /\ r.buf[k - 1] \in Char
  <2>1. \A k \in 1..r.end : k - 1 \in 0..BUF_MAX
    BY <1>1
  <2>. QED BY <1>1, <2>1
<1>4. Shows(r) \in Seq(Char) /\ Len(Shows(r)) = r.end
  <2> DEFINE s == Shows(r)
             n == r.end
  <2>1. n \in Nat /\ s = [k \in 1..n |-> r.buf[k - 1]] /\ \A k \in 1..n : r.buf[k - 1] \in Char
    BY <1>1, <1>2, <1>3
  <2> HIDE DEF s, n
  <2>2. s \in [1..n -> Char]
    BY <2>1
  <2>3. s \in Seq(Char) /\ Len(s) = n
    BY <2>1, <2>2
  <2>. QED BY <2>3 DEF s, n
<1>5. Flushed(r) = Shows(r)
  <2>1. r.end >= r.start /\ r.end - r.start = r.end
    BY <1>1
  <2>. QED BY <1>1, <2>1 DEF Flushed, Shows
<1>6. ~r.full => Holds(r, Shows(r))
  BY <1>2, <1>4 DEF Holds
<1>7. r.end \in 0..Capacity
  BY <1>1, CapacityIs
<1>8. Take(Shows(r), Capacity) = Shows(r)
  <2>1. Len(Shows(r)) <= Capacity
    BY <1>4, <1>7
  <2> DEFINE s == Shows(r)
  <2> HIDE DEF s
  <2>2. s \in Seq(Char) /\ Len(s) <= Capacity
    BY <1>4, <2>1 DEF s
  <2>. QED BY <2>2, TakeIs, CapacityIs DEF s
<1>. QED BY <1>4, <1>5, <1>6, <1>7, <1>8

\* The text that a ring holds is the one it shows.
LEMMA HoldsShows ==
    ASSUME NEW r, NEW w, Holds(r, w)
    PROVE  Shows(r) = w /\ Flushed(r) = w /\ r \in SoundRing
  BY HoldsSlice DEF Shows, Holds

LEMMA InitHoldsNothing == Holds(init_ring_buffer, <<>>)
<1>1. init_ring_buffer.end = 0 /\ ~init_ring_buffer.full
  BY DEF init_ring_buffer
<1>. QED BY <1>1, InitSound DEF Holds

\* ring_buffer_rewind keeps the indices inside the array, wherever end goes.
LEMMA RewindSound ==
    ASSUME NEW r \in SoundRing, NEW n \in Nat
    PROVE  ring_buffer_rewind(r, n) \in SoundRing
<1> DEFINE new == ring_buffer_rewind(r, n)
<1>1. /\ r.end \in 0..(BUF_MAX - 1) /\ r.start = 0 /\ r.full \in BOOLEAN /\ r.buf \in [0..BUF_MAX -> Char]
      /\ r.buf[BUF_MAX] = NUL
      /\ r = [start |-> r.start, end |-> r.end, full |-> r.full, buf |-> r.buf]
  BY RingFields DEF SoundRing
<1>2. \A b \in [0..BUF_MAX -> Char], lo \in Int, hi \in Int :
          /\ Cleared(b, lo, hi) \in [0..BUF_MAX -> Char]
          /\ b[BUF_MAX] = NUL => Cleared(b, lo, hi)[BUF_MAX] = NUL
  BY NulAssumption, BufMax DEF Cleared
<1>3. ASSUME NEW b \in [0..BUF_MAX -> Char], b[BUF_MAX] = NUL, NEW e \in 0..(BUF_MAX - 1)
      PROVE  [r EXCEPT !.buf = b, !.end = e] \in SoundRing
  <2> DEFINE q == [r EXCEPT !.buf = b, !.end = e]
  <2>1. q = [start |-> 0, end |-> e, full |-> r.full, buf |-> b]
    <3>1. r \in [start : {0}, end : {r.end}, full : {r.full}, buf : {r.buf}]
      BY <1>1
    <3>2. q \in [start : {0}, end : {e}, full : {r.full}, buf : {b}]
      BY <3>1
    <3> HIDE DEF q
    <3>. QED BY <3>2
  <2> HIDE DEF q
  <2>2. q \in Ring /\ q.start = 0 /\ q.buf[BUF_MAX] = NUL
    BY <1>1, <1>3, <2>1, BufMax DEF Ring
  <2>3. q \in SoundRing
    BY <2>2 DEF SoundRing
  <2>. QED BY <2>3 DEF q
<1>4. CASE n >= BUF_MAX
  <2>1. new = r
    BY <1>4 DEF ring_buffer_rewind
  <2>. QED BY <2>1
<1>5. CASE n < BUF_MAX /\ r.end >= n
  <2> DEFINE b == Cleared(r.buf, r.end - n, r.end)
  <2>1. new = [r EXCEPT !.buf = b, !.end = r.end - n]
    BY <1>1, <1>5, BufMax DEF ring_buffer_rewind
  <2>2. r.end - n \in 0..(BUF_MAX - 1) /\ r.end - n \in Int /\ r.end \in Int
    BY <1>1, <1>5, BufMax
  <2>3. b \in [0..BUF_MAX -> Char] /\ b[BUF_MAX] = NUL
    BY <1>1, <1>2, <2>2
  <2> HIDE DEF b, new
  <2>4. new \in SoundRing
    BY <1>3, <2>1, <2>2, <2>3
  <2>. QED BY <2>4 DEF new
<1>6. CASE n < BUF_MAX /\ r.end < n
  <2> DEFINE e == BUF_MAX - n + r.end
             a == Cleared(r.buf, 0, r.end)
             b == Cleared(a, e, BUF_MAX)
  <2>1. new = [r EXCEPT !.buf = b, !.end = e]
    BY <1>1, <1>6, BufMax DEF ring_buffer_rewind
  <2>2. e \in 0..(BUF_MAX - 1) /\ e \in Int /\ r.end \in Int /\ BUF_MAX \in Int /\ 0 \in Int
    BY <1>1, <1>6, BufMax
  <2> HIDE DEF e
  <2>3. a \in [0..BUF_MAX -> Char] /\ a[BUF_MAX] = NUL
    <3>1. r.buf \in [0..BUF_MAX -> Char] /\ r.buf[BUF_MAX] = NUL
      BY <1>1
    <3>. QED BY <1>2, <2>2, <3>1
  <2> HIDE DEF a
  <2>4. b \in [0..BUF_MAX -> Char] /\ b[BUF_MAX] = NUL
    BY <1>2, <2>2, <2>3
  <2> HIDE DEF b, new
  <2>5. new \in SoundRing
    BY <1>3, <2>1, <2>2, <2>4
  <2>. QED BY <2>5 DEF new
<1>. QED BY <1>1, <1>4, <1>5, <1>6, BufMax

(***************************************************************************)
(* The inductive invariant of print.                                       *)
(***************************************************************************)
IsCall(c) == /\ c.fn \in {"dbg_log", "printf", "sprintf", "snprintf"}
             /\ c.fn = "snprintf" => c.len \in Nat \ {0}
             /\ IsFormat(c.dirs)

Made == UNION {Range(s) : s \in CallSequences}

RingsSound == ring_buffer \in SoundRing /\ base.ring \in SoundRing

\* A call runs on its own format and arguments; printf has sent what was pending.
Prepared ==
    phase # "idle" => /\ calls # <<>>
                      /\ fmt = Format(call.dirs) /\ args = ArgsOf(call.dirs)
                      /\ call.fn = "printf" => shown = base.shown \o Shows(base.ring)

\* The ring holds the text of the first k directives, after what was pending.
Kept(k) ==
    IF Dropping THEN ring_buffer = base.ring
    ELSE Holds(ring_buffer, Take(Pending \o Text(First(call.dirs, k)), Capacity))

\* The first k directives are printed, and the parser stands after them.
Reached(k) ==
    /\ k \in 0..Len(call.dirs)
    /\ i = Len(Format(First(call.dirs, k)))
    /\ argn = Len(ArgsOf(First(call.dirs, k)))
    /\ \A j \in 1..k : ~Malformed(call.dirs[j])
    /\ Kept(k)

Opened == [attr_0len |-> FALSE, attr_size |-> FALSE, size |-> 0, consumed |-> 1]

\* In a conversion, before its width or before its letters.
AtWidth(d) == d.width # -1 /\ fs = Opened

AtLetter(d) ==
    /\ ~CutShort(d)
    /\ fs = IF d.width = -1 THEN Opened
            ELSE [attr_0len |-> TRUE, attr_size |-> d.width % UCHAR # 0,
                  size |-> d.width % UCHAR, consumed |-> Ahead(d)]

Parsing(k) ==
    /\ k \in 0..(Len(call.dirs) - 1) /\ Reached(k)
    /\ call.dirs[k + 1].conv # "lit"
    /\ AtWidth(call.dirs[k + 1]) \/ AtLetter(call.dirs[k + 1])

Returning(k) ==
    /\ Reached(k)
    /\ \/ k \in 0..(Len(call.dirs) - 1) /\ Malformed(call.dirs[k + 1]) /\ ret = -1
       \/ k = Len(call.dirs) /\ ret = Len(fmt)

Standing ==
    /\ phase \in {"idle", "print", "conv", "return", "astray", "fault"}
    /\ phase = "print" => (\E k : Reached(k)) \/ (i \in Nat /\ i > Len(fmt) /\ EndsInside(call.dirs))
    /\ phase = "conv" => \E k : Parsing(k)
    /\ phase = "return" => \E k : Returning(k)
    /\ phase = "astray" => EndsInside(call.dirs)

PInv == calls \in Seq(Made) /\ RingsSound /\ Prepared /\ Standing

LEMMA CallsAre == \A c \in Made : IsCall(c)
<1>1. ASSUME NEW c \in Made PROVE IsCall(c)
  <2>1. PICK s \in CallSequences : c \in Range(s)
    BY DEF Made
  <2>2. PICK k \in DOMAIN s : c = s[k]
    BY <2>1 DEF Range
  <2>3. /\ s[k].fn \in {"dbg_log", "printf", "sprintf", "snprintf"}
        /\ s[k].fn = "snprintf" => s[k].len \in Nat \ {0}
        /\ IsFormat(s[k].dirs)
    BY CallAssumption
  <2>. QED BY <2>2, <2>3 DEF IsCall
<1>. QED BY <1>1

LEMMA SequencesAre == \A s \in CallSequences : s \in Seq(Made)
<1>1. ASSUME NEW s \in CallSequences PROVE s \in Seq(Made)
  <2>1. s \in Seq(Range(s)) /\ Range(s) \subseteq Made
    BY CallAssumption DEF Made
  <2>. QED BY <2>1, SeqMonotonic
<1>. QED BY <1>1

LEMMA CallIs ==
    ASSUME calls \in Seq(Made), calls # <<>>
    PROVE  IsCall(call) /\ IsFormat(call.dirs) /\ Tail(calls) \in Seq(Made)
<1>1. Head(calls) \in Made /\ Tail(calls) \in Seq(Made)
  BY HeadTailProperties
<1>. QED BY <1>1, CallsAre DEF call, IsCall

\* The text a call keeps in the ring grows with each write.
LEMMA KeptStep ==
    ASSUME NEW k \in 0..(Len(call.dirs) - 1), IsFormat(call.dirs), RingsSound, Kept(k),
           Writes(ring_buffer, ring_buffer', Rendered(call.dirs[k + 1])), UNCHANGED <<calls, base>>
    PROVE  Kept(k + 1)'
<1> DEFINE ds == call.dirs
           t == Text(First(ds, k))
           s == Rendered(ds[k + 1])
           p == Pending
<1>1. t \in Seq(Char) /\ s \in Seq(Char) /\ Text(First(ds, k + 1)) = t \o s
  BY TextAt
<1>2. p \in Seq(Char)
  BY ShowsIs DEF Pending, RingsSound
<1>3. call' = call /\ Dropping' = Dropping /\ Pending' = p
  BY DEF call, Dropping, Pending, Shows
<1>4. CASE Dropping
  <2>1. ring_buffer = base.ring /\ ring_buffer.full
    BY <1>4 DEF Kept, Dropping
  <2>2. ring_buffer' = ring_buffer
    BY <2>1 DEF Writes
  <2>. QED BY <1>3, <1>4, <2>1, <2>2 DEF Kept
<1>5. CASE ~Dropping
  <2>1. Holds(ring_buffer, Take(p \o t, Capacity))
    BY <1>5 DEF Kept
  <2> HIDE DEF p, t, s
  <2>2. p \o t \in Seq(Char)
    BY <1>1, <1>2, ConcatProperties
  <2>3. Holds(ring_buffer', Take((p \o t) \o s, Capacity))
    BY <2>1, <2>2 DEF Writes, s
  <2>4. (p \o t) \o s = p \o (t \o s)
    BY <1>1, <1>2, ConcatAssociative
  <2>5. Holds(ring_buffer', Take(p \o Text(First(ds, k + 1)), Capacity))
    BY <1>1, <2>3, <2>4
  <2>. QED BY <1>3, <1>5, <2>5 DEF Kept
<1>. QED BY <1>4, <1>5

\* A directive is printed: its characters passed, its argument taken, its text written.
LEMMA Advance ==
    ASSUME PInv, NEW k, Reached(k), k # Len(call.dirs), phase # "idle",
           ~Malformed(call.dirs[k + 1]), phase' = "print",
           i' = i + Len(Spelled(call.dirs[k + 1])),
           argn' = IF TakesArg(call.dirs[k + 1]) THEN argn + 1 ELSE argn,
           Writes(ring_buffer, ring_buffer', Rendered(call.dirs[k + 1])),
           UNCHANGED <<calls, fmt, args, shown, base>>
    PROVE  PInv'
<1> DEFINE ds == call.dirs
<1>1. calls \in Seq(Made) /\ RingsSound /\ Prepared /\ calls # <<>> /\ fmt = Format(ds)
  BY DEF PInv, Prepared
<1>2. IsFormat(ds)
  BY <1>1, CallIs
<1>3. k \in 0..(Len(ds) - 1) /\ k + 1 \in 0..Len(ds) /\ i = Len(Format(First(ds, k)))
      /\ argn = Len(ArgsOf(First(ds, k)))
  BY <1>2, EndPieces DEF Reached
<1>4. call' = call
  BY DEF call
<1>5. i' = Len(Format(First(ds, k + 1)))
  BY <1>2, <1>3, PieceAt
<1>6. argn' = Len(ArgsOf(First(ds, k + 1)))
  BY <1>2, <1>3, ArgAt
<1>7. Kept(k + 1)'
  BY <1>1, <1>2, <1>3, KeptStep DEF Reached
<1>8. \A j \in 1..(k + 1) : ~Malformed(ds[j])
  <2>1. \A j \in 1..(k + 1) : j \in 1..k \/ j = k + 1
    BY <1>3
  <2>. QED BY <2>1 DEF Reached
<1>9. Reached(k + 1)'
  BY <1>3, <1>4, <1>5, <1>6, <1>7, <1>8 DEF Reached
<1>10. RingsSound'
  BY <1>1 DEF RingsSound, Writes
<1>11. Prepared'
  BY <1>1, <1>4 DEF Prepared, PInv, Shows
<1>12. Standing'
  BY <1>9 DEF Standing
<1>. QED BY <1>1, <1>10, <1>11, <1>12 DEF PInv

\* A step that touches neither the ring nor the call.
LEMMA StandStill ==
    ASSUME PInv, phase # "idle", UNCHANGED <<calls, fmt, args, shown, base, ring_buffer>>, Standing'
    PROVE  PInv'
<1>1. call' = call
  BY DEF call
<1>. QED BY <1>1 DEF PInv, RingsSound, Prepared, Shows

LEMMA ReachedStays ==
    ASSUME NEW k, Reached(k), UNCHANGED <<calls, base, ring_buffer, i, argn>>
    PROVE  Reached(k)'
<1>1. call' = call
  BY DEF call
<1>2. Dropping' = Dropping /\ Pending' = Pending
  BY <1>1 DEF Dropping, Pending, Shows
<1>. QED BY <1>1, <1>2 DEF Reached, Kept

LEMMA RunningIs ==
    ASSUME PInv, phase # "idle"
    PROVE  /\ calls \in Seq(Made) /\ calls # <<>> /\ IsCall(call) /\ IsFormat(call.dirs)
           /\ Tail(calls) \in Seq(Made)
           /\ fmt = Format(call.dirs) /\ args = ArgsOf(call.dirs)
           /\ ring_buffer \in SoundRing /\ base.ring \in SoundRing
           /\ call.fn = "printf" => shown = base.shown \o Shows(base.ring)
           /\ Len(call.dirs) \in Nat /\ Len(fmt) \in Nat /\ First(call.dirs, Len(call.dirs)) = call.dirs
<1>1. calls \in Seq(Made) /\ calls # <<>> /\ RingsSound /\ Prepared
  BY DEF PInv, Prepared
<1>2. IsCall(call) /\ IsFormat(call.dirs) /\ Tail(calls) \in Seq(Made)
  BY <1>1, CallIs
<1>3. fmt = Format(call.dirs) /\ args = ArgsOf(call.dirs)
      /\ (call.fn = "printf" => shown = base.shown \o Shows(base.ring))
  BY <1>1 DEF Prepared
<1>4. Len(call.dirs) \in Nat /\ Len(Format(call.dirs)) \in Nat /\ First(call.dirs, Len(call.dirs)) = call.dirs
  BY <1>2, EndPieces
<1>. QED BY <1>1, <1>2, <1>3, <1>4 DEF RingsSound

\* Where print stands in the format.
LEMMA ReachedIs ==
    ASSUME PInv, phase # "idle", NEW k, Reached(k)
    PROVE  /\ i \in Nat /\ i <= Len(fmt) /\ (i = Len(fmt) <=> k = Len(call.dirs))
           /\ k = Len(call.dirs) => At(i) = NUL
           /\ k # Len(call.dirs) => k \in 0..(Len(call.dirs) - 1)
<1> DEFINE ds == call.dirs
<1>1. IsFormat(ds) /\ fmt = Format(ds) /\ Len(ds) \in Nat /\ First(ds, Len(ds)) = ds /\ Len(fmt) \in Nat
  BY RunningIs
<1>2. k \in 0..Len(ds) /\ i = Len(Format(First(ds, k)))
  BY DEF Reached
<1>3. CASE k = Len(ds)
  <2>1. i = Len(fmt)
    BY <1>1, <1>2, <1>3
  <2>2. At(i) = NUL
    BY <1>1, <2>1 DEF At
  <2>. QED BY <1>1, <1>3, <2>1, <2>2
<1>4. CASE k # Len(ds)
  <2>1. k \in 0..(Len(ds) - 1)
    BY <1>1, <1>2, <1>4
  <2>2. i \in Nat /\ Len(Spelled(ds[k + 1])) \in Nat \ {0} /\ i + Len(Spelled(ds[k + 1])) <= Len(fmt)
    BY <1>1, <1>2, <2>1, AtPiece
  <2> DEFINE n == Len(Spelled(ds[k + 1]))
  <2> HIDE DEF n
  <2>3. i < Len(fmt)
    <3>1. n \in Nat \ {0} /\ i + n <= Len(fmt)
      BY <2>2 DEF n
    <3>. QED BY <1>1, <2>2, <3>1
  <2>. QED BY <1>1, <1>4, <2>1, <2>2, <2>3
<1>. QED BY <1>3, <1>4

LEMMA PrintInitHolds == PrintInit => PInv
<1>1. SUFFICES ASSUME PrintInit PROVE PInv
  OBVIOUS
<1>2. calls \in Seq(Made)
  BY <1>1, SequencesAre DEF PrintInit
<1>3. ring_buffer = init_ring_buffer /\ base.ring = init_ring_buffer /\ phase = "idle"
  BY <1>1 DEF PrintInit
<1>4. RingsSound
  BY <1>3, InitSound DEF RingsSound
<1>. QED BY <1>2, <1>3, <1>4 DEF PInv, Prepared, Standing

LEMMA CallKeeps ==
    ASSUME PInv, Call
    PROVE  PInv'
<1>1. calls \in Seq(Made) /\ calls # <<>> /\ RingsSound
  BY DEF PInv, Call
<1>2. IsCall(call) /\ IsFormat(call.dirs)
  BY <1>1, CallIs
<1>3. call' = call /\ calls' = calls /\ phase' = "print"
  BY DEF Call, call
<1>4. /\ fmt' = Format(call.dirs) /\ args' = ArgsOf(call.dirs) /\ i' = 0 /\ argn' = 0
      /\ base'.ring = ring_buffer /\ base'.shown = shown
  BY DEF Call
<1>5. ring_buffer \in SoundRing
  BY <1>1 DEF RingsSound
<1>6. IF call.fn = "printf"
      THEN shown' = shown \o Shows(ring_buffer) /\ ring_buffer' = init_ring_buffer
      ELSE shown' = shown /\ ring_buffer' = ring_buffer
  BY <1>5, ResetIsInit, ShowsIs DEF Call
<1>7. RingsSound'
  BY <1>4, <1>5, <1>6, InitSound DEF RingsSound
<1>8. Prepared'
  <2>1. Shows(base.ring)' = Shows(ring_buffer)
    BY <1>4 DEF Shows
  <2>. QED BY <1>1, <1>3, <1>4, <1>6, <2>1 DEF Prepared
<1>9. Kept(0)'
  <2> DEFINE ds == call.dirs
  <2>1. Text(First(ds, 0)) = <<>>
    BY <1>2, EndPieces
  <2>2. CASE call.fn = "printf"
    <3>1. ~Dropping' /\ Pending' = <<>>
      BY <1>3, <2>2 DEF Dropping, Pending
    <3>2. <<>> \o <<>> = <<>> /\ <<>> \in Seq(Char) /\ Len(<<>>) = 0
      OBVIOUS
    <3>3. Take(<<>>, Capacity) = <<>>
      <4>1. ASSUME NEW s \in Seq(Char), Len(s) = 0 PROVE Take(s, Capacity) = s
        <5>1. Len(s) <= Capacity
          BY <4>1, CapacityIs
        <5>. QED BY <5>1, TakeIs, CapacityIs
      <4>. QED BY <3>2, <4>1
    <3>4. Holds(ring_buffer', Take(<<>> \o <<>>, Capacity))
      BY <1>6, <2>2, <3>2, <3>3, InitHoldsNothing
    <3>. QED BY <1>3, <2>1, <3>1, <3>4 DEF Kept
  <2>3. CASE call.fn # "printf" /\ ring_buffer.full
    <3>1. Dropping'
      BY <1>3, <1>4, <2>3 DEF Dropping
    <3>. QED BY <1>4, <1>6, <2>3, <3>1 DEF Kept
  <2>4. CASE call.fn # "printf" /\ ~ring_buffer.full
    <3>1. ~Dropping' /\ Pending' = Shows(ring_buffer)
      BY <1>3, <1>4, <2>4 DEF Dropping, Pending, Shows
    <3>2. Shows(ring_buffer) \in Seq(Char) /\ Holds(ring_buffer, Shows(ring_buffer))
          /\ Take(Shows(ring_buffer), Capacity) = Shows(ring_buffer)
      BY <1>5, <2>4, ShowsIs
    <3>3. Shows(ring_buffer) \o <<>> = Shows(ring_buffer)
      BY <3>2, ConcatEmptySeq
    <3>4. Holds(ring_buffer', Take(Shows(ring_buffer) \o <<>>, Capacity))
      BY <1>6, <2>4, <3>2, <3>3
    <3>. QED BY <1>3, <2>1, <3>1, <3>4 DEF Kept
  <2>. QED BY <2>2, <2>3, <2>4
<1>10. Reached(0)'
  <2>1. 0 \in 0..Len(call.dirs) /\ Len(Format(First(call.dirs, 0))) = 0 /\ Len(ArgsOf(First(call.dirs, 0))) = 0
    BY <1>2, EndPieces
  <2>2. \A j \in 1..0 : ~Malformed(call.dirs[j])
    OBVIOUS
  <2>. QED BY <1>3, <1>4, <1>9, <2>1, <2>2 DEF Reached
<1>11. Standing'
  BY <1>3, <1>10 DEF Standing
<1>. QED BY <1>1, <1>3, <1>7, <1>8, <1>11 DEF PInv

LEMMA PrintEndKeeps ==
    ASSUME PInv, PrintEnd
    PROVE  PInv'
<1>1. phase = "print" /\ i = Len(fmt) /\ phase' = "return" /\ ret' = i
      /\ UNCHANGED <<calls, fmt, args, i, fs, argn, ring_buffer, shown, dst, base>>
  BY DEF PrintEnd
<1>2. Len(fmt) \in Nat
  BY <1>1, RunningIs
<1>3. PICK k : Reached(k)
  BY <1>1, <1>2 DEF PInv, Standing
<1>4. k = Len(call.dirs)
  BY <1>1, <1>3, ReachedIs
<1>5. Reached(k)' /\ call' = call
  BY <1>1, <1>3, ReachedStays DEF call
<1>6. Returning(k)'
  BY <1>1, <1>4, <1>5 DEF Returning
<1>7. Standing'
  BY <1>1, <1>6 DEF Standing
<1>. QED BY <1>1, <1>7, StandStill

LEMMA PrintAstrayKeeps ==
    ASSUME PInv, PrintAstray
    PROVE  PInv'
<1>1. phase = "print" /\ i > Len(fmt) /\ phase' = "astray"
      /\ UNCHANGED <<calls, fmt, args, i, fs, argn, ring_buffer, shown, ret, dst, base>>
  BY DEF PrintAstray
<1>2. Len(fmt) \in Nat
  BY <1>1, RunningIs
<1>3. ~(\E k : Reached(k))
  <2>1. SUFFICES ASSUME NEW k, Reached(k) PROVE FALSE
    OBVIOUS
  <2>2. i \in Nat /\ i <= Len(fmt)
    BY <1>1, <2>1, ReachedIs
  <2>. QED BY <1>1, <1>2, <2>2
<1>4. EndsInside(call.dirs)
  BY <1>1, <1>3 DEF PInv, Standing
<1>5. Standing'
  BY <1>1, <1>4 DEF Standing, call
<1>. QED BY <1>1, <1>5, StandStill

LEMMA PrintCharKeeps ==
    ASSUME PInv, PrintChar
    PROVE  PInv'
<1>1. phase = "print" /\ i < Len(fmt) /\ At(i) # "%" /\ phase' = "print"
      /\ ring_buffer' = ring_buffer_write_char(ring_buffer, At(i)) /\ i' = i + 1
      /\ UNCHANGED <<calls, fmt, args, argn, shown, base>>
  BY DEF PrintChar
<1>2. IsFormat(call.dirs) /\ fmt = Format(call.dirs) /\ Len(fmt) \in Nat /\ ring_buffer \in SoundRing
  BY <1>1, RunningIs
<1>3. PICK k : Reached(k)
  <2>1. ~(i \in Nat /\ i > Len(fmt))
    BY <1>1, <1>2
  <2>. QED BY <1>1, <2>1 DEF PInv, Standing
<1>4. k \in 0..(Len(call.dirs) - 1) /\ k # Len(call.dirs) /\ i = Len(Format(First(call.dirs, k)))
  <2>1. k # Len(call.dirs)
    BY <1>1, <1>2, <1>3, ReachedIs
  <2>. QED BY <1>1, <1>3, <2>1, ReachedIs DEF Reached
<1> DEFINE d == call.dirs[k + 1]
<1>5. d.conv = "lit"
  <2>1. SUFFICES ASSUME d.conv # "lit" PROVE At(i) = "%"
    BY <1>1
  <2>. QED BY <1>2, <1>4, <2>1, ConversionAt
<1>6. Spelled(d) = <<d.arg>> /\ d.arg \in Char
  <2>1. k + 1 \in 1..Len(call.dirs)
    BY <1>4
  <2>2. IsDirective(d) /\ Char \cup {"l", "h", d.conv} \subseteq Symbols(call.dirs)
    BY <1>2, <2>1, DirectiveAt
  <2>. QED BY <1>5, <2>2, SpelledIs
<1>7. Len(Spelled(d)) = 1 /\ At(i) = d.arg
  <2>1. /\ i \in Nat
        /\ \A j \in 0..(Len(Spelled(d)) - 1) : At(i + j) = Spelled(d)[j + 1]
    BY <1>2, <1>4, AtPiece
  <2> DEFINE a == d.arg
             sp == Spelled(d)
  <2> HIDE DEF a, sp
  <2>2. sp = <<a>>
    BY <1>6 DEF a, sp
  <2>3. Len(sp) = 1 /\ sp[1] = a /\ 0 \in 0..(1 - 1) /\ i + 0 = i /\ 0 + 1 = 1
    BY <2>1, <2>2
  <2>4. At(i) = a
    BY <2>1, <2>3 DEF sp
  <2>. QED BY <2>3, <2>4 DEF a, sp
<1>8. ~TakesArg(d) /\ ~Malformed(d) /\ Rendered(d) = <<d.arg>>
  BY <1>5 DEF TakesArg, Malformed, Rendered, Base
<1>9. Writes(ring_buffer, ring_buffer', Rendered(d))
  BY <1>1, <1>2, <1>6, <1>7, <1>8, CharWrites
<1>10. i' = i + Len(Spelled(d)) /\ argn' = IF TakesArg(d) THEN argn + 1 ELSE argn
  BY <1>1, <1>7, <1>8
<1>. QED BY <1>1, <1>3, <1>4, <1>8, <1>9, <1>10, Advance

LEMMA DecimalsAre == DecimalDigits = {"0", "1", "2", "3", "4", "5", "6", "7", "8", "9"}
<1>1. /\ DigitChars[1] = "0" /\ DigitChars[2] = "1" /\ DigitChars[3] = "2" /\ DigitChars[4] = "3"
      /\ DigitChars[5] = "4" /\ DigitChars[6] = "5" /\ DigitChars[7] = "6" /\ DigitChars[8] = "7"
      /\ DigitChars[9] = "8" /\ DigitChars[10] = "9"
  BY DEF DigitChars
<1>2. 1..10 = {1, 2, 3, 4, 5, 6, 7, 8, 9, 10}
  OBVIOUS
<1>. QED BY <1>1, <1>2 DEF DecimalDigits

\* Only the last directive of a format is cut short.
LEMMA CutShortIs ==
    ASSUME NEW ds, IsFormat(ds), NEW k \in 0..(Len(ds) - 1), CutShort(ds[k + 1])
    PROVE  k + 1 = Len(ds) /\ EndsInside(ds)
<1> DEFINE n == Len(ds)
<1>1. n \in Nat /\ DOMAIN ds = 1..n
  BY FormatParts
<1>2. k + 1 = n
  <2>1. SUFFICES ASSUME k + 1 # n PROVE FALSE
    OBVIOUS
  <2>2. k + 1 \in DOMAIN ds /\ (k + 1) + 1 \in DOMAIN ds
    <3>1. k \in 0..(n - 1)
      OBVIOUS
    <3> HIDE DEF n
    <3>2. k + 1 \in 1..n /\ (k + 1) + 1 \in 1..n
      BY <1>1, <2>1, <3>1
    <3>. QED BY <1>1, <3>2
  <2>. QED BY <2>2 DEF IsFormat
<1>3. ds # <<>> /\ Last(ds) = ds[k + 1]
  BY <1>1, <1>2 DEF Last
<1>. QED BY <1>2, <1>3 DEF EndsInside

LEMMA FirstLetter ==
    ASSUME NEW d, IsDirective(d), d.conv # "lit"
    PROVE  /\ CutShort(d) => Letters(d.conv) = <<>> /\ Len(Letters(d.conv)) = 0
           /\ ~CutShort(d) =>
                /\ Len(Letters(d.conv)) = IF d.conv \in {"ll", "hh"} THEN 2 ELSE 1
                /\ Letters(d.conv)[1] = IF d.conv = "ll" THEN "l" ELSE IF d.conv = "hh" THEN "h" ELSE d.conv
                /\ d.conv \in {"ll", "hh"} => Letters(d.conv)[2] = Letters(d.conv)[1]
                /\ Letters(d.conv)[1] \notin {NUL, "0"}
                /\ d.width # -1 => Letters(d.conv)[1] \notin DecimalDigits
<1>1. CASE CutShort(d)
  <2>1. Letters(d.conv) = <<>>
    BY <1>1, LettersIs DEF CutShort
  <2>2. Len(<<>>) = 0
    OBVIOUS
  <2>. QED BY <1>1, <2>1, <2>2
<1>2. CASE ~CutShort(d)
  <2> DEFINE c == d.conv
             L == Letters(c)
  <2>1. c # "" /\ c # NUL /\ c # "0" /\ (d.width # -1 => c \notin DecimalDigits)
    <3>1. d.width # -1 => d.width >= 0
      BY DEF IsDirective
    <3>. QED BY <1>2, <3>1 DEF IsDirective, CutShort
  <2>2. "l" \notin {NUL, "0"} \cup DecimalDigits /\ "h" \notin {NUL, "0"} \cup DecimalDigits
    <3>1. "l" # NUL /\ "h" # NUL
      BY NulIsNone DEF NotChars
    <3>. QED BY <3>1, DecimalsAre
  <2>3. CASE c = "ll"
    <3>1. L = <<"l", "l">>
      BY <2>3, LettersIs
    <3> HIDE DEF L
    <3>2. Len(L) = 2 /\ L[1] = "l" /\ L[2] = "l"
      BY <3>1
    <3>. QED BY <1>2, <2>2, <2>3, <3>2 DEF L
  <2>4. CASE c = "hh"
    <3>1. L = <<"h", "h">>
      BY <2>4, LettersIs
    <3> HIDE DEF L
    <3>2. Len(L) = 2 /\ L[1] = "h" /\ L[2] = "h"
      BY <3>1
    <3>. QED BY <1>2, <2>2, <2>4, <3>2 DEF L
  <2>5. CASE c \notin {"ll", "hh"}
    <3>1. L = <<c>>
      BY <2>1, <2>5, LettersIs
    <3> HIDE DEF L, c
    <3>2. Len(L) = 1 /\ L[1] = c
      BY <3>1
    <3>. QED BY <1>2, <2>1, <2>5, <3>2 DEF L, c
  <2>. QED BY <2>3, <2>4, <2>5
<1>. QED BY <1>1, <1>2

\* What the conversion that starts at i looks like to the parser.
LEMMA SeenAt ==
    ASSUME PInv, phase # "idle", NEW k \in 0..(Len(call.dirs) - 1), Reached(k),
           call.dirs[k + 1].conv # "lit"
    PROVE  LET d == call.dirs[k + 1]
               L == Letters(d.conv)
           IN  /\ IsDirective(d) /\ i \in Nat /\ Len(fmt) \in Nat
               /\ Ahead(d) \in Nat /\ Ahead(d) >= 1 /\ Len(L) \in Nat
               /\ Len(Spelled(d)) = Ahead(d) + Len(L)
               /\ i + Len(Spelled(d)) <= Len(fmt) /\ Len(Spelled(d)) + 1 < UCHAR
               /\ At(i) = "%"
               /\ d.width = -1 => Ahead(d) = 1
               /\ d.width # -1 => At(i + 1) = "0" /\ Ahead(d) = Len(Numeral(d.width, 10)) + 2
               /\ CutShort(d) => /\ EndsInside(call.dirs) /\ Len(L) = 0
                                 /\ i + Ahead(d) = Len(fmt) /\ At(i + Ahead(d)) = NUL
               /\ ~CutShort(d) => At(i + Ahead(d)) = L[1] /\ L[1] # NUL
               /\ d.conv \in {"ll", "hh"} => At(i + Ahead(d) + 1) = L[1]
               /\ d.conv \in {"l", "h"} => At(i + Ahead(d) + 1) # L[1]
<1> DEFINE ds == call.dirs
           d == ds[k + 1]
           L == Letters(d.conv)
           sp == Spelled(d)
<1>1. IsFormat(ds) /\ fmt = Format(ds) /\ Len(ds) \in Nat /\ Len(fmt) \in Nat
  BY RunningIs
<1>2. i = Len(Format(First(ds, k)))
  BY DEF Reached
<1>3. /\ Ahead(d) \in Nat /\ Ahead(d) >= 1 /\ Len(L) \in Nat
      /\ Len(sp) = Ahead(d) + Len(L)
      /\ At(i) = "%"
      /\ \A j \in 1..Len(L) : At(i + Ahead(d) + j - 1) = L[j]
      /\ d.width # -1 => At(i + 1) = "0"
  BY <1>1, <1>2, ConversionAt
<1>4. /\ i \in Nat /\ Len(sp) + 1 < UCHAR /\ i + Len(sp) <= Len(fmt)
      /\ k + 1 = Len(ds) => i + Len(sp) = Len(fmt) /\ At(i + Len(sp)) = NUL
  BY <1>1, <1>2, AtPiece
<1>5. IsDirective(d)
  <2>1. k + 1 \in 1..Len(ds)
    BY <1>1
  <2>. QED BY <1>1, <2>1, DirectiveAt
<1>6. /\ d.width = -1 => Ahead(d) = 1
      /\ d.width # -1 => Ahead(d) = Len(Numeral(d.width, 10)) + 2
  BY DEF Ahead
<1>7. ASSUME CutShort(d)
      PROVE  EndsInside(ds) /\ Len(L) = 0 /\ i + Ahead(d) = Len(fmt) /\ At(i + Ahead(d)) = NUL
  <2>1. k + 1 = Len(ds) /\ EndsInside(ds)
    BY <1>1, <1>7, CutShortIs
  <2>2. Len(L) = 0
    BY <1>5, <1>7, FirstLetter
  <2>3. Len(sp) = Ahead(d)
    BY <1>3, <2>2
  <2>. QED BY <1>4, <2>1, <2>2, <2>3
<1>8. ASSUME ~CutShort(d)
      PROVE  /\ Len(L) = IF d.conv \in {"ll", "hh"} THEN 2 ELSE 1
             /\ At(i + Ahead(d)) = L[1] /\ L[1] # NUL
  <2>1. Len(L) = IF d.conv \in {"ll", "hh"} THEN 2 ELSE 1
    BY <1>5, <1>8, FirstLetter
  <2>2. L[1] # NUL
    BY <1>5, <1>8, FirstLetter
  <2>3. 1 \in 1..Len(L) /\ i + Ahead(d) + 1 - 1 = i + Ahead(d)
    BY <1>3, <1>4, <2>1
  <2>. QED BY <1>3, <2>1, <2>2, <2>3
<1>9. ASSUME d.conv \in {"ll", "hh"} PROVE At(i + Ahead(d) + 1) = L[1]
  <2>1. ~CutShort(d)
    BY <1>9 DEF CutShort
  <2>2. L[2] = L[1] /\ Len(L) = 2
    BY <1>5, <1>9, <2>1, FirstLetter
  <2>3. 2 \in 1..Len(L) /\ i + Ahead(d) + 2 - 1 = i + Ahead(d) + 1
    BY <1>3, <1>4, <2>2
  <2>4. At(i + Ahead(d) + 2 - 1) = L[2]
    BY <1>3, <2>3
  <2>. QED BY <2>2, <2>3, <2>4
<1>10. ASSUME d.conv \in {"l", "h"} PROVE At(i + Ahead(d) + 1) # L[1]
  <2>1. ~CutShort(d) /\ d.conv \notin {"ll", "hh"}
    BY <1>10 DEF CutShort
  <2>2. L[1] = d.conv /\ Len(L) = 1
    BY <1>5, <2>1, FirstLetter
  <2>3. i + Len(sp) = i + Ahead(d) + 1
    BY <1>3, <1>4, <2>2
  <2>4. At(i + Len(sp)) # d.conv
    BY <1>1, <1>2, <1>10, Follower
  <2>. QED BY <2>2, <2>3, <2>4
<1> HIDE DEF d, L, sp, ds
<1>. QED BY <1>1, <1>3, <1>4, <1>5, <1>6, <1>7, <1>8, <1>9, <1>10 DEF d, L, sp, ds

LEMMA PrintConversionKeeps ==
    ASSUME PInv, PrintConversion
    PROVE  PInv'
<1>1. phase = "print" /\ At(i) = "%"
      /\ UNCHANGED <<calls, fmt, args, argn, ring_buffer, shown, ret, dst, base>>
  BY DEF PrintConversion
<1>2. IsFormat(call.dirs) /\ fmt = Format(call.dirs) /\ Len(fmt) \in Nat
  BY <1>1, RunningIs
<1>a. NUL # "%"
  BY NulIsNone DEF NotChars
<1>3. PICK k : Reached(k)
  <2>1. ~(i \in Nat /\ i > Len(fmt))
    <3>1. SUFFICES ASSUME i \in Nat, i > Len(fmt) PROVE At(i) = NUL
      BY <1>1, <1>a
    <3>2. ~(i < Len(fmt))
      BY <1>2, <3>1
    <3>. QED BY <3>2 DEF At
  <2>. QED BY <1>1, <2>1 DEF PInv, Standing
<1>4. k \in 0..(Len(call.dirs) - 1) /\ i = Len(Format(First(call.dirs, k)))
  <2>1. k # Len(call.dirs)
    BY <1>1, <1>3, <1>a, ReachedIs
  <2>. QED BY <1>1, <1>3, <2>1, ReachedIs DEF Reached
<1> DEFINE d == call.dirs[k + 1]
<1>5. d.conv # "lit"
  <2>1. SUFFICES ASSUME d.conv = "lit" PROVE FALSE
    OBVIOUS
  <2>2. k + 1 \in 1..Len(call.dirs)
    BY <1>4
  <2>3. IsDirective(d) /\ Char \cup {"l", "h", d.conv} \subseteq Symbols(call.dirs)
    BY <1>2, <2>2, DirectiveAt
  <2>4. Spelled(d) = <<d.arg>> /\ d.arg # "%"
    BY <2>1, <2>3, SpelledIs
  <2>5. /\ i \in Nat /\ Len(Spelled(d)) \in Nat \ {0}
        /\ \A j \in 0..(Len(Spelled(d)) - 1) : At(i + j) = Spelled(d)[j + 1]
    BY <1>2, <1>4, AtPiece
  <2>6. At(i + 0) = Spelled(d)[0 + 1]
    <3>1. 0 \in 0..(Len(Spelled(d)) - 1)
      BY <2>5
    <3>. QED BY <2>5, <3>1
  <2>7. At(i) = Spelled(d)[1]
    BY <2>5, <2>6
  <2>. QED BY <1>1, <2>4, <2>7
<1>6. /\ i \in Nat /\ Len(Spelled(d)) = Ahead(d) + Len(Letters(d.conv))
      /\ Ahead(d) \in Nat
      /\ d.width = -1 => Ahead(d) = 1
      /\ d.width # -1 => At(i + 1) = "0"
      /\ CutShort(d) => EndsInside(call.dirs) /\ i + Ahead(d) = Len(fmt) /\ At(i + Ahead(d)) = NUL
      /\ ~CutShort(d) => At(i + Ahead(d)) = Letters(d.conv)[1] /\ Letters(d.conv)[1] # NUL
  BY <1>1, <1>3, <1>4, <1>5, SeenAt
<1>b. "0" # NUL
  BY NulIsNone, DecimalsAre DEF NotChars
<1> HIDE DEF d
<1>7. CASE At(i + 1) = NUL
  <2>1. i' = i + 2 /\ phase' = "print"
    BY <1>1, <1>7 DEF PrintConversion
  <2>2. EndsInside(call.dirs) /\ i + 1 = Len(fmt)
    BY <1>6, <1>7, <1>b
  <2>3. i' \in Nat /\ i' > Len(fmt)
    BY <1>2, <1>6, <2>1, <2>2
  <2>4. Standing'
    BY <1>1, <2>1, <2>2, <2>3 DEF Standing, call
  <2>. QED BY <1>1, <2>4, StandStill
<1>8. CASE At(i + 1) # NUL
  <2>1. phase' = "conv" /\ fs' = [FreshProps EXCEPT !.consumed = 1] /\ i' = i
    BY <1>1, <1>8 DEF PrintConversion
  <2>2. fs' = Opened
    BY <2>1 DEF FreshProps, Opened
  <2>3. AtWidth(d)' \/ AtLetter(d)'
    <3>0. d' = d
      BY <1>1 DEF d, call
    <3>1. CASE d.width # -1
      BY <2>2, <3>0, <3>1 DEF AtWidth, Opened
    <3>2. CASE d.width = -1
      <4>1. ~CutShort(d)
        BY <1>6, <1>8, <3>2
      <4>. QED BY <2>2, <3>0, <3>2, <4>1 DEF AtLetter, Opened, CutShort
    <3>. QED BY <3>1, <3>2
  <2>4. Reached(k)' /\ call' = call
    BY <1>1, <1>3, <2>1, ReachedStays DEF call
  <2>5. Parsing(k)'
    BY <1>4, <1>5, <2>3, <2>4 DEF Parsing, d
  <2>6. Standing'
    BY <2>1, <2>5 DEF Standing
  <2>. QED BY <1>1, <2>6, StandStill
<1>. QED BY <1>7, <1>8

\* The parser at a letter, or before a width.
LEMMA LetterIs ==
    ASSUME PInv, phase # "idle", NEW k, Parsing(k)
    PROVE  LET d == call.dirs[k + 1]
               L == Letters(d.conv)
           IN  /\ AtWidth(d) => letter = "0" /\ fs.consumed = 1 /\ fs.size = 0 /\ ~fs.attr_size
               /\ AtLetter(d) =>
                    /\ fs.consumed = Ahead(d) /\ (fs.consumed = 1 <=> d.width = -1)
                    /\ letter = L[1] /\ L[1] # "0"
                    /\ fs.size = IF d.width = -1 THEN 0 ELSE d.width % UCHAR
                    /\ padded <=> fs.size # 0
                    /\ d.conv \in {"ll", "hh"} => next = letter
                    /\ d.conv \in {"l", "h"} => next # letter
<1> DEFINE d == call.dirs[k + 1]
           L == Letters(d.conv)
<1>0. k \in 0..(Len(call.dirs) - 1) /\ Reached(k) /\ d.conv # "lit"
  BY DEF Parsing
<1>1. /\ IsDirective(d) /\ i \in Nat /\ Ahead(d) \in Nat
      /\ d.width = -1 => Ahead(d) = 1
      /\ d.width # -1 => At(i + 1) = "0" /\ Ahead(d) = Len(Numeral(d.width, 10)) + 2
      /\ ~CutShort(d) => At(i + Ahead(d)) = L[1] /\ L[1] # NUL
      /\ d.conv \in {"ll", "hh"} => At(i + Ahead(d) + 1) = L[1]
      /\ d.conv \in {"l", "h"} => At(i + Ahead(d) + 1) # L[1]
  BY <1>0, SeenAt
<1>2. ~CutShort(d) => L[1] # "0"
  BY <1>0, <1>1, FirstLetter
<1>3. d.width # -1 => Ahead(d) # 1
  <2>1. SUFFICES ASSUME d.width # -1 PROVE Len(Numeral(d.width, 10)) \in Nat
    BY <1>1
  <2>2. d.width \in Nat /\ 10 \in 2..16
    BY <1>1, <2>1 DEF IsDirective
  <2>. QED BY <2>2, NumeralType
<1> HIDE DEF d, L
<1>4. ASSUME AtWidth(d) PROVE letter = "0" /\ fs.consumed = 1 /\ fs.size = 0 /\ ~fs.attr_size
  BY <1>1, <1>4 DEF AtWidth, Opened, letter
<1>5. ASSUME AtLetter(d)
      PROVE  /\ fs.consumed = Ahead(d)
             /\ fs.size = IF d.width = -1 THEN 0 ELSE d.width % UCHAR
             /\ padded <=> fs.size # 0
  <2>1. CASE d.width = -1
    BY <1>1, <1>5, <2>1 DEF AtLetter, Opened, padded
  <2>2. CASE d.width # -1
    BY <1>5, <2>2 DEF AtLetter, padded
  <2>. QED BY <2>1, <2>2
<1>6. ASSUME AtLetter(d)
      PROVE  /\ letter = L[1] /\ L[1] # "0"
             /\ d.conv \in {"ll", "hh"} => next = letter
             /\ d.conv \in {"l", "h"} => next # letter
  <2>1. fs.consumed = Ahead(d) /\ ~CutShort(d)
    BY <1>5, <1>6 DEF AtLetter
  <2>. QED BY <1>1, <1>2, <2>1 DEF letter, next
<1>7. ASSUME AtLetter(d) PROVE fs.consumed = 1 <=> d.width = -1
  BY <1>1, <1>3, <1>5, <1>7
<1>. QED BY <1>4, <1>5, <1>6, <1>7 DEF d, L

\* The digits that follow a '0' are those of the width.
LEMMA DigitsAheadIs ==
    ASSUME PInv, phase # "idle", NEW k, Parsing(k), AtWidth(call.dirs[k + 1])
    PROVE  LET d == call.dirs[k + 1]
               N == Numeral(d.width, 10)
           IN  /\ d.width \in Nat /\ Len(N) = Width(d.width, 10) /\ Len(N) \in Nat \ {0}
               /\ DigitsAhead = Len(N)
               /\ \A j \in 1..Len(N) : At(i + fs.consumed + j) = N[j]
<1> DEFINE d == call.dirs[k + 1]
           N == Numeral(d.width, 10)
           n == Len(N)
           P(m) == /\ \A j \in 1..m : At(i + fs.consumed + j) \in DecimalDigits
                   /\ At(i + fs.consumed + m + 1) \notin DecimalDigits
<1>0. k \in 0..(Len(call.dirs) - 1) /\ Reached(k) /\ d.conv # "lit" /\ d.width # -1 /\ fs.consumed = 1
  BY DEF Parsing, AtWidth, Opened
<1>1. /\ IsDirective(d) /\ i \in Nat /\ Len(fmt) \in Nat /\ Ahead(d) = n + 2 /\ Ahead(d) \in Nat
      /\ Len(Letters(d.conv)) \in Nat
      /\ Len(Spelled(d)) = Ahead(d) + Len(Letters(d.conv)) /\ i + Len(Spelled(d)) <= Len(fmt)
      /\ CutShort(d) => At(i + Ahead(d)) = NUL
      /\ ~CutShort(d) => At(i + Ahead(d)) = Letters(d.conv)[1]
  BY <1>0, SeenAt
<1>2. d.width \in Nat /\ n = Width(d.width, 10) /\ n \in Nat \ {0}
  <2>1. d.width \in Nat /\ 10 \in 2..16
    BY <1>0, <1>1 DEF IsDirective
  <2>. QED BY <2>1, NumeralType
<1>3. \A j \in 1..n : At(i + fs.consumed + j) = N[j] /\ N[j] \in DecimalDigits
  <2>1. \A j \in 1..n : N[j] \in DecimalDigits
    BY <1>2, SpellingIs
  <2>2. IsFormat(call.dirs) /\ fmt = Format(call.dirs) /\ i = Len(Format(First(call.dirs, k)))
    BY <1>0, RunningIs DEF Reached
  <2>3. \A j \in 1..n : At(i + 1 + j) = N[j]
    BY <1>0, <2>2, ConversionAt
  <2>. QED BY <1>0, <2>1, <2>3
<1>4. At(i + fs.consumed + n + 1) \notin DecimalDigits
  <2>1. i + fs.consumed + n + 1 = i + Ahead(d)
    BY <1>0, <1>1, <1>2
  <2>2. CASE CutShort(d)
    BY <1>1, <2>1, <2>2, NulIsNone DEF NotChars
  <2>3. CASE ~CutShort(d)
    <3>1. Letters(d.conv)[1] \notin DecimalDigits
      BY <1>0, <1>1, <2>3, FirstLetter
    <3>. QED BY <1>1, <2>1, <2>3, <3>1
  <2>. QED BY <2>2, <2>3
<1> HIDE DEF d, N
<1>5. n \in 0..Len(fmt) /\ P(n)
  <2>1. n <= Len(fmt)
    BY <1>1, <1>2
  <2>. QED BY <1>1, <1>2, <1>3, <1>4, <2>1
<1>6. ASSUME NEW m \in 0..Len(fmt), P(m) PROVE m = n
  <2>1. CASE m < n
    <3>1. m + 1 \in 1..n /\ i + fs.consumed + (m + 1) = i + fs.consumed + m + 1
      BY <1>0, <1>1, <1>2, <2>1
    <3>2. At(i + fs.consumed + (m + 1)) \in DecimalDigits
      BY <1>3, <3>1
    <3>. QED BY <1>6, <3>1, <3>2
  <2>2. CASE m > n
    <3> DEFINE e == fs.consumed
    <3>0. m \in Nat /\ n \in Nat /\ i \in Nat /\ e \in Nat
      BY <1>0, <1>1, <1>2
    <3> HIDE DEF n, e
    <3>a. n + 1 \in 1..m /\ i + e + (n + 1) = i + e + n + 1
      BY <2>2, <3>0
    <3>1. n + 1 \in 1..m /\ i + fs.consumed + (n + 1) = i + fs.consumed + n + 1
      BY <3>a DEF e
    <3>2. At(i + fs.consumed + (n + 1)) \in DecimalDigits
      BY <1>6, <3>1
    <3>. QED BY <1>4, <3>1, <3>2
  <2>3. m \in Nat /\ n \in Nat
    BY <1>1, <1>2
  <2> HIDE DEF P, n
  <2>4. m < n \/ m > n \/ m = n
    BY <2>3
  <2>. QED BY <2>1, <2>2, <2>4
<1>7. DigitsAhead = CHOOSE m \in 0..Len(fmt) : P(m)
  BY DEF DigitsAhead
<1>8. DigitsAhead = n
  <2> HIDE DEF P, n
  <2>. QED BY <1>5, <1>6, <1>7
<1>. QED BY <1>2, <1>3, <1>8 DEF d, N

LEMMA ZeroKeeps ==
    ASSUME PInv, Zero
    PROVE  PInv'
<1>1. phase = "conv" /\ letter = "0"
      /\ UNCHANGED <<calls, fmt, args, argn, ring_buffer, shown, ret, dst, base>>
  BY DEF Zero
<1>2. PICK k : Parsing(k)
  BY <1>1 DEF PInv, Standing
<1> DEFINE d == call.dirs[k + 1]
           n == Width(d.width, 10)
           N == Numeral(d.width, 10)
<1>3. AtWidth(d)
  <2>1. SUFFICES ASSUME AtLetter(d) PROVE FALSE
    BY <1>2 DEF Parsing
  <2>. QED BY <1>1, <1>2, <2>1, LetterIs
<1>4. /\ d.width \in Nat /\ Len(N) = n /\ n \in Nat \ {0} /\ DigitsAhead = n
      /\ \A j \in 1..n : At(i + fs.consumed + j) = N[j]
  BY <1>1, <1>2, <1>3, DigitsAheadIs
<1>5. fs.consumed = 1 /\ fs.size = 0 /\ ~fs.attr_size
  BY <1>1, <1>2, <1>3, LetterIs
<1>6. k \in 0..(Len(call.dirs) - 1) /\ Reached(k) /\ d.conv # "lit" /\ d.width # -1
  BY <1>2, <1>3 DEF Parsing, AtWidth
<1>7. /\ i \in Nat /\ Len(fmt) \in Nat /\ Ahead(d) = n + 2
      /\ Len(Letters(d.conv)) \in Nat
      /\ Len(Spelled(d)) = Ahead(d) + Len(Letters(d.conv)) /\ Len(Spelled(d)) + 1 < UCHAR
      /\ CutShort(d) => /\ EndsInside(call.dirs)
                        /\ i + Ahead(d) = Len(fmt) /\ At(i + Ahead(d)) = NUL
      /\ ~CutShort(d) => At(i + Ahead(d)) # NUL
  BY <1>1, <1>4, <1>6, SeenAt
<1>8. UCHAR \in Nat \ {0}
  BY WidthAssumption
<1> DEFINE c == [j \in 1..n |-> At(i + fs.consumed + j)]
           Code(f) == f = [j \in 0..n |-> IF j = 0 THEN fs.size
                                          ELSE (f[j - 1] * 10 + DigitValue(At(i + fs.consumed + j))) % UCHAR]
           Eq(f) == f = [j \in 0..n |-> IF j = 0 THEN 0 ELSE (f[j - 1] * 10 + DigitValue(c[j])) % UCHAR]
           size1 == CHOOSE f : Code(f)
           used == (fs.consumed + n + 1) % UCHAR
<1>9. size1[n] = d.width % UCHAR
  <2>1. \A j \in 1..n : c[j] = N[j]
    BY <1>4
  <2>2. (\E f : Eq(f)) /\ (\A f : Eq(f) => f[n] = d.width % UCHAR)
    <3> HIDE DEF c
    <3>. QED BY <1>4, <2>1, WidthLoop
  <2>3. \A f : Code(f) <=> Eq(f)
    <3>1. ASSUME NEW f
          PROVE  [j \in 0..n |-> IF j = 0 THEN fs.size
                                 ELSE (f[j - 1] * 10 + DigitValue(At(i + fs.consumed + j))) % UCHAR]
                 = [j \in 0..n |-> IF j = 0 THEN 0 ELSE (f[j - 1] * 10 + DigitValue(c[j])) % UCHAR]
      <4>1. ASSUME NEW j \in 0..n, j # 0 PROVE c[j] = At(i + fs.consumed + j)
        <5>1. j \in 1..n
          BY <1>4, <4>1
        <5>. QED BY <5>1
      <4> HIDE DEF c
      <4>. QED BY <1>5, <4>1
    <3>. QED BY <3>1
  <2> HIDE DEF Code, Eq
  <2>4. Code(size1)
    BY <2>2, <2>3
  <2>. QED BY <2>2, <2>3, <2>4
<1>10. /\ fs' = [attr_0len |-> TRUE, attr_size |-> fs.attr_size \/ size1[n] # 0,
                 size |-> size1[n], consumed |-> used]
       /\ IF At(i + used) = NUL
          THEN phase' = "print" /\ i' = i + ((used + 1) % UCHAR)
          ELSE UNCHANGED <<phase, i>>
  <2> HIDE DEF d
  <2>. QED BY <1>4 DEF Zero
<1> HIDE DEF d, n, N, c, Code, Eq, size1
<1>a. n + 2 \in Nat /\ n + 3 < UCHAR /\ n + 3 \in Nat
  <2> DEFINE sp == Len(Spelled(d))
             l  == Len(Letters(d.conv))
  <2>1. l \in Nat /\ sp = (n + 2) + l /\ sp + 1 < UCHAR /\ n \in Nat
    BY <1>4, <1>7
  <2> HIDE DEF sp, l
  <2>. QED BY <1>8, <2>1
<1>11. used = Ahead(d)
  <2>1. fs.consumed + n + 1 = n + 2
    BY <1>4, <1>5
  <2>2. \A x \in Nat, m \in Nat \ {0} : x < m => x % m = x
    OBVIOUS
  <2>3. (n + 2) % UCHAR = n + 2
    <3>1. n + 2 < UCHAR
      BY <1>4, <1>8, <1>a
    <3>. QED BY <1>8, <1>a, <2>2, <3>1
  <2>. QED BY <1>7, <2>1, <2>3
<1> HIDE DEF used
<1>12. CASE CutShort(d)
  <2>1. At(i + used) = NUL
    BY <1>7, <1>11, <1>12
  <2>2. phase' = "print" /\ i' = i + ((used + 1) % UCHAR)
    BY <1>10, <2>1
  <2>3. (used + 1) % UCHAR = n + 3 /\ i + n + 2 = Len(fmt)
    <3>1. \A x \in Nat, m \in Nat \ {0} : x < m => x % m = x
      OBVIOUS
    <3>2. (n + 3) % UCHAR = n + 3
      BY <1>8, <1>a, <3>1
    <3>3. used + 1 = n + 3 /\ i + n + 2 = i + (n + 2)
      BY <1>4, <1>7, <1>11
    <3>. QED BY <1>7, <1>12, <3>2, <3>3
  <2>4. i' \in Nat /\ i' > Len(fmt)
    BY <1>4, <1>7, <2>2, <2>3
  <2>5. Standing'
    BY <1>1, <1>7, <1>12, <2>2, <2>4 DEF Standing, call
  <2>. QED BY <1>1, <2>5, StandStill
<1>13. CASE ~CutShort(d)
  <2>1. phase' = phase /\ i' = i
    BY <1>7, <1>10, <1>11, <1>13
  <2>2. fs' = [attr_0len |-> TRUE, attr_size |-> d.width % UCHAR # 0,
               size |-> d.width % UCHAR, consumed |-> Ahead(d)]
    BY <1>5, <1>9, <1>10, <1>11
  <2>3. call' = call /\ d' = d
    BY <1>1 DEF call, d
  <2>4. AtLetter(d)'
    BY <1>6, <1>13, <2>2, <2>3 DEF AtLetter, CutShort
  <2>5. Reached(k)'
    BY <1>1, <1>6, <2>1, ReachedStays
  <2>6. Parsing(k)'
    BY <1>6, <2>3, <2>4, <2>5 DEF Parsing, d
  <2>7. Standing'
    BY <1>1, <2>1, <2>6 DEF Standing
  <2>. QED BY <1>1, <2>7, StandStill
<1>. QED BY <1>12, <1>13

LEMMA ZerosType == ASSUME NEW m \in Int PROVE Zeros(m) \in Seq(Char)
<1>1. CASE m <= 0
  <2>1. 1..m = {}
    BY <1>1
  <2>2. Zeros(m) = <<>>
    BY <2>1 DEF Zeros
  <2>. QED BY <2>2
<1>2. CASE m > 0
  BY <1>2, DigitsAreChars DEF Zeros
<1>. QED BY <1>1, <1>2

\* The parser recognises the conversion.
LEMMA ConversionIs ==
    ASSUME PInv, phase # "idle", NEW k, Parsing(k), AtLetter(call.dirs[k + 1])
    PROVE  LET d == call.dirs[k + 1]
           IN  /\ Conversion = d.conv /\ d.conv \notin {"", "0", "lit"} /\ IsDirective(d)
               /\ Len(Letters(d.conv)) = IF d.conv \in {"ll", "hh"} THEN 2 ELSE 1
               /\ letter = IF d.conv = "ll" THEN "l" ELSE IF d.conv = "hh" THEN "h" ELSE d.conv
<1> DEFINE d == call.dirs[k + 1]
           L == Letters(d.conv)
<1>1. k \in 0..(Len(call.dirs) - 1) /\ Reached(k) /\ d.conv # "lit" /\ ~CutShort(d)
  BY DEF Parsing, AtLetter
<1>2. IsDirective(d)
  BY <1>1, SeenAt
<1>3. /\ Len(L) = IF d.conv \in {"ll", "hh"} THEN 2 ELSE 1
      /\ L[1] = IF d.conv = "ll" THEN "l" ELSE IF d.conv = "hh" THEN "h" ELSE d.conv
  BY <1>1, <1>2, FirstLetter
<1>4. /\ letter = L[1] /\ (d.conv \in {"ll", "hh"} => next = letter)
      /\ d.conv \in {"l", "h"} => next # letter
  BY LetterIs
<1>5. d.conv # "" /\ d.conv # "0"
  BY <1>1, <1>2 DEF IsDirective, CutShort
<1> HIDE DEF d, L
<1>6. Conversion = d.conv
  BY <1>3, <1>4 DEF Conversion
<1>. QED BY <1>1, <1>2, <1>3, <1>4, <1>5, <1>6 DEF d, L

\* The argument that va_arg gives is that of the directive.
LEMMA ArgumentIs ==
    ASSUME PInv, phase # "idle", NEW k, Parsing(k), TakesArg(call.dirs[k + 1])
    PROVE  args[argn + 1] = call.dirs[k + 1]
<1>1. k \in 0..(Len(call.dirs) - 1) /\ argn = Len(ArgsOf(First(call.dirs, k)))
  BY DEF Parsing, Reached
<1>2. IsFormat(call.dirs) /\ args = ArgsOf(call.dirs)
  BY RunningIs
<1>. QED BY <1>1, <1>2, ArgAt

\* A conversion is printed and its last letter passed.
LEMMA Finish ==
    ASSUME PInv, phase = "conv", NEW k, Parsing(k), AtLetter(call.dirs[k + 1]),
           ~Malformed(call.dirs[k + 1]),
           NEW n \in {0, 1}, n = (IF call.dirs[k + 1].conv \in {"ll", "hh"} THEN 1 ELSE 0),
           EndConversion(n),
           argn' = IF TakesArg(call.dirs[k + 1]) THEN argn + 1 ELSE argn,
           Writes(ring_buffer, ring_buffer', Rendered(call.dirs[k + 1])),
           UNCHANGED <<calls, fmt, args, shown, base>>
    PROVE  PInv'
<1> DEFINE d  == call.dirs[k + 1]
           sp == Len(Spelled(d))
           a  == Ahead(d)
           l  == Len(Letters(d.conv))
<1>1. k \in 0..(Len(call.dirs) - 1) /\ Reached(k) /\ d.conv # "lit"
  BY DEF Parsing
<1>2. a \in Nat /\ sp = a + l /\ sp + 1 < UCHAR
  BY <1>1, SeenAt
<1>3. l = IF d.conv \in {"ll", "hh"} THEN 2 ELSE 1
  BY ConversionIs
<1>4. fs.consumed = a
  BY LetterIs
<1>5. UCHAR \in Nat \ {0} /\ \A x \in Nat, m \in Nat \ {0} : x < m => x % m = x
  BY WidthAssumption
<1>6. phase' = "print" /\ i' = i + ((a + n + 1) % UCHAR)
  BY <1>4 DEF EndConversion
<1> HIDE DEF sp, a, l
<1>7. a + n + 1 = sp
  BY <1>2, <1>3
<1>8. sp \in Nat /\ sp < UCHAR
  BY <1>2, <1>3, <1>5
<1>9. i' = i + sp
  BY <1>5, <1>6, <1>7, <1>8
<1>10. k # Len(call.dirs)
  <2>1. Len(call.dirs) \in Nat
    BY RunningIs
  <2>. QED BY <1>1, <2>1
<1>. QED BY <1>1, <1>6, <1>9, <1>10, Advance DEF sp

LEMMA ConvIs ==
    ASSUME PInv, phase = "conv"
    PROVE  \E k : /\ Parsing(k) /\ ring_buffer \in SoundRing
                  /\ letter # "0" => AtLetter(call.dirs[k + 1])
<1>1. PICK k : Parsing(k)
  BY DEF PInv, Standing
<1>2. letter # "0" => AtLetter(call.dirs[k + 1])
  <2>1. AtWidth(call.dirs[k + 1]) => letter = "0"
    BY <1>1, LetterIs
  <2>. QED BY <1>1, <2>1 DEF Parsing
<1>3. ring_buffer \in SoundRing
  BY RunningIs
<1>. QED BY <1>1, <1>2, <1>3

LEMMA PercentKeeps ==
    ASSUME PInv, Percent
    PROVE  PInv'
<1>1. phase = "conv" /\ letter = "%" /\ fs.consumed = 1
      /\ ring_buffer' = ring_buffer_write_char(ring_buffer, "%") /\ EndConversion(0)
      /\ UNCHANGED <<calls, fmt, args, argn, shown, base>>
  BY DEF Percent
<1>2. PICK k : Parsing(k) /\ ring_buffer \in SoundRing /\ AtLetter(call.dirs[k + 1])
  BY <1>1, ConvIs
<1> DEFINE d == call.dirs[k + 1]
<1>3. d.conv = "%" /\ d.width = -1
  <2>1. letter = IF d.conv = "ll" THEN "l" ELSE IF d.conv = "hh" THEN "h" ELSE d.conv
    BY <1>1, <1>2, ConversionIs
  <2>2. fs.consumed = 1 <=> d.width = -1
    BY <1>1, <1>2, LetterIs
  <2> HIDE DEF d
  <2>. QED BY <1>1, <2>1, <2>2
<1>4. ~TakesArg(d) /\ ~Malformed(d) /\ Rendered(d) = <<"%">>
  BY <1>3 DEF TakesArg, Malformed, Rendered, Base
<1>5. Writes(ring_buffer, ring_buffer', Rendered(d))
  BY <1>1, <1>2, <1>4, CharWrites, DigitsAreChars
<1>6. 0 \in {0, 1} /\ 0 = (IF d.conv \in {"ll", "hh"} THEN 1 ELSE 0)
      /\ argn' = IF TakesArg(d) THEN argn + 1 ELSE argn
  BY <1>1, <1>3, <1>4
<1>. QED BY <1>1, <1>2, <1>4, <1>5, <1>6, Finish

LEMMA WriteNumberKeeps ==
    ASSUME PInv, WriteNumber
    PROVE  PInv'
<1> DEFINE value == ArgValue(Conversion, args[argn + 1].arg)
           b     == NumberBase(Conversion)
           pad   == IF padded THEN fs.size - get_number_len(value, b) ELSE 0
           str   == Zeros(pad) \o ring_buffer_write_number(value, b)
<1>1. phase = "conv" /\ letter \in {"d", "i", "l", "h", "u", "x", "o"}
      /\ ring_buffer' = ring_buffer_write_string(ring_buffer, str)
      /\ argn' = argn + 1 /\ EndConversion(IF Conversion \in {"ll", "hh"} THEN 1 ELSE 0)
      /\ UNCHANGED <<calls, fmt, args, fs, shown, ret, dst, base>>
  BY DEF WriteNumber
<1>2. PICK k : Parsing(k) /\ ring_buffer \in SoundRing /\ AtLetter(call.dirs[k + 1])
  BY <1>1, ConvIs
<1> DEFINE d == call.dirs[k + 1]
           w == IF d.width = -1 THEN 0 ELSE d.width % UCHAR
<1>3. /\ Conversion = d.conv /\ IsDirective(d)
      /\ letter = IF d.conv = "ll" THEN "l" ELSE IF d.conv = "hh" THEN "h" ELSE d.conv
  BY <1>1, <1>2, ConversionIs
<1>4. d.conv \in {"d", "i", "l", "ll", "h", "hh", "u", "x", "o"}
  <2> HIDE DEF d
  <2>. QED BY <1>1, <1>3
<1>5. d.conv \in DOMAIN Base /\ d.conv # "p"
  BY <1>4 DEF Base
<1>6. TakesArg(d) /\ ~Malformed(d)
  <2>1. d.conv \notin {"s", "c", "%", "lit"}
    BY <1>4
  <2>. QED BY <1>5, <2>1 DEF TakesArg, Malformed
<1>7. args[argn + 1] = d
  BY <1>1, <1>2, <1>6, ArgumentIs
<1>8. fs.size = w /\ (padded <=> fs.size # 0)
  BY <1>1, <1>2, LetterIs
<1>9. w \in Nat
  BY <1>3, WidthAssumption DEF IsDirective
<1> DEFINE full == Zeros(w - get_number_len(value, b)) \o ring_buffer_write_number(value, b)
<1>10. /\ Rendered(d) = (IF d.conv = "p" THEN <<"0", "x">> ELSE <<>>) \o full
       /\ full \in Seq(Char)
       /\ w = 0 => full = Zeros(0) \o ring_buffer_write_number(value, b)
  BY <1>3, <1>5, <1>7, <1>9, NumberText
<1>11. str = full
  <2>1. CASE padded
    <3>1. pad = w - get_number_len(value, b)
      BY <1>8, <2>1
    <3>. QED BY <3>1
  <2>2. CASE ~padded
    <3>1. w = 0 /\ pad = 0
      BY <1>8, <2>2
    <3> HIDE DEF full, pad
    <3>. QED BY <1>10, <3>1
  <2>. QED BY <2>1, <2>2
<1> HIDE DEF full, str
<1>12. Rendered(d) = full
  <2>1. <<>> \o full = full
    BY <1>10
  <2>. QED BY <1>5, <1>10, <2>1
<1>13. Writes(ring_buffer, ring_buffer', Rendered(d))
  BY <1>1, <1>2, <1>10, <1>11, <1>12, StringWrites
<1> DEFINE n == IF d.conv \in {"ll", "hh"} THEN 1 ELSE 0
<1>14. n \in {0, 1} /\ EndConversion(n) /\ argn' = IF TakesArg(d) THEN argn + 1 ELSE argn
  BY <1>1, <1>3, <1>6
<1>. QED BY <1>1, <1>2, <1>6, <1>13, <1>14, Finish

LEMMA WritePointerKeeps ==
    ASSUME PInv, WritePointer
    PROVE  PInv'
<1> DEFINE value == ArgValue("p", args[argn + 1].arg)
           z     == Zeros(fs.size - get_number_len(value, 16))
           q     == ring_buffer_write_number(value, 16)
           str   == <<"0", "x">> \o z \o q
<1>1. phase = "conv" /\ letter = "p"
      /\ ring_buffer' = ring_buffer_write_string(ring_buffer, str)
      /\ argn' = argn + 1 /\ EndConversion(0)
      /\ UNCHANGED <<calls, fmt, args, fs, shown, ret, dst, base>>
  BY DEF WritePointer
<1>2. PICK k : Parsing(k) /\ ring_buffer \in SoundRing /\ AtLetter(call.dirs[k + 1])
  BY <1>1, ConvIs
<1> DEFINE d == call.dirs[k + 1]
           w == IF d.width = -1 THEN 0 ELSE d.width % UCHAR
<1>3. /\ IsDirective(d)
      /\ letter = IF d.conv = "ll" THEN "l" ELSE IF d.conv = "hh" THEN "h" ELSE d.conv
  BY <1>1, <1>2, ConversionIs
<1>4. d.conv = "p"
  <2> HIDE DEF d
  <2>. QED BY <1>1, <1>3
<1>5. d.conv \in DOMAIN Base
  BY <1>4 DEF Base
<1>6. TakesArg(d) /\ ~Malformed(d)
  BY <1>4, <1>5 DEF TakesArg, Malformed
<1>7. args[argn + 1] = d
  BY <1>1, <1>2, <1>6, ArgumentIs
<1>8. fs.size = w
  BY <1>1, <1>2, LetterIs
<1>9. w \in Nat
  BY <1>3, WidthAssumption DEF IsDirective
<1>a. NumberBase(d.conv) = 16 /\ value = ArgValue(d.conv, d.arg)
  BY <1>4, <1>7 DEF NumberBase
<1> DEFINE full == z \o q
<1>10. Rendered(d) = <<"0", "x">> \o full /\ full \in Seq(Char)
  <2> DEFINE v == ArgValue(d.conv, d.arg)
             b == NumberBase(d.conv)
             f == Zeros(w - get_number_len(v, b)) \o ring_buffer_write_number(v, b)
  <2>1. Rendered(d) = (IF d.conv = "p" THEN <<"0", "x">> ELSE <<>>) \o f /\ f \in Seq(Char)
    BY <1>3, <1>5, <1>9, NumberText
  <2>2. f = full
    <3> HIDE DEF value, w, d
    <3>. QED BY <1>8, <1>a
  <2> HIDE DEF f, full
  <2>. QED BY <1>4, <2>1, <2>2
<1>11. z \in Seq(Char) /\ q \in Seq(Char) /\ <<"0", "x">> \in Seq(Char)
  <2>1. q = Numeral(value, 16) /\ q \in Seq(Digits) /\ get_number_len(value, 16) \in Nat
    <3>1. value \in Nat /\ 16 \in 2..16
      <4>1. d.arg \in Int
        BY <1>3, <1>5 DEF IsDirective
      <4>. QED BY <1>5, <1>a, <4>1, ArgValueIs
    <3> HIDE DEF value
    <3>. QED BY <3>1, WriteNumberIs, NumberLenIs, NumeralType
  <2>2. z \in Seq(Char)
    <3>1. fs.size - get_number_len(value, 16) \in Int
      BY <1>8, <1>9, <2>1
    <3>. QED BY <3>1, ZerosType
  <2>. QED BY <2>1, <2>2, DigitsAreChars
<1>12. str = <<"0", "x">> \o full
  <2> HIDE DEF z, q
  <2>. QED BY <1>11, ConcatAssociative
<1>13. str \in Seq(Char)
  <2> HIDE DEF str, full
  <2>. QED BY <1>10, <1>11, <1>12, ConcatProperties
<1> HIDE DEF full, str
<1>14. Writes(ring_buffer, ring_buffer', Rendered(d))
  BY <1>1, <1>2, <1>10, <1>12, <1>13, StringWrites
<1>15. 0 \in {0, 1} /\ 0 = (IF d.conv \in {"ll", "hh"} THEN 1 ELSE 0)
       /\ argn' = IF TakesArg(d) THEN argn + 1 ELSE argn
  BY <1>1, <1>4, <1>6
<1>. QED BY <1>1, <1>2, <1>6, <1>14, <1>15, Finish

LEMMA WriteStringKeeps ==
    ASSUME PInv, WriteString
    PROVE  PInv'
<1>1. phase = "conv" /\ letter = "s" /\ ~padded
      /\ ring_buffer' = ring_buffer_write_string(ring_buffer, args[argn + 1].arg)
      /\ argn' = argn + 1 /\ EndConversion(0)
      /\ UNCHANGED <<calls, fmt, args, shown, base>>
  BY DEF WriteString
<1>2. PICK k : Parsing(k) /\ ring_buffer \in SoundRing /\ AtLetter(call.dirs[k + 1])
  BY <1>1, ConvIs
<1> DEFINE d == call.dirs[k + 1]
<1>3. /\ IsDirective(d)
      /\ letter = IF d.conv = "ll" THEN "l" ELSE IF d.conv = "hh" THEN "h" ELSE d.conv
  BY <1>1, <1>2, ConversionIs
<1>4. d.conv = "s"
  <2> HIDE DEF d
  <2>. QED BY <1>1, <1>3
<1>5. /\ fs.size = IF d.width = -1 THEN 0 ELSE d.width % UCHAR
      /\ padded <=> fs.size # 0
  BY <1>1, <1>2, LetterIs
<1>6. TakesArg(d) /\ Rendered(d) = d.arg
  BY <1>4 DEF TakesArg, Rendered, Base
<1>7. ~Malformed(d)
  <2>1. ~(d.width > 0 /\ d.width % UCHAR # 0)
    BY <1>1, <1>5
  <2>. QED BY <1>4, <2>1 DEF Malformed
<1>8. args[argn + 1] = d
  BY <1>1, <1>2, <1>6, ArgumentIs
<1>9. d.arg \in Seq(Char)
  <2>1. d.arg \in Seq(Char \ {NUL})
    BY <1>3, <1>4 DEF IsDirective
  <2>. QED BY <2>1
<1>10. Writes(ring_buffer, ring_buffer', Rendered(d))
  BY <1>1, <1>2, <1>6, <1>8, <1>9, StringWrites
<1>11. 0 \in {0, 1} /\ 0 = (IF d.conv \in {"ll", "hh"} THEN 1 ELSE 0)
       /\ argn' = IF TakesArg(d) THEN argn + 1 ELSE argn
  BY <1>1, <1>4, <1>6
<1>. QED BY <1>1, <1>2, <1>7, <1>10, <1>11, Finish

LEMMA WriteCharKeeps ==
    ASSUME PInv, WriteChar
    PROVE  PInv'
<1>1. phase = "conv" /\ letter = "c" /\ ~padded
      /\ ring_buffer' = ring_buffer_write_char(ring_buffer, args[argn + 1].arg)
      /\ argn' = argn + 1 /\ EndConversion(0)
      /\ UNCHANGED <<calls, fmt, args, shown, base>>
  BY DEF WriteChar
<1>2. PICK k : Parsing(k) /\ ring_buffer \in SoundRing /\ AtLetter(call.dirs[k + 1])
  BY <1>1, ConvIs
<1> DEFINE d == call.dirs[k + 1]
<1>3. /\ IsDirective(d)
      /\ letter = IF d.conv = "ll" THEN "l" ELSE IF d.conv = "hh" THEN "h" ELSE d.conv
  BY <1>1, <1>2, ConversionIs
<1>4. d.conv = "c"
  <2> HIDE DEF d
  <2>. QED BY <1>1, <1>3
<1>5. /\ fs.size = IF d.width = -1 THEN 0 ELSE d.width % UCHAR
      /\ padded <=> fs.size # 0
  BY <1>1, <1>2, LetterIs
<1>6. TakesArg(d) /\ Rendered(d) = <<d.arg>>
  BY <1>4 DEF TakesArg, Rendered, Base
<1>7. ~Malformed(d)
  <2>1. ~(d.width > 0 /\ d.width % UCHAR # 0)
    BY <1>1, <1>5
  <2>. QED BY <1>4, <2>1 DEF Malformed
<1>8. args[argn + 1] = d
  BY <1>1, <1>2, <1>6, ArgumentIs
<1>9. d.arg \in Char
  BY <1>3, <1>4 DEF IsDirective
<1>10. Writes(ring_buffer, ring_buffer', Rendered(d))
  BY <1>1, <1>2, <1>6, <1>8, <1>9, CharWrites
<1>11. 0 \in {0, 1} /\ 0 = (IF d.conv \in {"ll", "hh"} THEN 1 ELSE 0)
       /\ argn' = IF TakesArg(d) THEN argn + 1 ELSE argn
  BY <1>1, <1>4, <1>6
<1>. QED BY <1>1, <1>2, <1>7, <1>10, <1>11, Finish

LEMMA RefuseKeeps ==
    ASSUME PInv, Refuse
    PROVE  PInv'
<1>1. phase = "conv" /\ phase' = "return" /\ ret' = -1
      /\ UNCHANGED <<calls, fmt, args, i, fs, argn, ring_buffer, shown, dst, base>>
      /\ \/ letter = "%" /\ fs.consumed # 1
         \/ letter \in {"s", "c"} /\ padded
         \/ letter \notin {"%", "0", "d", "i", "l", "h", "u", "p", "x", "o", "s", "c"}
  BY DEF Refuse
<1>2. PICK k : Parsing(k) /\ AtLetter(call.dirs[k + 1])
  <2>1. letter # "0"
    BY <1>1
  <2>. QED BY <1>1, <2>1, ConvIs
<1> DEFINE d == call.dirs[k + 1]
<1>3. /\ IsDirective(d) /\ d.conv \notin {"", "0", "lit"}
      /\ letter = IF d.conv = "ll" THEN "l" ELSE IF d.conv = "hh" THEN "h" ELSE d.conv
  BY <1>1, <1>2, ConversionIs
<1>4. /\ fs.size = IF d.width = -1 THEN 0 ELSE d.width % UCHAR
      /\ padded <=> fs.size # 0
      /\ fs.consumed = 1 <=> d.width = -1
  BY <1>1, <1>2, LetterIs
<1>5. d.width \in Nat \cup {-1} /\ UCHAR \in Nat \ {0} /\ 0 % UCHAR = 0
  <2>1. \A m \in Nat \ {0} : 0 % m = 0
    OBVIOUS
  <2>. QED BY <1>3, <2>1, WidthAssumption DEF IsDirective
<1>6. ~CutShort(d)
  BY <1>2 DEF AtLetter
<1>7. Malformed(d)
  <2> HIDE DEF d
  <2>1. CASE letter = "%" /\ fs.consumed # 1
    <3>1. d.conv = "%" /\ d.width # -1
      BY <1>3, <1>4, <2>1
    <3>. QED BY <1>3, <1>6, <3>1 DEF Malformed
  <2>2. CASE letter \in {"s", "c"} /\ padded
    <3>1. d.conv \in {"s", "c"} /\ d.width # -1 /\ d.width % UCHAR # 0
      BY <1>3, <1>4, <2>2
    <3>2. d.width > 0
      BY <1>5, <3>1
    <3>. QED BY <1>3, <1>6, <3>1, <3>2 DEF Malformed
  <2>3. CASE letter \notin {"%", "0", "d", "i", "l", "h", "u", "p", "x", "o", "s", "c"}
    <3>1. d.conv \notin {"d", "i", "l", "ll", "h", "hh", "u", "x", "o", "p"} /\ d.conv \notin {"s", "c", "%"}
      BY <1>3, <2>3
    <3>2. d.conv \notin DOMAIN Base \cup {"s", "c", "%"}
      BY <3>1 DEF Base
    <3>. QED BY <1>3, <1>6, <3>2 DEF Malformed
  <2>. QED BY <1>1, <2>1, <2>2, <2>3
<1>8. Reached(k)' /\ call' = call /\ k \in 0..(Len(call.dirs) - 1)
  BY <1>1, <1>2, ReachedStays DEF call, Parsing
<1>9. Returning(k)'
  BY <1>1, <1>7, <1>8 DEF Returning
<1>10. Standing'
  BY <1>1, <1>9 DEF Standing
<1>. QED BY <1>1, <1>10, StandStill

\* A call returns: the next one starts with a sound ring.
LEMMA ReturnStands ==
    ASSUME PInv, phase = "return", Done, base' = base, ring_buffer' \in SoundRing
    PROVE  PInv'
<1>1. Tail(calls) \in Seq(Made) /\ base.ring \in SoundRing
  BY RunningIs
<1>2. phase' = "idle" /\ calls' = Tail(calls)
  BY DEF Done
<1>3. RingsSound'
  BY <1>1 DEF RingsSound
<1>4. Prepared' /\ Standing'
  BY <1>2 DEF Prepared, Standing
<1>. QED BY <1>1, <1>2, <1>3, <1>4 DEF PInv

LEMMA ReturnKeeps ==
    ASSUME PInv, ReturnLog \/ ReturnPrintf \/ ReturnSprintf
    PROVE  PInv'
<1>1. phase = "return" /\ Done /\ base' = base
  BY DEF ReturnLog, ReturnPrintf, ReturnSprintf
<1>2. ring_buffer \in SoundRing
  BY <1>1, RunningIs
<1>3. CASE ReturnLog
  <2>1. ring_buffer' = ring_buffer
    BY <1>3 DEF ReturnLog
  <2>. QED BY <1>1, <1>2, <2>1, ReturnStands
<1>4. CASE ReturnPrintf
  <2>1. ring_buffer' = init_ring_buffer
    BY <1>2, <1>4, ResetIsInit DEF ReturnPrintf
  <2>. QED BY <1>1, <2>1, InitSound, ReturnStands
<1>5. CASE ReturnSprintf
  <2>1. ret >= 0 /\ ring_buffer' = ring_buffer_rewind(ring_buffer, ret)
    BY <1>5 DEF ReturnSprintf
  <2>2. ret = -1 \/ ret = Len(fmt)
    BY <1>1 DEF PInv, Standing, Returning
  <2>3. ret \in Nat
    BY <1>1, <2>1, <2>2, RunningIs
  <2>. QED BY <1>1, <1>2, <2>1, <2>3, RewindSound, ReturnStands
<1>. QED BY <1>3, <1>4, <1>5

LEMMA FaultKeeps ==
    ASSUME PInv, FaultSprintf
    PROVE  PInv'
<1>1. phase = "return" /\ phase' = "fault"
      /\ UNCHANGED <<calls, fmt, args, i, fs, argn, ring_buffer, shown, ret, dst, base>>
  BY DEF FaultSprintf
<1>2. Standing'
  BY <1>1 DEF Standing
<1>. QED BY <1>1, <1>2, StandStill

LEMMA StutterKeeps ==
    ASSUME PInv, UNCHANGED printVars
    PROVE  PInv'
<1>1. UNCHANGED <<calls, phase, fmt, args, i, fs, argn, ring_buffer, shown, ret, dst, base>>
  BY DEF printVars
<1>2. call' = call /\ Dropping' = Dropping /\ Pending' = Pending
  BY <1>1 DEF call, Dropping, Pending, Shows
<1>3. ASSUME NEW k PROVE Reached(k)' <=> Reached(k)
  BY <1>1, <1>2 DEF Reached, Kept
<1>4. ASSUME NEW k PROVE (Parsing(k)' <=> Parsing(k)) /\ (Returning(k)' <=> Returning(k))
  BY <1>1, <1>2, <1>3 DEF Parsing, Returning, AtWidth, AtLetter
<1>5. Standing'
  BY <1>1, <1>2, <1>3, <1>4 DEF PInv, Standing
<1>6. RingsSound' /\ Prepared'
  BY <1>1, <1>2 DEF PInv, RingsSound, Prepared, Shows
<1>. QED BY <1>1, <1>5, <1>6 DEF PInv

\* Every step of print keeps it.
LEMMA PrintInductive == PInv /\ [PrintNext]_printVars => PInv'
<1>1. PInv /\ Call => PInv'
  BY CallKeeps
<1>2. PInv /\ (PrintEnd \/ PrintAstray \/ PrintChar \/ PrintConversion) => PInv'
  BY PrintEndKeeps, PrintAstrayKeeps, PrintCharKeeps, PrintConversionKeeps
<1>3. PInv /\ (Percent \/ Zero \/ WriteNumber \/ WritePointer) => PInv'
  BY PercentKeeps, ZeroKeeps, WriteNumberKeeps, WritePointerKeeps
<1>4. PInv /\ (WriteString \/ WriteChar \/ Refuse) => PInv'
  BY WriteStringKeeps, WriteCharKeeps, RefuseKeeps
<1>5. PInv /\ (ReturnLog \/ ReturnPrintf \/ ReturnSprintf) => PInv'
  BY ReturnKeeps
<1>6. PInv /\ FaultSprintf => PInv'
  BY FaultKeeps
<1>7. PInv /\ UNCHANGED printVars => PInv'
  BY StutterKeeps
<1>. QED BY <1>1, <1>2, <1>3, <1>4, <1>5, <1>6, <1>7 DEF PrintNext

LEMMA PrintInvariant == PrintSpec => []PInv
  BY PrintInitHolds, PrintInductive, PTL DEF PrintSpec

(***************************************************************************)
(* What print promises.                                                    *)
(***************************************************************************)
\* Where the first malformed directive stands.
LEMMA PrefixIs ==
    ASSUME NEW ds, IsFormat(ds), NEW k \in 0..Len(ds), \A j \in 1..k : ~Malformed(ds[j]),
           k # Len(ds) => Malformed(ds[k + 1])
    PROVE  ValidPrefix(ds) = First(ds, k) /\ (WellFormed(ds) <=> k = Len(ds))
<1> DEFINE V == {n \in DOMAIN ds : \A j \in 1..n : ~Malformed(ds[j])}
           L == Len(ds)
<1>1. L \in Nat /\ DOMAIN ds = 1..L /\ k \in 0..L /\ (k # L => Malformed(ds[k + 1]))
  BY FormatParts
<1> HIDE DEF L
<1>2. V = 1..k
  <2>1. ASSUME NEW n \in 1..k PROVE n \in V
    <3>1. n \in 1..L /\ \A j \in 1..n : j \in 1..k
      BY <1>1
    <3>. QED BY <1>1, <3>1
  <2>2. ASSUME NEW n \in V, n \notin 1..k PROVE FALSE
    <3>1. n \in 1..L
      BY <1>1, <2>2
    <3>2. k # L /\ k + 1 \in 1..n
      BY <1>1, <2>2, <3>1
    <3>. QED BY <1>1, <2>2, <3>2
  <2> HIDE DEF V
  <2>. QED BY <2>1, <2>2
<1>3. Cardinality(V) = k
  <2>1. Cardinality(1..k) = IF 1 > k THEN 0 ELSE k - 1 + 1
    <3>1. 1 \in Int /\ k \in Int
      BY <1>1
    <3>. QED BY <3>1, FS_Interval
  <2> HIDE DEF V
  <2>2. k \in Nat
    BY <1>1
  <2>. QED BY <1>2, <2>1, <2>2
<1>4. ValidPrefix(ds) = First(ds, k)
  BY <1>3 DEF ValidPrefix, First
<1>5. WellFormed(ds) <=> k = L
  <2>1. CASE k = L
    BY <1>1, <2>1 DEF WellFormed
  <2>2. CASE k # L
    <3>1. k + 1 \in DOMAIN ds /\ Malformed(ds[k + 1])
      BY <1>1, <2>2
    <3>. QED BY <2>2, <3>1 DEF WellFormed
  <2>. QED BY <2>1, <2>2
<1>. QED BY <1>4, <1>5 DEF L

\* The state in which print returns.
LEMMA ReturnIs ==
    ASSUME PInv, phase = "return"
    PROVE  LET ds == call.dirs
               p  == ValidPrefix(ds)
           IN  /\ IsFormat(ds) /\ fmt = Format(ds) /\ Len(fmt) \in Nat
               /\ ret = -1 \/ ret = Len(fmt)
               /\ ret = -1 <=> ~WellFormed(ds)
               /\ WellFormed(ds) => p = ds
               /\ Text(p) \in Seq(Char)
               /\ Dropping => ring_buffer = base.ring
               /\ ~Dropping => Holds(ring_buffer, Take(Pending \o Text(p), Capacity))
<1> DEFINE ds == call.dirs
<1>1. IsFormat(ds) /\ fmt = Format(ds) /\ Len(fmt) \in Nat /\ Len(ds) \in Nat /\ First(ds, Len(ds)) = ds
  BY RunningIs
<1>2. PICK k : Returning(k)
  BY DEF PInv, Standing
<1>3. /\ k \in 0..Len(ds) /\ (\A j \in 1..k : ~Malformed(ds[j])) /\ Kept(k)
      /\ \/ k \in 0..(Len(ds) - 1) /\ Malformed(ds[k + 1]) /\ ret = -1
         \/ k = Len(ds) /\ ret = Len(fmt)
  BY <1>2 DEF Returning, Reached
<1>4. /\ k # Len(ds) => Malformed(ds[k + 1]) /\ ret = -1
      /\ k = Len(ds) => ret = Len(fmt)
  BY <1>1, <1>3
<1>5. ValidPrefix(ds) = First(ds, k) /\ (WellFormed(ds) <=> k = Len(ds))
  BY <1>1, <1>3, <1>4, PrefixIs
<1>6. Text(First(ds, k)) \in Seq(Char)
  BY <1>1, <1>3, TextType
<1>7. ret = -1 <=> k # Len(ds)
  BY <1>1, <1>4
<1>. QED BY <1>1, <1>3, <1>4, <1>5, <1>6, <1>7 DEF Kept

\* Whatever the format, its arguments and the ring it starts with, print leaves in the
\* ring what was pending and then the text that its directives stand for, up to the
\* first one it refuses and cut at the capacity, and returns -1 exactly when it refuses
\* one (printf.c:307-650).
THEOREM PrintCorrect == PrintSpec => []PrintExact
<1>1. PInv => PrintExact
  <2>1. SUFFICES ASSUME PInv, phase = "return"
                 PROVE  /\ (ret = -1) = ~WellFormed(call.dirs)
                        /\ Shows(ring_buffer) =
                              IF Dropping THEN Shows(base.ring)
                              ELSE Take(Pending \o Text(ValidPrefix(call.dirs)), Capacity)
    BY DEF PrintExact
  <2>2. ret = -1 <=> ~WellFormed(call.dirs)
    BY <2>1, ReturnIs
  <2>3. CASE Dropping
    BY <2>1, <2>2, <2>3, ReturnIs
  <2>4. CASE ~Dropping
    <3>1. Holds(ring_buffer, Take(Pending \o Text(ValidPrefix(call.dirs)), Capacity))
      BY <2>1, <2>4, ReturnIs
    <3>. QED BY <2>2, <2>4, <3>1, HoldsShows
  <2>. QED BY <2>3, <2>4
<1>. QED BY <1>1, PrintInvariant, PTL

\* Whenever the loop of print goes on, it has passed whole directives and taken one
\* argument for each of them that has one (printf.c:371-605, 636-646).
THEOREM ArgsCorrect == PrintSpec => []ArgsInStep
<1>1. PInv => ArgsInStep
  <2>1. SUFFICES ASSUME PInv, phase = "print", i <= Len(fmt)
                 PROVE  \E k \in 0..Len(call.dirs) :
                            LET passed == SubSeq(call.dirs, 1, k)
                            IN  /\ Len(Format(passed)) = i
                                /\ Len(ArgsOf(passed)) = argn
    BY DEF ArgsInStep
  <2>2. Len(fmt) \in Nat
    BY <2>1, RunningIs
  <2>3. PICK k : Reached(k)
    BY <2>1, <2>2 DEF PInv, Standing
  <2>4. k \in 0..Len(call.dirs)
    BY <2>3 DEF Reached
  <2>. QED BY <2>3, <2>4 DEF Reached, First
<1>. QED BY <1>1, PrintInvariant, PTL

\* print reads beyond its format in one case alone: the format ends inside a conversion
\* (printf.c:330-346, 616-620).
THEOREM InsideCorrect == PrintSpec => []StaysInside
<1>1. PInv => StaysInside
  <2>1. SUFFICES ASSUME PInv, phase = "astray" \/ (phase = "print" /\ i > Len(fmt))
                 PROVE  EndsInside(call.dirs)
    BY DEF StaysInside
  <2>2. CASE phase = "astray"
    BY <2>1, <2>2 DEF PInv, Standing
  <2>3. CASE phase = "print" /\ i > Len(fmt)
    <3>1. Len(fmt) \in Nat
      BY <2>1, <2>3, RunningIs
    <3>2. ASSUME NEW k, Reached(k) PROVE FALSE
      <4>1. i \in Nat /\ i <= Len(fmt)
        BY <2>1, <2>3, <3>2, ReachedIs
      <4>. QED BY <2>3, <3>1, <4>1
    <3>. QED BY <2>1, <2>3, <3>2 DEF PInv, Standing
  <2>. QED BY <2>1, <2>2, <2>3
<1>. QED BY <1>1, PrintInvariant, PTL

\* printf sends the pending log, then its own text, and leaves the ring of boot
\* (printf.c:195-222, 657-672).
THEOREM FlushesCorrect == PrintSpec => PrintfFlushes
<1> DEFINE P == ReturnPrintf =>
                    /\ ring_buffer' = init_ring_buffer
                    /\ shown' = base.shown \o Shows(base.ring)
                                \o Take(Text(ValidPrefix(call.dirs)), Capacity)
<1>1. PInv /\ [PrintNext]_printVars => P
  <2>1. SUFFICES ASSUME PInv, ReturnPrintf
                 PROVE  /\ ring_buffer' = init_ring_buffer
                        /\ shown' = base.shown \o Shows(base.ring)
                                    \o Take(Text(ValidPrefix(call.dirs)), Capacity)
    OBVIOUS
  <2>2. /\ phase = "return" /\ call.fn = "printf"
        /\ shown' = shown \o Flushed(ring_buffer) /\ ring_buffer' = Reset(ring_buffer)
    BY <2>1 DEF ReturnPrintf
  <2>3. ring_buffer \in SoundRing /\ shown = base.shown \o Shows(base.ring)
    BY <2>1, <2>2, RunningIs
  <2> DEFINE t == Text(ValidPrefix(call.dirs))
  <2>4. t \in Seq(Char) /\ (~Dropping => Holds(ring_buffer, Take(Pending \o t, Capacity)))
    BY <2>1, <2>2, ReturnIs
  <2>5. ~Dropping /\ Pending = <<>>
    BY <2>2 DEF Dropping, Pending
  <2> HIDE DEF t
  <2>6. <<>> \o t = t
    BY <2>4
  <2>7. Flushed(ring_buffer) = Take(t, Capacity)
    BY <2>4, <2>5, <2>6, HoldsShows
  <2>. QED BY <2>2, <2>3, <2>7, ResetIsInit DEF t
<1>2. [][P]_printVars <=> PrintfFlushes
  BY DEF PrintfFlushes
<1> HIDE DEF P
<1>. QED BY <1>1, <1>2, PrintInvariant, PTL DEF PrintSpec

\* What memcpy finds below end, and what taking it back leaves: the two parts of the text.
LEMMA TakenBack ==
    ASSUME NEW r, NEW p \in Seq(Char), NEW t \in Seq(Char), Holds(r, p \o t),
           Len(p) + Len(t) <= Capacity, NEW m \in Nat, m <= Len(t)
    PROVE  /\ Memory(r.buf, r.end - Len(t), m) = SubSeq(t, 1, m)
           /\ Shows(ring_buffer_rewind(r, Len(t))) = p
<1> DEFINE w == p \o t
           e == Len(p)
           n == Len(t)
           new == ring_buffer_rewind(r, n)
<1>1. e \in Nat /\ n \in Nat /\ e + n <= Capacity
  OBVIOUS
<1>2. /\ w \in Seq(Char) /\ Len(w) = e + n
      /\ \A k \in 1..(e + n) : w[k] = IF k <= e THEN p[k] ELSE t[k - e]
  BY ConcatProperties
<1>3. r \in SoundRing /\ r.end = Len(w) /\ \A k \in 1..r.end : w[k] = r.buf[k - 1]
  BY DEF Holds
<1>4. r.buf \in [0..BUF_MAX -> Char] /\ Capacity = BUF_MAX - 1 /\ BUF_MAX \in Nat
  BY <1>3, RingFields, CapacityIs DEF SoundRing
<1>5. p = [k \in 1..e |-> p[k]] /\ SubSeq(t, 1, m) = [k \in 1..m |-> t[k]]
  <2>1. p = [k \in 1..e |-> p[k]]
    OBVIOUS
  <2>2. m - 1 + 1 = m /\ \A k \in 1..m : k + 1 - 1 = k
    OBVIOUS
  <2>. QED BY <2>1, <2>2
<1> HIDE DEF w, e, n
<1>6. m <= n
  BY DEF n
<1>7. ASSUME NEW k \in 1..e PROVE r.buf[k - 1] = p[k] /\ k - 1 \in 0..BUF_MAX /\ ~(e <= k - 1)
  <2>1. k \in 1..(e + n) /\ k <= e
    BY <1>1
  <2>. QED BY <1>1, <1>2, <1>3, <1>4, <2>1
<1>8. ASSUME NEW k \in 1..m PROVE r.buf[e + k - 1] = t[k] /\ e + k - 1 \in 0..BUF_MAX
  <2>1. e + k \in 1..(e + n) /\ ~(e + k <= e) /\ (e + k) - e = k
    BY <1>1, <1>6
  <2>2. w[e + k] = t[k] /\ w[e + k] = r.buf[(e + k) - 1]
    BY <1>2, <1>3, <2>1
  <2>3. (e + k) - 1 = e + k - 1 /\ e + k - 1 \in 0..BUF_MAX
    BY <1>1, <1>4, <2>1
  <2>. QED BY <2>2, <2>3
<1>9. r.end - n = e
  BY <1>1, <1>2, <1>3
<1>10. Memory(r.buf, e, m) = [k \in 1..m |-> t[k]]
  <2>1. \A k \in 1..m : e + k - 1 \in DOMAIN r.buf /\ r.buf[e + k - 1] = t[k]
    BY <1>4, <1>8
  <2>. QED BY <2>1 DEF Memory
<1>11. new.end = e /\ new.buf = Cleared(r.buf, e, r.end)
  <2>1. ~(n >= BUF_MAX) /\ r.end >= n
    BY <1>1, <1>2, <1>3, <1>4
  <2>2. new = [r EXCEPT !.buf = Cleared(r.buf, e, r.end), !.end = e]
    BY <1>9, <2>1 DEF ring_buffer_rewind
  <2>3. r = [start |-> r.start, end |-> r.end, full |-> r.full, buf |-> r.buf]
    BY <1>3, RingFields DEF SoundRing
  <2>4. r \in [start : {r.start}, end : {r.end}, full : {r.full}, buf : {r.buf}]
    BY <2>3
  <2> DEFINE b == Cleared(r.buf, e, r.end)
  <2> HIDE DEF b, new
  <2>5. new.end = e /\ new.buf = b
    BY <2>2, <2>4 DEF b
  <2>. QED BY <2>5 DEF b
<1> HIDE DEF new
<1>12. Shows(new) = [k \in 1..e |-> p[k]]
  <2>1. \A k \in 1..e : 0 + k - 1 = k - 1
    BY <1>1
  <2>2. Shows(new) = [k \in 1..e |-> new.buf[k - 1]]
    BY <1>11, <2>1 DEF Shows, Slice
  <2>3. \A k \in 1..e : new.buf[k - 1] = p[k]
    BY <1>4, <1>7, <1>11 DEF Cleared
  <2>. QED BY <2>2, <2>3
<1>. QED BY <1>5, <1>9, <1>10, <1>12 DEF new, n

\* When the text is as long as its format and the ring has room for it, sprintf gives
\* the text, snprintf as much of it as fits before the terminator, and both leave the
\* pending log as it was (printf.c:230-251, 674-731).
THEOREM SprintfCorrect == PrintSpec => SprintfExact
<1> DEFINE P == (/\ ReturnSprintf /\ ~base.ring.full
                 /\ Len(Text(call.dirs)) = Len(fmt)
                 /\ base.ring.end + Len(fmt) <= Capacity) =>
                    /\ dst' = Take(Text(call.dirs),
                                   IF call.fn = "snprintf" THEN call.len - 1 ELSE Len(fmt))
                    /\ Shows(ring_buffer') = Shows(base.ring)
           t == Text(call.dirs)
           p == Shows(base.ring)
           n == Len(fmt)
<1>1. PInv /\ [PrintNext]_printVars => P
  <2>1. SUFFICES ASSUME PInv, ReturnSprintf, ~base.ring.full, Len(t) = n, base.ring.end + n <= Capacity
                 PROVE  /\ dst' = Take(t, IF call.fn = "snprintf" THEN call.len - 1 ELSE n)
                        /\ Shows(ring_buffer') = p
    OBVIOUS
  <2>2. /\ phase = "return" /\ call.fn \in {"sprintf", "snprintf"} /\ ret >= 0
        /\ dst' = Memory(ring_buffer.buf, ring_buffer.end - ret, ToCopy)
        /\ ring_buffer' = ring_buffer_rewind(ring_buffer, ret)
    BY <2>1 DEF ReturnSprintf
  <2>3. ~Dropping /\ Pending = p
    BY <2>1, <2>2 DEF Dropping, Pending
  <2>4. /\ n \in Nat /\ ret = n
        /\ t \in Seq(Char) /\ Holds(ring_buffer, Take(p \o t, Capacity))
    <3>1. n \in Nat /\ (ret = -1 \/ ret = n) /\ (ret = -1 <=> ~WellFormed(call.dirs))
      BY <2>1, <2>2, ReturnIs
    <3>2. ret = n /\ WellFormed(call.dirs)
      BY <2>2, <3>1
    <3>3. ValidPrefix(call.dirs) = call.dirs
      BY <2>1, <2>2, <3>2, ReturnIs
    <3>4. /\ Text(ValidPrefix(call.dirs)) \in Seq(Char)
          /\ Holds(ring_buffer, Take(Pending \o Text(ValidPrefix(call.dirs)), Capacity))
      BY <2>1, <2>2, <2>3, ReturnIs
    <3>. QED BY <2>3, <3>1, <3>2, <3>3, <3>4
  <2>5. p \in Seq(Char) /\ Len(p) = base.ring.end /\ IsCall(call)
    BY <2>1, <2>2, RunningIs, ShowsIs
  <2>6. ToCopy = IF call.fn = "snprintf" /\ n >= call.len THEN call.len - 1 ELSE n
    BY <2>4 DEF ToCopy
  <2> HIDE DEF t, p, n
  <2>7. Len(p) + Len(t) <= Capacity
    BY <2>1, <2>5
  <2>8. Holds(ring_buffer, p \o t)
    <3>1. p \o t \in Seq(Char) /\ Len(p \o t) = Len(p) + Len(t)
      BY <2>4, <2>5, ConcatProperties
    <3>2. Take(p \o t, Capacity) = p \o t
      BY <2>7, <3>1, TakeIs, CapacityIs
    <3>. QED BY <2>4, <3>2
  <2>9. /\ ToCopy \in Nat /\ ToCopy <= n
        /\ Take(t, IF call.fn = "snprintf" THEN call.len - 1 ELSE n) = SubSeq(t, 1, ToCopy)
    <3>1. call.fn = "snprintf" => call.len \in Nat \ {0}
      BY <2>5 DEF IsCall
    <3>2. CASE call.fn = "snprintf"
      <4>1. call.len \in Nat \ {0}
        BY <3>1, <3>2
      <4>2. Take(t, call.len - 1) = SubSeq(t, 1, IF n < call.len - 1 THEN n ELSE call.len - 1)
        BY <2>1 DEF Take
      <4>3. ToCopy = IF n < call.len - 1 THEN n ELSE call.len - 1
        BY <2>4, <2>6, <3>2, <4>1
      <4>. QED BY <2>4, <3>2, <4>1, <4>2, <4>3
    <3>3. CASE call.fn # "snprintf"
      <4>1. Take(t, n) = SubSeq(t, 1, n)
        BY <2>1, <2>4 DEF Take
      <4>. QED BY <2>4, <2>6, <3>3, <4>1
    <3>. QED BY <3>2, <3>3
  <2>10. /\ Memory(ring_buffer.buf, ring_buffer.end - Len(t), ToCopy) = SubSeq(t, 1, ToCopy)
         /\ Shows(ring_buffer_rewind(ring_buffer, Len(t))) = p
    BY <2>1, <2>4, <2>5, <2>7, <2>8, <2>9, TakenBack
  <2>. QED BY <2>1, <2>2, <2>4, <2>9, <2>10
<1>2. [][P]_printVars <=> SprintfExact
  BY DEF SprintfExact
<1> HIDE DEF P
<1>. QED BY <1>1, <1>2, PrintInvariant, PTL DEF PrintSpec
=============================================================================
