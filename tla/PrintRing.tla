------------------------------ MODULE PrintRing ------------------------------
(***************************************************************************)
(* The print ring of printf.c: the buffer that dbg_log fills and dbg_flush *)
(* sends to the console.  Its operations, as operators on a ring.          *)
(***************************************************************************)
EXTENDS Integers, Sequences

CONSTANTS BUF_SIZE,  \* size of the array (512)
          Char,      \* the characters
          NUL        \* the one that ends a string

ASSUME BufAssumption == BUF_SIZE \in Nat /\ BUF_SIZE > 2
ASSUME NulAssumption == NUL \in Char

BUF_MAX == BUF_SIZE - 1

\* struct s_ring
Ring == [start : 0..(BUF_MAX - 1), end : 0..(BUF_MAX - 1), full : BOOLEAN,
         buf : [0..(BUF_SIZE - 1) -> Char]]

\* Cells lo..hi-1 cleared.
Cleared(buf, lo, hi) == [k \in DOMAIN buf |-> IF lo <= k /\ k < hi THEN NUL ELSE buf[k]]

\* The .bss image is already what init_ring_buffer would make of it.
init_ring_buffer ==
    [start |-> 0, end |-> 0, full |-> FALSE, buf |-> [k \in 0..(BUF_SIZE - 1) |-> NUL]]

\* Faulty variant: the array is used to its last cell.
WriteCharLastCell(r, c) ==
    IF r.full THEN r
    ELSE IF r.end + 1 # BUF_SIZE
         THEN [r EXCEPT !.buf[r.end] = c, !.end = r.end + 1]
         ELSE [r EXCEPT !.buf[r.end] = c, !.full = TRUE]

\* The character is stored before the ring finds that it is full: end then
\* stays on it, and every later character is dropped.
ring_buffer_write_char(r, c) ==
    IF r.full THEN r
    ELSE IF (r.end + 1) % BUF_MAX # r.start
         THEN [r EXCEPT !.buf[r.end] = c, !.end = (r.end + 1) % BUF_MAX]
         ELSE [r EXCEPT !.buf[r.end] = c, !.full = TRUE]

ring_buffer_write_string(r, s) ==
    LET after[k \in 0..Len(s)] ==
            IF k = 0 THEN r ELSE ring_buffer_write_char(after[k - 1], s[k])
    IN  after[Len(s)]

\* The cells that flush sends, in order.
Slice(buf, lo, n) == [k \in 1..n |-> buf[lo + k - 1]]

Flushed(r) ==
    IF r.end >= r.start
    THEN Slice(r.buf, r.start, r.end - r.start)
    ELSE Slice(r.buf, r.start, BUF_SIZE - r.start) \o Slice(r.buf, 0, r.end)

\* Faulty variant: a full ring stays marked full.
ResetKeepsFull(r) == [r EXCEPT !.end = 0, !.start = 0, !.buf = Cleared(r.buf, 0, BUF_MAX)]

\* What print_and_reset_buffer leaves.
Reset(r) == [r EXCEPT !.end = 0, !.start = 0, !.full = FALSE,
                      !.buf = Cleared(r.buf, 0, BUF_MAX)]

\* Faulty variant: the characters are cleared and end stays where it was.
RewindKeepsEnd(r, len) ==
    IF len >= BUF_MAX \/ r.end < len THEN r
    ELSE [r EXCEPT !.buf = Cleared(r.buf, r.end - len, r.end)]

\* When fewer than len characters are there, end goes round to the top of the
\* array, whatever start is.
ring_buffer_rewind(r, len) ==
    IF len >= BUF_MAX THEN r
    ELSE IF r.end >= len
         THEN [r EXCEPT !.buf = Cleared(r.buf, r.end - len, r.end), !.end = r.end - len]
         ELSE [r EXCEPT !.buf = Cleared(Cleared(r.buf, 0, r.end),
                                        BUF_MAX - len + r.end, BUF_MAX),
                        !.end = BUF_MAX - len + r.end]

\* The number of characters a ring that starts at 0 can show.
Capacity == BUF_MAX - 1

\* The first n elements of s, or all of them.
Take(s, n) == SubSeq(s, 1, IF Len(s) < n THEN Len(s) ELSE n)
=============================================================================
