-------------------------------- MODULE Printf --------------------------------
(***************************************************************************)
(* printf.c: print and its format parser, and the calls built on it        *)
(* (dbg_log's bare print, printf, snprintf, sprintf).  The parser runs one *)
(* character of the format per step, as its loops do; the arguments are    *)
(* taken in order, as va_arg does.                                         *)
(***************************************************************************)
EXTENDS PrintRing, PrintfReference

CONSTANTS CallSequences,  \* the sequences of calls that are run
          Junk            \* what memory outside the ring holds

\* Integers wrap at the size of their type, and none is wider than long long;
\* the types read as signed have as many negative values as others.
ASSUME WidthAssumption ==
    /\ UCHAR \in Nat \ {0} /\ INT \in Nat \ {0} /\ LLONG \in Nat \ {0}
    /\ SHORT \in Nat \ {0} /\ LONG \in Nat \ {0}
    /\ \A w \in {UCHAR, SHORT, INT, LONG} : w <= LLONG
    /\ \A w \in {SHORT, INT, LONG, LLONG} : w % 2 = 0

\* The terminator is none of the characters the parser looks for.
ASSUME CharAssumption ==
    /\ Range(DigitChars) \cup {"%", "x"} \subseteq Char
    /\ NUL \notin Range(DigitChars) \cup DOMAIN Base \cup {"%", "s", "c"}

\* A directive of a format that a caller can write.  A literal is no '%'; what
\* follows a '%' is an argument of the conversion's type, or any character
\* that could not be read as part of a width.  The parser counts the
\* characters of a directive in a byte.
IsDirective(d) ==
    /\ d.width \in Nat \cup {-1}
    /\ d.conv = "lit" => d.arg \in Char \ {NUL, "%"}
    /\ d.conv \in DOMAIN Base => d.arg \in Int
    /\ d.conv = "s" => d.arg \in Seq(Char \ {NUL})
    /\ d.conv = "c" => d.arg \in Char
    /\ d.conv # "0" /\ (d.conv = NUL => CutShort(d))
    /\ d.width >= 0 => d.conv \notin DecimalDigits
    /\ Len(Spelled(d)) + 1 < UCHAR

\* Directives as a format is divided into them: the longest conversion is
\* taken ("%ll" is one, not "%l" and a letter), and only the last can be cut short.
IsFormat(ds) ==
    /\ ds \in Seq(Range(ds))
    /\ \A k \in DOMAIN ds : IsDirective(ds[k])
    /\ \A k \in DOMAIN ds : k + 1 \in DOMAIN ds =>
          /\ ~CutShort(ds[k])
          /\ ~(/\ ds[k].conv \in {"l", "h"}
               /\ ds[k + 1].conv = "lit" /\ ds[k + 1].arg = ds[k].conv)

ASSUME CallAssumption ==
    \A s \in CallSequences :
        /\ s \in Seq(Range(s))
        /\ \A k \in DOMAIN s : /\ s[k].fn \in {"dbg_log", "printf", "sprintf", "snprintf"}
                               /\ s[k].fn = "snprintf" => s[k].len \in Nat \ {0}
                               /\ IsFormat(s[k].dirs)

VARIABLES calls,  \* calls not yet made: [fn, len, dirs]
          phase,     \* "idle", "print", "conv", "return", "astray", "fault"
          fmt,    \* the format of the running call
          args,   \* its arguments
          i,      \* index of print in the format
          fs,     \* fs_properties_t of the conversion being parsed
          argn,   \* arguments taken so far by this call
          ring_buffer,
          shown,  \* what reached _putchar
          ret,    \* the result of print
          dst,    \* the destination of the last s(n)printf
          base    \* history: the ring and shown when the call began

printVars == <<calls, phase, fmt, args, i, fs, argn, ring_buffer, shown, ret, dst, base>>

call == Head(calls)

\* The character at an index of the format; the terminator is at Len(fmt).
At(k) == IF k < Len(fmt) THEN fmt[k + 1] ELSE NUL

\* .started is set by the '%' that brings print here and is never false after.
FreshProps == [attr_0len |-> FALSE, attr_size |-> FALSE, size |-> 0, consumed |-> 0]

PrintInit ==
    /\ calls \in CallSequences
    /\ phase = "idle" /\ fmt = <<>> /\ args = <<>> /\ i = 0 /\ fs = FreshProps /\ argn = 0
    /\ ring_buffer = init_ring_buffer
    /\ shown = <<>> /\ ret = 0 /\ dst = <<>>
    /\ base = [ring |-> init_ring_buffer, shown |-> <<>>]

\* printf sends what is pending first; the others only add to it.
Call ==
    /\ phase = "idle" /\ calls # <<>>
    /\ fmt' = Format(call.dirs) /\ args' = ArgsOf(call.dirs)
    /\ phase' = "print" /\ i' = 0 /\ argn' = 0
    /\ base' = [ring |-> ring_buffer, shown |-> shown]
    /\ IF call.fn = "printf"
       THEN shown' = shown \o Flushed(ring_buffer) /\ ring_buffer' = Reset(ring_buffer)
       ELSE UNCHANGED <<shown, ring_buffer>>
    /\ UNCHANGED <<calls, fs, ret, dst>>

-----------------------------------------------------------------------------
\* The loop of print.

PrintEnd ==
    /\ phase = "print" /\ i = Len(fmt)
    /\ phase' = "return" /\ ret' = i
    /\ UNCHANGED <<calls, fmt, args, i, fs, argn, ring_buffer, shown, dst, base>>

\* Past the terminator, print reads whatever memory holds there.
PrintAstray ==
    /\ phase = "print" /\ i > Len(fmt)
    /\ phase' = "astray"
    /\ UNCHANGED <<calls, fmt, args, i, fs, argn, ring_buffer, shown, ret, dst, base>>

PrintChar ==
    /\ phase = "print" /\ i < Len(fmt) /\ At(i) # "%"
    /\ ring_buffer' = ring_buffer_write_char(ring_buffer, At(i))
    /\ i' = i + 1
    /\ UNCHANGED <<calls, fmt, args, phase, fs, argn, shown, ret, dst, base>>

\* print_handle_format_string is entered, and takes the '%'.
PrintConversion ==
    /\ phase = "print" /\ At(i) = "%"
    /\ IF At(i + 1) = NUL
       THEN i' = i + 2 /\ UNCHANGED <<phase, fs>>
       ELSE phase' = "conv" /\ fs' = [FreshProps EXCEPT !.consumed = 1] /\ UNCHANGED i
    /\ UNCHANGED <<calls, fmt, args, argn, ring_buffer, shown, ret, dst, base>>

-----------------------------------------------------------------------------
\* The cases of print_handle_format_string.

letter == At(i + fs.consumed)
next   == At(i + fs.consumed + 1)
padded == fs.attr_size /\ fs.attr_0len

\* Faulty variant: the terminating letter is counted twice.
EndConversionTwice(k) == /\ phase' = "print"
                         /\ i' = i + ((fs.consumed + k + 2) % UCHAR)

\* goto end, after k more characters than the current one
EndConversion(k) == /\ phase' = "print"
                    /\ i' = i + ((fs.consumed + k + 1) % UCHAR)

Percent ==
    /\ phase = "conv" /\ letter = "%" /\ fs.consumed = 1
    /\ ring_buffer' = ring_buffer_write_char(ring_buffer, "%")
    /\ EndConversion(0)
    /\ UNCHANGED <<calls, fmt, args, fs, argn, shown, ret, dst, base>>

\* The digits after a '0' are the size, in an unsigned char.
DigitsAhead == CHOOSE n \in 0..Len(fmt) :
                   /\ \A k \in 1..n : At(i + fs.consumed + k) \in DecimalDigits
                   /\ At(i + fs.consumed + n + 1) \notin DecimalDigits

Zero ==
    /\ phase = "conv" /\ letter = "0"
    /\ LET n    == DigitsAhead
           size[k \in 0..n] ==
               IF k = 0 THEN fs.size
               ELSE (size[k - 1] * 10 + DigitValue(At(i + fs.consumed + k))) % UCHAR
           used == (fs.consumed + n + 1) % UCHAR
       IN  /\ fs' = [attr_0len |-> TRUE, attr_size |-> fs.attr_size \/ size[n] # 0,
                     size |-> size[n], consumed |-> used]
           /\ IF At(i + used) = NUL  \* the do loop ends: end of the format
              THEN phase' = "print" /\ i' = i + ((used + 1) % UCHAR)
              ELSE UNCHANGED <<phase, i>>
    /\ UNCHANGED <<calls, fmt, args, argn, ring_buffer, shown, ret, dst, base>>

Zeros(n) == [k \in 1..n |-> "0"]

\* 'd' 'i' 'l' 'h' 'u' 'x' 'o': which conversion, how many letters it has, the
\* value va_arg gives after the casts, its base.
Conversion == IF letter = next /\ letter = "l" THEN "ll"
              ELSE IF letter = next /\ letter = "h" THEN "hh" ELSE letter

\* v in a signed type of w values
Signed(v, w) == ((v + w \div 2) % w) - w \div 2

ArgValue(conv, v) == CASE conv \in {"d", "i"} -> Signed(v, INT) % LLONG
                       [] conv = "l"          -> Signed(v, LONG) % LLONG
                       [] conv = "ll"         -> Signed(v, LLONG) % LLONG
                       [] conv = "h"          -> Signed(v, SHORT) % LLONG
                       [] conv = "hh"         -> v % UCHAR
                       [] OTHER               -> v % INT

NumberBase(conv) == CASE conv \in {"x", "p"} -> 16 [] conv = "o" -> 8 [] OTHER -> 10

WriteNumber ==
    /\ phase = "conv" /\ letter \in {"d", "i", "l", "h", "u", "x", "o"}
    /\ LET value == ArgValue(Conversion, args[argn + 1].arg)
           b     == NumberBase(Conversion)
           pad   == IF padded THEN fs.size - get_number_len(value, b) ELSE 0
       IN  \E str \in {Zeros(pad) \o ring_buffer_write_number(value, b)} :
               ring_buffer' = ring_buffer_write_string(ring_buffer, str)
    /\ argn' = argn + 1
    /\ EndConversion(IF Conversion \in {"ll", "hh"} THEN 1 ELSE 0)
    /\ UNCHANGED <<calls, fmt, args, fs, shown, ret, dst, base>>

\* A pointer is padded to the size without asking for the attributes.
WritePointer ==
    /\ phase = "conv" /\ letter = "p"
    /\ LET value == ArgValue("p", args[argn + 1].arg)
       IN  \E str \in {<<"0", "x">> \o Zeros(fs.size - get_number_len(value, 16))
                          \o ring_buffer_write_number(value, 16)} :
               ring_buffer' = ring_buffer_write_string(ring_buffer, str)
    /\ argn' = argn + 1
    /\ EndConversion(0)
    /\ UNCHANGED <<calls, fmt, args, fs, shown, ret, dst, base>>

WriteString ==
    /\ phase = "conv" /\ letter = "s" /\ ~padded
    /\ ring_buffer' = ring_buffer_write_string(ring_buffer, args[argn + 1].arg)
    /\ argn' = argn + 1
    /\ EndConversion(0)
    /\ UNCHANGED <<calls, fmt, args, fs, shown, ret, dst, base>>

\* Faulty variant: the character is read without moving to the next argument.
WriteCharPeek ==
    /\ phase = "conv" /\ letter = "c" /\ ~padded
    /\ ring_buffer' = ring_buffer_write_char(ring_buffer, args[argn + 1].arg)
    /\ EndConversion(0)
    /\ UNCHANGED <<calls, fmt, args, fs, argn, shown, ret, dst, base>>

WriteChar ==
    /\ phase = "conv" /\ letter = "c" /\ ~padded
    /\ ring_buffer' = ring_buffer_write_char(ring_buffer, args[argn + 1].arg)
    /\ argn' = argn + 1
    /\ EndConversion(0)
    /\ UNCHANGED <<calls, fmt, args, fs, shown, ret, dst, base>>

\* goto err: print returns -1 and what was written stays in the ring.
Refuse ==
    /\ phase = "conv"
    /\ \/ letter = "%" /\ fs.consumed # 1
       \/ letter \in {"s", "c"} /\ padded
       \/ letter \notin {"%", "0", "d", "i", "l", "h", "u", "p", "x", "o", "s", "c"}
    /\ phase' = "return" /\ ret' = -1
    /\ UNCHANGED <<calls, fmt, args, i, fs, argn, ring_buffer, shown, dst, base>>

-----------------------------------------------------------------------------
\* The returns of the callers of print.

Done == phase' = "idle" /\ calls' = Tail(calls)

ReturnLog ==
    /\ phase = "return" /\ call.fn = "dbg_log"
    /\ Done
    /\ UNCHANGED <<fmt, args, i, fs, argn, ring_buffer, shown, ret, dst, base>>

ReturnPrintf ==
    /\ phase = "return" /\ call.fn = "printf"
    /\ shown' = shown \o Flushed(ring_buffer) /\ ring_buffer' = Reset(ring_buffer)
    /\ Done
    /\ UNCHANGED <<fmt, args, i, fs, argn, ret, dst, base>>

\* n characters of the array from index lo on; outside it, other memory.
Memory(buf, lo, n) == [k \in 1..n |-> IF lo + k - 1 \in DOMAIN buf
                                      THEN buf[lo + k - 1] ELSE Junk]

\* sprintf and snprintf take the last ret characters of the ring, where ret is
\* the length of the format, and take them back off the ring.
ToCopy == IF call.fn = "snprintf" /\ ret >= call.len THEN call.len - 1 ELSE ret

ReturnSprintf ==
    /\ phase = "return" /\ call.fn \in {"sprintf", "snprintf"} /\ ret >= 0
    /\ dst' = Memory(ring_buffer.buf, ring_buffer.end - ret, ToCopy)
    /\ ring_buffer' = ring_buffer_rewind(ring_buffer, ret)
    /\ Done
    /\ UNCHANGED <<fmt, args, i, fs, argn, shown, ret, base>>

\* With -1, memcpy is given a length of 2^32 - 1.
FaultSprintf ==
    /\ phase = "return" /\ call.fn \in {"sprintf", "snprintf"} /\ ret = -1
    /\ phase' = "fault"
    /\ UNCHANGED <<calls, fmt, args, i, fs, argn, ring_buffer, shown, ret, dst, base>>

PrintNext ==
    \/ Call \/ PrintEnd \/ PrintAstray \/ PrintChar \/ PrintConversion
    \/ Percent \/ Zero \/ WriteNumber \/ WritePointer \/ WriteString \/ WriteChar \/ Refuse
    \/ ReturnLog \/ ReturnPrintf \/ ReturnSprintf \/ FaultSprintf

PrintSpec == PrintInit /\ [][PrintNext]_printVars

-----------------------------------------------------------------------------
(***************************************************************************)
(* Properties                                                              *)
(***************************************************************************)

\* Whether the directives of the running call are all printed.
WellFormed(ds) == ~(\E k \in DOMAIN ds : Malformed(ds[k]))
EndsInside(ds) == ds # <<>> /\ CutShort(Last(ds))

\* What the ring shows, and what it shows before a call adds to it.
Shows(r) == Slice(r.buf, 0, r.end)
Pending  == IF call.fn = "printf" THEN <<>> ELSE Shows(base.ring)

\* A ring that was filled drops what it is given, until it is flushed: also
\* after sprintf took its text back, as ring_buffer_rewind leaves it full.
Dropping == base.ring.full /\ call.fn # "printf"

\* When print returns, the ring shows what it showed before, then the
\* directives one after the other (those before the first one it refuses), cut
\* at the capacity of the ring; -1 exactly when one is refused.  A number is
\* there as the standard printf prints it, or is one of the departures that
\* PrintfReference names (a negative number, a null or padded pointer, a width
\* that does not fit a byte), printed as is said there.
PrintExact ==
    phase = "return" =>
        /\ (ret = -1) = ~WellFormed(call.dirs)
        /\ Shows(ring_buffer) =
              IF Dropping THEN Shows(base.ring)
              ELSE Take(Pending \o Text(ValidPrefix(call.dirs)), Capacity)

\* Each conversion takes its own argument: at every turn of print's loop the
\* arguments taken are those of the directives already passed.
ArgsInStep ==
    (phase = "print" /\ i <= Len(fmt)) =>
        \E k \in 0..Len(call.dirs) :
            LET passed == SubSeq(call.dirs, 1, k)
            IN  /\ Len(Format(passed)) = i
                /\ Len(ArgsOf(passed)) = argn

\* print leaves the format only when the format ends inside a conversion.
StaysInside ==
    (phase = "astray" \/ (phase = "print" /\ i > Len(fmt))) => EndsInside(call.dirs)

\* printf sends what dbg_log left pending before its own text, in order, and
\* leaves the ring empty.
PrintfFlushes ==
    [][ReturnPrintf =>
          /\ ring_buffer' = init_ring_buffer
          /\ shown' = base.shown \o Shows(base.ring)
                      \o Take(Text(ValidPrefix(call.dirs)), Capacity)]_printVars

\* sprintf gives the text, and snprintf what there is room for before the
\* terminator; both leave the pending log as it was.  This when the text is as
\* long as the format and there is room for it in the ring.
SprintfExact ==
    [][(/\ ReturnSprintf /\ ~base.ring.full
        /\ Len(Text(call.dirs)) = Len(fmt)
        /\ base.ring.end + Len(fmt) <= Capacity) =>
          /\ dst' = Take(Text(call.dirs), IF call.fn = "snprintf" THEN call.len - 1 ELSE Len(fmt))
          /\ Shows(ring_buffer') = Shows(base.ring)]_printVars

=============================================================================
