--------------------------- MODULE PrintfReference ---------------------------
(***************************************************************************)
(* What a format stands for.  A directive is one piece of a format: a      *)
(* literal character, a conversion with its width and its argument, or one *)
(* of the forms printf.c refuses.  Spelled gives its characters in the     *)
(* format, StandardNumber the number as a printf is documented to print    *)
(* it.  printf.c departs from that in three ways: each has a name here,    *)
(* and Rendered says what is printed instead.                              *)
(***************************************************************************)
EXTENDS Integers, Sequences, SequencesExt, Numerals

CONSTANTS UCHAR, SHORT, INT, LONG, LLONG  \* 2^8, 2^16, 2^32, 2^32, 2^64

\* conv is "lit", or the letters of a conversion; width is -1 when the format
\* gives none; arg is the argument, or the literal character.
Directive(conv, width, arg) == [conv |-> conv, width |-> width, arg |-> arg]

Letters(conv) == CASE conv = "ll" -> <<"l", "l">>
                   [] conv = "hh" -> <<"h", "h">>
                   [] conv = ""   -> <<>>
                   [] OTHER       -> <<conv>>

Spelled(d) ==
    IF d.conv = "lit" THEN <<d.arg>>
    ELSE <<"%">> \o (IF d.width = -1 THEN <<>> ELSE <<"0">> \o Numeral(d.width, 10))
                 \o Letters(d.conv)

Base   == [c \in {"d", "i", "l", "ll", "h", "hh", "u", "x", "o", "p"} |->
              CASE c \in {"x", "p"} -> 16 [] c = "o" -> 8 [] OTHER -> 10]

TakesArg(d) == d.conv \in DOMAIN Base \cup {"s", "c"}

\* A format may end inside a conversion; printf.c takes that for its end.
CutShort(d) == d.conv = ""

\* The forms the parser refuses: an unknown letter, a padded string or
\* character (a width is kept in a byte), a padded percent sign.
Malformed(d) == /\ d.conv # "lit" /\ ~CutShort(d)
                /\ \/ d.conv \notin DOMAIN Base \cup {"s", "c", "%"}
                   \/ d.conv \in {"s", "c"} /\ d.width > 0 /\ d.width % UCHAR # 0
                   \/ d.conv = "%" /\ d.width # -1

\* The integer of a signed type of w values that v is converted to.
Narrow(v, w) == CHOOSE n \in (-(w \div 2))..((w \div 2) - 1) : (n - v) % w = 0

\* The argument in the type of its conversion: int, long, long long, short,
\* unsigned char, unsigned int.
Value(d) == CASE d.conv \in {"d", "i"} -> Narrow(d.arg, INT)
              [] d.conv = "l"          -> Narrow(d.arg, LONG)
              [] d.conv = "ll"         -> Narrow(d.arg, LLONG)
              [] d.conv = "h"          -> Narrow(d.arg, SHORT)
              [] d.conv = "hh"         -> d.arg % UCHAR
              [] OTHER                 -> d.arg % INT

(***************************************************************************)
(* A number as the standard printf prints it: a sign when it is negative,  *)
(* the 0x of "%#x" when a pointer is not null, the digits, and zeros       *)
(* between them up to the width, which counts the sign or the prefix.      *)
(***************************************************************************)
Field(d) == IF d.width = -1 THEN 0 ELSE d.width

Sign(d) == CASE Value(d) < 0                   -> <<"-">>
             [] d.conv = "p" /\ Value(d) > 0   -> <<"0", "x">>
             [] OTHER                          -> <<>>

Magnitude(d) == IF Value(d) < 0 THEN -Value(d) ELSE Value(d)

StandardNumber(d) ==
    Sign(d) \o Padded(Numeral(Magnitude(d), Base[d.conv]), Field(d) - Len(Sign(d)))

(***************************************************************************)
(* The three departures of printf.c, and what it prints then: the 64 bits  *)
(* of a negative number without a sign; a pointer's 0x even when it is     *)
(* null, and padding that does not count it; a width modulo 256.           *)
(***************************************************************************)
NegativeNumber(d) == Value(d) < 0
PaddedPointer(d)  == d.conv = "p" /\ (Value(d) = 0 \/ Field(d) > Len(Numeral(Value(d), 16)))
WideField(d)      == Field(d) >= UCHAR

Departs(d) == NegativeNumber(d) \/ PaddedPointer(d) \/ WideField(d)

Number(d) == Value(d) % LLONG

DepartingNumber(d) ==
    (IF d.conv = "p" THEN <<"0", "x">> ELSE <<>>)
    \o Padded(Numeral(Number(d), Base[d.conv]), Field(d) % UCHAR)

Rendered(d) ==
    CASE d.conv \in {"lit", "c"} -> <<d.arg>>
      [] d.conv = "%"            -> <<"%">>
      [] d.conv = "s"            -> d.arg
      [] d.conv \in DOMAIN Base  ->
             IF Departs(d) THEN DepartingNumber(d) ELSE StandardNumber(d)
      [] OTHER                   -> <<>>

Format(ds) == FlattenSeq([k \in DOMAIN ds |-> Spelled(ds[k])])
Text(ds)   == FlattenSeq([k \in DOMAIN ds |-> Rendered(ds[k])])
ArgsOf(ds) == FlattenSeq([k \in DOMAIN ds |-> IF TakesArg(ds[k]) THEN <<ds[k]>> ELSE <<>>])

\* The directives before the first malformed one.
ValidPrefix(ds) ==
    SubSeq(ds, 1, Cardinality({k \in DOMAIN ds : \A j \in 1..k : ~Malformed(ds[j])}))
=============================================================================
