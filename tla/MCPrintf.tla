------------------------------- MODULE MCPrintf -------------------------------
(***************************************************************************)
(* Instance: a ring of 8 printable characters, integer types of 4 to 10    *)
(* bits, every pair of a log call and a call of any kind, every sprintf    *)
(* followed by two calls that find the ring as it left it.                 *)
(***************************************************************************)
EXTENDS Printf

MCChar == {"", "?", "%", "x", "A"} \cup {DigitChars[k] : k \in 1..16}

\* Numbers of one to five digits, values the casts change, and each departure
\* from the standard printf: negative numbers, pointers that are null or
\* padded, widths over a byte.
Numbers == {Directive(conv, -1, 0 - 1) : conv \in {"d", "h", "l", "hh"}}
           \cup {Directive(conv, 3, 9) : conv \in {"i", "p", "u"}}
           \cup {Directive("d", 18, 10), Directive("ll", 0, 300), Directive("ll", 5, 300),
                 Directive("x", 2, 44), Directive("o", 4, 44), Directive("h", 2, 44),
                 Directive("hh", 3, 44), Directive("l", 2, 0), Directive("d", 4, 0 - 32),
                 Directive("p", 2, 44), Directive("p", -1, 0)}

Others == {Directive("lit", -1, "A"), Directive("%", -1, ""), Directive("c", -1, "A"),
           Directive("s", -1, <<"A", "b">>), Directive("s", -1, <<>>),
           Directive("s", 2, <<"A">>), Directive("s", 16, <<"A">>), Directive("c", 2, "A"), Directive("%", 3, ""),
           Directive("z", -1, "")}

Cut == {Directive("", -1, ""), Directive("", 2, "")}

MCDirectives == Numbers \cup Others

Logs == {<<>>} \cup {<<d>> : d \in {Directive("d", 6, 10), Directive("s", -1, <<"A">>)}}

Formats == {<<d>> : d \in MCDirectives \cup Cut}
           \cup {<<d, e>> : d \in MCDirectives, e \in MCDirectives \cup Cut}

MCCalls ==
    {<<[fn |-> "dbg_log", len |-> 0, dirs |-> l], [fn |-> f, len |-> n, dirs |-> ds]>> :
        l \in Logs, f \in {"dbg_log", "printf", "sprintf"}, n \in {0}, ds \in Formats}
    \cup {<<[fn |-> "snprintf", len |-> n, dirs |-> <<d>>]>> : n \in 1..6, d \in MCDirectives}
    \cup {<<[fn |-> "sprintf", len |-> 0, dirs |-> ds],
            [fn |-> "dbg_log", len |-> 0, dirs |-> <<Directive("lit", -1, "A")>>],
            [fn |-> f, len |-> 0, dirs |-> <<Directive("c", -1, "x")>>]>> :
             ds \in Formats, f \in {"printf", "dbg_log"}}
=============================================================================
