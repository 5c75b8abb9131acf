------------------------------ MODULE MCBoard ------------------------------
(***************************************************************************)
(* Instance of Board for TLC: pins of one port that share registers, a     *)
(* registration of each kind (aligned, unaligned, grouped vectors, and     *)
(* every refusal), a handler that acknowledges and one that does not, and  *)
(* a counter whose low word overflows.                                     *)
(***************************************************************************)
EXTENDS Board

Pin(port, pin) ==
    [LedConfig(pin) EXCEPT !.port = port, !.mode = Mode.PIN_INPUT_MODE, !.set_mask = GPIO_SET_ALL]

MCConfigs ==
    {[Pin("D", 11) EXCEPT !.mode = Mode.PIN_ALTERNATE_MODE, !.afr = 7],
     [Pin("D", 11) EXCEPT !.set_mask = {"bsr_r", "lck", "pupd"}, !.bsr_r = 1, !.lck = 1],
     [Pin("D", 3) EXCEPT !.set_mask = {"afr", "bsr_s", "type"}, !.afr = 10, !.bsr_s = 1, !.type = 1],
     Pin("A", 16)}

MCRegistrations ==
    {<<Pin("B", 8), "rising", "ack">>, <<Pin("C", 8), "both", "leave">>,
     <<Pin("B", 1), "rising", "leave">>, <<Pin("C", 12), "falling", "ack">>,
     <<Pin("C", 12), "bad", "leave">>, <<Pin("B", 8), "rising", NULL>>, <<Pin("0", 8), "rising", "ack">>,
     <<Pin("B", 16), "rising", "ack">>, <<LedConfig(12), "rising", "ack">>}

\* All of the port that the calls write, and a pin of another.
MCWatched == ({"D"} \X (0..15)) \cup {<<"E", 11>>}

\* Also on the pin that the misrouted line is connected to.
MCEdges == {<<"B", 8, "rising">>, <<"C", 8, "falling">>, <<"C", 12, "falling">>,
            <<"B", 1, "rising">>}

=============================================================================
