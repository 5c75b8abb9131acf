------------------------------ MODULE PinBank ------------------------------
(***************************************************************************)
(* What the GPIO driver promises: every pin has settings of its own, and a *)
(* request changes the settings it names, of the pin it names, to the      *)
(* values it names, and nothing else.                                      *)
(***************************************************************************)
CONSTANTS
    Requests,   \* pairs <<pin, new>>; new gives values to some of the settings
    Initial     \* the settings of every pin at the start

VARIABLE settings

Init == settings = Initial

Serve(pin, new) ==
    settings' = [settings EXCEPT ![pin] =
                   [f \in DOMAIN @ |-> IF f \in DOMAIN new THEN new[f] ELSE @[f]]]

Next == \E r \in Requests : Serve(r[1], r[2])

Spec == Init /\ [][Next]_settings

=============================================================================
