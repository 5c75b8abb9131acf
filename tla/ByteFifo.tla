------------------------------ MODULE ByteFifo ------------------------------
(***************************************************************************)
(* What the RX path of the protocol line (USART4, its interrupt handler    *)
(* and the ring buffer of platform.c) promises to the test runner: the     *)
(* bytes the host sends come out of _comm_getchar complete, once each and  *)
(* in the order they were sent.                                            *)
(*                                                                         *)
(* Bytes are identified by their position in the host's stream: the n-th   *)
(* byte is the number n, whatever character it carries.                    *)
(***************************************************************************)
EXTENDS Naturals, Sequences

CONSTANT MaxSent       \* bound on the number of bytes the host sends

VARIABLES
  sent,                \* how many bytes the host has put on the line
  delivered            \* the bytes _comm_getchar has returned, in order

fifoVars == <<sent, delivered>>

Init ==
  /\ sent = 0
  /\ delivered = <<>>

\* The host sends its next byte.
Send ==
  /\ sent < MaxSent
  /\ sent' = sent + 1
  /\ UNCHANGED delivered

\* _comm_getchar returns the oldest byte not returned yet.
Deliver ==
  /\ Len(delivered) < sent
  /\ delivered' = Append(delivered, Len(delivered) + 1)
  /\ UNCHANGED sent

Next == Send \/ Deliver

Spec == Init /\ [][Next]_fifoVars

\* A reader that keeps polling gets every byte; the host owes nothing.
FairSpec == Spec /\ WF_fifoVars(Deliver)
=============================================================================
