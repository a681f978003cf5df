------------------------------ MODULE PktFifo ------------------------------
(***************************************************************************)
(* What a chain promises to the network: packets are numbered as the       *)
(* receive thread accepts them, and the transmit thread takes them in that *)
(* order, each once, none before it was accepted, each last written by     *)
(* network function Hops.                                                  *)
(***************************************************************************)
EXTENDS Naturals, Sequences

CONSTANT Hops

VARIABLES accepted, wire

Init == accepted = 0 /\ wire = <<>>

Accept ==
  /\ accepted' = accepted + 1
  /\ UNCHANGED wire

Deliver ==
  /\ Len(wire) < accepted
  /\ wire' = Append(wire, [id |-> Len(wire), hop |-> Hops])
  /\ UNCHANGED accepted

Next == Accept \/ Deliver

Spec == Init /\ [][Next]_<<accepted, wire>>
=============================================================================
