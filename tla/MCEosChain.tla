----------------------------- MODULE MCEosChain -----------------------------
(* Instances of EosChain for TLC. *)
EXTENDS EosChain, TLC

\* Receive buffers are interchangeable: they are never compared but for equality.
MbufSymmetry == Permutations(Mbufs)
=============================================================================
