------------------------------- MODULE MCIpc -------------------------------
(* Small instances of Ipc. *)
EXTENDS Ipc, TLC

CONSTANTS s1, s2, c1, c2

MCName == [p \in Service |-> "session"]
MCSlots == {0, 1}
ClientSymmetry == Permutations(Client)
=============================================================================
