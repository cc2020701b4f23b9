---------------------------- MODULE MCWsChannel ----------------------------
(* Small instances of WsChannel for TLC. *)
EXTENDS WsChannel, TLC

ClientSymmetry == Permutations(Client)
=============================================================================
