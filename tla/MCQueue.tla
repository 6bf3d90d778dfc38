------------------------------- MODULE MCQueue -------------------------------
(***************************************************************************)
(* A receive ring of two slots, a pending ring of three and six datagrams, *)
(* so that both wrap and overflow, and the pending ring has packets of the *)
(* bound port on either side of one that stays.                            *)
(***************************************************************************)
EXTENDS ProxyQueue
=============================================================================
