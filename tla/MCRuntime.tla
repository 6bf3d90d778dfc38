------------------------------ MODULE MCRuntime ------------------------------
(***************************************************************************)
(* A console with two descriptors to spare and two configured servers.     *)
(* Two descriptors are what a reopen and a name lookup need at once; with  *)
(* two servers a reload can leave the selection out of range.              *)
(***************************************************************************)
EXTENDS SlpRuntime

TwoFds == {3, 4}

=============================================================================
