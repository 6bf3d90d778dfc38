------------------------------ MODULE MCSockets ------------------------------
(***************************************************************************)
(* Three descriptors, two registry entries, one pool port and one          *)
(* well-known port: a full registry, an exhausted pool, a port in use and  *)
(* a descriptor that comes back are all within a few calls.                *)
(***************************************************************************)
EXTENDS BsdSockets, TLC

CONSTANTS f1, f2, f3, s1, s2, p, w

ThreeFds == {f1, f2, f3}
TwoSessions == {s1, s2}
BothKinds == {"dgram", "stream"}
OnePoolPort == {p}
OneWellKnown == {w}
LanPorts == {p, w}

Symmetry == Permutations(ThreeFds) \cup Permutations(TwoSessions)

=============================================================================
