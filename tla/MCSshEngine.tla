---------------------------- MODULE MCSshEngine ----------------------------
(***************************************************************************)
(* A small instance of SshEngine: two captures of one access point, of its *)
(* two radios (the case in which the AP refuses the second) or of the same *)
(* one, with up to Workers threads.                                        *)
(***************************************************************************)
EXTENDS SshEngine

CONSTANTS c1, c2,         \* captures
          ap1,            \* access point
          wlan0, wlan1    \* its radios

MCApOf == [j \in Job |-> ap1]

OneOrTwo ==
  {[j \in Job |-> wlan0], [j \in Job |-> IF j = c1 THEN wlan0 ELSE wlan1]}
=============================================================================
