----------------------------- MODULE MCSzEngine -----------------------------
(***************************************************************************)
(* Small instances of SzEngine: captures on one access point, one in each  *)
(* mode, or two in file mode with an in-app one.                           *)
(***************************************************************************)
EXTENDS SzEngine

CONSTANTS c1, c2, c3,     \* captures
          ap1             \* access point

MCApOf == [j \in Job |-> ap1]

OneOfEach == [j \in Job |-> CASE j = c1 -> "file"
                              [] j = c2 -> "stream_inapp"
                              [] OTHER  -> "stream_wireshark"]
TwoFiles  == [j \in Job |-> IF j = c2 THEN "stream_inapp" ELSE "file"]
=============================================================================
