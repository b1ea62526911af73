----------------------------- MODULE MCStreamPull -----------------------------
(***************************************************************************)
(* Small instances of StreamPull: messages of two header and two body      *)
(* cells, so that a pause can fall inside either; a known tap name, one    *)
(* that has to be listed, and one that is skipped.                         *)
(***************************************************************************)
EXTENDS StreamPull

CONSTANTS wlan100, mon7, eth0

MCKnown == <<wlan100>>
=============================================================================
