------------------------------- MODULE MCMerge -------------------------------
(***************************************************************************)
(* Small instances of Merge: record headers of two bytes, records of none  *)
(* or one, every way of cutting a file short inside its last record.       *)
(***************************************************************************)
EXTENDS Merge

CONSTANTS ppi, radiotap   \* link types

(* Files of at most n records, with timestamps up to t, lengths up to l.   *)
FilesUpTo(n, t, l, links) ==
  LET records == [ts : 0..t, len : 0..l]
      last(s) == IF s = << >> THEN 0 ELSE Header + s[Len(s)].len - 1
  IN  UNION {{[link |-> k, recs |-> s, cut |-> c] : c \in 0..last(s)} :
               <<k, s>> \in links \X UNION {[1..m -> records] : m \in 0..n}}

(* Lengths and cuts; clocks; three records in and out of order.            *)
MCFile == FilesUpTo(2, 1, 1, {ppi, radiotap, None})
            \cup FilesUpTo(2, 3, 0, {ppi, radiotap})
            \cup {f \in FilesUpTo(3, 2, 0, {ppi}) : f.cut = 0}
=============================================================================
