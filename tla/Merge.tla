--------------------------------- MODULE Merge ---------------------------------
(***************************************************************************)
(* merge_pcaps: which format and tool a merge takes, the pure-Python merge *)
(* of the records (heapq.merge over one generator per input), and the      *)
(* alignment summary stored with the artifact. Also the record walk that   *)
(* two modules implement: merge._iter_records and orchestrator._count_pcap.*)
(*                                                                         *)
(* A pcap file is its link type (None when it is not a classic pcap), its  *)
(* records, each a timestamp and a length, and how many bytes of the last  *)
(* record never reached the disk. mergecap is outside the repository.      *)
(***************************************************************************)
EXTENDS Integers, Sequences, FiniteSets

CONSTANTS File,           \* the files to choose inputs from
          MaxInputs,      \* bound on how many are merged
          None,           \* link type of a file that is no classic pcap
          Header,         \* bytes of a record header (16)
          Second          \* clock ticks per second

ASSUME MergeAssumption ==
  /\ \A f \in File : /\ f.recs \in Seq([ts : Nat, len : Nat])
                     /\ f.cut \in Nat
  /\ MaxInputs \in Nat \ {0} /\ Header \in Nat \ {0} /\ Second \in Nat

VARIABLES
  inputs,    \* the files to merge
  step,      \* "plan", "mergecap", "emit"; "delegated", "merged", "failed"
  format,    \* "pcap", "pcapng" or "none"
  pos,       \* how many records of each input have been written
  out        \* the records of the merged file: [ts, from]

vars == <<inputs, step, format, pos, out>>

-----------------------------------------------------------------------------
(* The record walk. *)

MaxOf(S) == CHOOSE x \in S : \A y \in S : y <= x
MinOf(S) == CHOOSE x \in S : \A y \in S : x <= y

(* Where each record starts, behind the file header, and where the last    *)
(* one would end.                                                          *)
Starts(f) ==
  LET at[i \in 0..Len(f.recs)] ==
        IF i = 0 THEN 0 ELSE at[i-1] + Header + f.recs[i].len
  IN  at

Size(f) == Starts(f)[Len(f.recs)] - f.cut

Left(f, i) == Size(f) - Starts(f)[i]

(* Mutant of IterCount: a record is taken once its header is there.        *)
IterHeaders(f) == MinOf({i \in 0..Len(f.recs) : Left(f, i) < Header})

(* _iter_records: reads a header, then the data, and stops at a short read:*)
(* it yields the records before the first of which too little is left.     *)
IterCount(f) ==
  MinOf({i \in 0..Len(f.recs) :
           \/ Left(f, i) < Header
           \/ Left(f, i) - Header < f.recs[i+1].len})

(* _count_pcap: compares offsets with the length of what was downloaded.   *)
CountPcap(f) ==
  MinOf({frames \in 0..Len(f.recs) :
           LET off  == Starts(f)[frames]
               data == off + Header
           IN  data > Size(f) \/ data + f.recs[frames+1].len > Size(f)})

Records(f) == SubSeq(f.recs, 1, IterCount(f))

-----------------------------------------------------------------------------
Init ==
  /\ inputs \in UNION {[1..n -> File] : n \in 1..MaxInputs}
  /\ step   = "plan"
  /\ format = "none"
  /\ pos    = [i \in DOMAIN inputs |-> 0]
  /\ out    = << >>

Uniform ==
  \A i, j \in DOMAIN inputs :
    inputs[i].link # None /\ inputs[i].link = inputs[j].link

(* mergecap is taken when it is on the PATH; without it, mixed inputs are  *)
(* refused.                                                                *)
Plan ==
  /\ step = "plan"
  /\ format' = IF Uniform THEN "pcap" ELSE "pcapng"
  /\ step' \in {"mergecap", IF Uniform THEN "emit" ELSE "failed"}
  /\ UNCHANGED <<inputs, pos, out>>

Mergecap ==
  /\ step = "mergecap"
  /\ step' \in {"delegated", "failed"}
  /\ UNCHANGED <<inputs, format, pos, out>>

More(i) == pos[i] < Len(Records(inputs[i]))
Head1(i) == Records(inputs[i])[pos[i] + 1].ts

(* The next record heapq.merge yields: smallest time, then first input.    *)
(* Mutant: the inputs are chained.                                         *)
ChainedNext(i) == More(i) /\ \A k \in DOMAIN inputs : More(k) => i <= k

IsNext(i) ==
  /\ More(i)
  /\ \A k \in DOMAIN inputs :
       More(k) => Head1(i) < Head1(k) \/ (Head1(i) = Head1(k) /\ i <= k)

Emit ==
  /\ step = "emit"
  /\ \E i \in DOMAIN inputs :
       /\ IsNext(i)
       /\ out' = Append(out, [ts |-> Head1(i), from |-> i])
       /\ pos' = [pos EXCEPT ![i] = @ + 1]
  /\ UNCHANGED <<inputs, step, format>>

(* Mutant of Finish: the merge ends with its first exhausted input.        *)
FinishShort ==
  /\ step = "emit" /\ \E i \in DOMAIN inputs : ~More(i)
  /\ step' = "merged"
  /\ UNCHANGED <<inputs, format, pos, out>>

Finish ==
  /\ step = "emit" /\ \A i \in DOMAIN inputs : ~More(i)
  /\ step' = "merged"
  /\ UNCHANGED <<inputs, format, pos, out>>

Next == Plan \/ Mergecap \/ Emit \/ Finish

Spec == Init /\ [][Next]_vars

-----------------------------------------------------------------------------
(* analyze_alignment, of the inputs it can read that have frames. *)

Analyzed == {i \in DOMAIN inputs :
               inputs[i].link # None /\ Records(inputs[i]) # << >>}

First(i) == Records(inputs[i])[1].ts
Last(i)  == Records(inputs[i])[Len(Records(inputs[i]))].ts
Firsts   == {First(i) : i \in Analyzed}
Lasts    == {Last(i) : i \in Analyzed}

StartSpread == MaxOf(Firsts) - MinOf(Firsts)

(* Mutant of Overlap: from the earliest start to the latest end.           *)
Span    == MaxOf(Lasts) - MinOf(Firsts)
Overlap == IF MinOf(Lasts) > MaxOf(Firsts) THEN MinOf(Lasts) - MaxOf(Firsts) ELSE 0

Aligned == StartSpread < Second /\ Overlap > 0

-----------------------------------------------------------------------------
InOrder(s) == \A k \in 1..Len(s) - 1 : s[k].ts <= s[k+1].ts

Written(i) == {k \in DOMAIN out : out[k].from = i}
Rank(k)    == Cardinality({j \in 1..k : out[j].from = out[k].from})

(* The two implementations of the record walk agree on every file, however *)
(* it was cut short.                                                       *)
WalksAgree == \A i \in DOMAIN inputs : IterCount(inputs[i]) = CountPcap(inputs[i])

(* The merged file is in time order when its inputs are.                   *)
MergedInOrder ==
  (\A i \in DOMAIN inputs : InOrder(inputs[i].recs)) => InOrder(out)

(* Nothing is lost, invented or reordered within an input, sorted or not:  *)
(* a finished Python merge holds exactly the complete records of each.     *)
AllMerged ==
  step = "merged" =>
    /\ \A i \in DOMAIN inputs : Cardinality(Written(i)) = Len(Records(inputs[i]))
    /\ \A k \in DOMAIN out : out[k].ts = inputs[out[k].from].recs[Rank(k)].ts

(* "aligned" is only said of inputs that start within a second of each     *)
(* other and share a stretch of time, be their records in order or not.    *)
AlignedShare ==
  Analyzed # {} /\ Aligned =>
    /\ \A i, j \in Analyzed : First(i) - First(j) < Second
    /\ \E t \in Firsts : \A i \in Analyzed : First(i) <= t /\ t < Last(i)
=============================================================================
