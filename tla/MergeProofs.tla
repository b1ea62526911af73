------------------------------ MODULE MergeProofs ------------------------------
(***************************************************************************)
(* Proofs about Merge, for any files and any number of inputs. The record  *)
(* walks are least members of sets of numbers; what is recursive (where a  *)
(* record starts) is shown well-defined by the least counterexample.       *)
(***************************************************************************)
EXTENDS Merge, FiniteSetTheorems, SequenceTheorems, WellFoundedInduction, TLAPS

(* What Merge assumes of the files, without the finite instance's bounds.  *)
LEMMA FileFields ==
  ASSUME NEW f \in File
  PROVE  /\ Len(f.recs) \in Nat /\ f.cut \in Nat
         /\ \A i \in 1..Len(f.recs) : f.recs[i].ts \in Nat /\ f.recs[i].len \in Nat
         /\ f.recs \in Seq([ts : Nat, len : Nat])
<1>1. f.recs \in Seq([ts : Nat, len : Nat]) /\ f.cut \in Nat   BY MergeAssumption
<1>2. \A i \in 1..Len(f.recs) : f.recs[i] \in [ts : Nat, len : Nat]
  BY <1>1, ElementOfSeq
<1>3. \A r \in [ts : Nat, len : Nat] : r.ts \in Nat /\ r.len \in Nat   OBVIOUS
<1>4. Len(f.recs) \in Nat   BY <1>1
<1> QED BY <1>1, <1>2, <1>3, <1>4

(* A set of naturals that is not empty has a least member.                 *)
LEMMA LeastNat ==
  ASSUME NEW T \in SUBSET Nat, T # {}
  PROVE  \E m \in T : \A n \in T : m <= n
<1> DEFINE R == {ss \in Nat \X Nat : ss[1] < ss[2]}
<1>1. R = OpToRel(<, Nat)   BY DEF OpToRel
<1>2. IsWellFoundedOn(R, Nat)   BY <1>1, NatLessThanWellFounded
<1>3. \A x, y \in Nat : x < y => <<x, y>> \in R   OBVIOUS
<1>4. PICK m \in T : \A n \in T : ~(<<n, m>> \in R)
  <2> HIDE DEF R
  <2> QED BY <1>2, WFMin
<1>5. \A n \in T : ~(n < m)   BY <1>3, <1>4
<1>6. m \in Nat /\ \A n \in T : n \in Nat   OBVIOUS
<1> QED BY <1>5, <1>6

(* ... and MinOf is that member.                                           *)
LEMMA LeastIsMin ==
  ASSUME NEW T \in SUBSET Nat, T # {}
  PROVE  MinOf(T) \in T /\ \A n \in T : MinOf(T) <= n
<1>1. PICK m \in T : \A n \in T : m <= n   BY LeastNat
<1> QED BY <1>1 DEF MinOf

(* A bounded one has a greatest member, and MaxOf is that: the least of    *)
(* the distances to the bound.                                             *)
LEMMA GreatestIsMax ==
  ASSUME NEW b \in Nat, NEW T \in SUBSET (0..b), T # {}
  PROVE  MaxOf(T) \in T /\ \A n \in T : n <= MaxOf(T)
<1> DEFINE D == {b - n : n \in T}
<1>1. D \in SUBSET Nat /\ D # {}
  <2>1. PICK n \in T : TRUE   OBVIOUS
  <2>2. b - n \in D   BY <2>1
  <2> QED BY <2>2
<1>2. PICK d \in D : \A e \in D : d <= e   BY <1>1, LeastNat
<1>3. PICK m \in T : d = b - m   BY <1>2
<1>4. \A n \in T : b - m <= b - n   BY <1>2, <1>3
<1>5. \A n \in T : n <= m   BY <1>4
<1> QED BY <1>5 DEF MaxOf

-----------------------------------------------------------------------------
(* Where the records of a file start is well-defined for every number of   *)
(* records: a table for n of them extends to one for n + 1.                *)
StartsUpTo(f, n, at) ==
  at = [i \in 0..n |-> IF i = 0 THEN 0 ELSE at[i-1] + Header + f.recs[i].len]

LEMMA StartsExist ==
  ASSUME NEW f \in File, NEW n \in 0..Len(f.recs)
  PROVE  \E at \in [0..n -> Nat] : StartsUpTo(f, n, at)
<1> DEFINE T == {k \in 0..Len(f.recs) : ~ \E at \in [0..k -> Nat] : StartsUpTo(f, k, at)}
<1>1. SUFFICES ASSUME T # {} PROVE FALSE   OBVIOUS
<1>2. T \in SUBSET Nat   BY FileFields
<1>3. PICK m \in T : \A k \in T : m <= k   BY <1>1, <1>2, LeastNat
<1>4. m # 0
  <2> DEFINE at == [i \in 0..0 |-> 0]
  <2> DEFINE g == [i \in 0..0 |-> IF i = 0 THEN 0 ELSE at[i-1] + Header + f.recs[i].len]
  <2>1. \A i \in 0..0 : at[i] = 0 /\ g[i] = 0
    <3>1. \A i \in 0..0 : i = 0   OBVIOUS
    <3> QED BY <3>1
  <2>2. at \in [0..0 -> Nat]   OBVIOUS
  <2>3. at = g   BY <2>1
  <2>4. StartsUpTo(f, 0, at)   BY <2>3 DEF StartsUpTo
  <2> QED BY <2>2, <2>4, <1>3
<1>5. m - 1 \in 0..Len(f.recs) /\ m \in 1..Len(f.recs)   BY <1>3, <1>4, FileFields
<1>6. PICK at \in [0..m-1 -> Nat] : StartsUpTo(f, m - 1, at)
  <2>1. ~ (m <= m - 1)   BY <1>5
  <2>2. m - 1 \notin T   BY <1>3, <2>1
  <2> QED BY <2>2, <1>5
<1> DEFINE next == [i \in 0..m |-> IF i = m THEN at[m-1] + Header + f.recs[m].len ELSE at[i]]
<1>7. Header \in Nat /\ f.recs[m].len \in Nat   BY <1>5, FileFields, MergeAssumption
<1>8. next \in [0..m -> Nat]   BY <1>5, <1>6, <1>7
<1>9. \A i \in 0..m : next[i] = IF i = 0 THEN 0 ELSE next[i-1] + Header + f.recs[i].len
  <2> TAKE i \in 0..m
  <2>1. CASE i = m   BY <2>1, <1>4, <1>5
  <2>2. CASE i # m
    <3>1. i \in 0..m-1   BY <2>2, <1>5
    <3>2. at[i] = IF i = 0 THEN 0 ELSE at[i-1] + Header + f.recs[i].len
      BY <3>1, <1>6 DEF StartsUpTo
    <3>3. next[i] = at[i] /\ (i # 0 => next[i-1] = at[i-1])   BY <3>1, <1>5
    <3> QED BY <3>2, <3>3
  <2> QED BY <2>1, <2>2
<1>10. StartsUpTo(f, m, next)
  <2> DEFINE g == [i \in 0..m |-> IF i = 0 THEN 0 ELSE next[i-1] + Header + f.recs[i].len]
  <2>1. \A i \in 0..m : next[i] = g[i]   BY <1>9
  <2>2. next = [i \in 0..m |-> next[i]]   OBVIOUS
  <2>3. next = g
    <3> HIDE DEF next
    <3> QED BY <2>1, <2>2
  <2> QED BY <2>3 DEF StartsUpTo
<1> HIDE DEF next
<1> QED BY <1>3, <1>8, <1>10

(* So every record starts somewhere.                                       *)
LEMMA StartsTyped ==
  ASSUME NEW f \in File
  PROVE  \A i \in 0..Len(f.recs) : Starts(f)[i] \in Nat
<1> DEFINE N == Len(f.recs)
<1>1. N \in 0..N   BY FileFields
<1>2. Starts(f) = CHOOSE at : StartsUpTo(f, N, at)   BY DEF Starts, StartsUpTo
<1>3. PICK at \in [0..N -> Nat] : StartsUpTo(f, N, at)   BY <1>1, StartsExist
<1>4. StartsUpTo(f, N, Starts(f))   BY <1>2, <1>3
<1>5. Starts(f) = [i \in 0..N |-> IF i = 0 THEN 0 ELSE Starts(f)[i-1] + Header + f.recs[i].len]
  BY <1>4 DEF StartsUpTo
<1> DEFINE T == {i \in 0..N : Starts(f)[i] \notin Nat}
<1>6. ASSUME T # {} PROVE FALSE
  <2>1. T \in SUBSET Nat   BY <1>1
  <2>2. PICK m \in T : \A k \in T : m <= k   BY <1>6, <2>1, LeastNat
  <2>3. m # 0   BY <1>5, <2>2
  <2>4. m \in 1..N /\ m - 1 \in 0..N /\ ~ (m <= m - 1)   BY <1>1, <2>2, <2>3
  <2>5. Starts(f)[m-1] \in Nat   BY <2>2, <2>4
  <2>6. Header \in Nat /\ f.recs[m].len \in Nat   BY <2>4, FileFields, MergeAssumption
  <2>7. Starts(f)[m] = Starts(f)[m-1] + Header + f.recs[m].len   BY <1>5, <2>4, <2>3
  <2> QED BY <2>2, <2>5, <2>6, <2>7
<1> QED BY <1>6

-----------------------------------------------------------------------------
(* The walks. At the end of the last record no byte is left, so a walk     *)
(* always stops.                                                           *)
LEMMA WalkStops ==
  ASSUME NEW f \in File
  PROVE  /\ Len(f.recs) \in 0..Len(f.recs)
         /\ \A i \in 0..Len(f.recs) : Starts(f)[i] \in Nat
         /\ Size(f) \in Int
         /\ Header \in Nat
         /\ Left(f, Len(f.recs)) < Header
<1>1. Len(f.recs) \in 0..Len(f.recs) /\ f.cut \in Nat   BY FileFields
<1>2. \A i \in 0..Len(f.recs) : Starts(f)[i] \in Nat   BY StartsTyped
<1>3. Header \in Nat \ {0}   BY MergeAssumption
<1>4. Starts(f)[Len(f.recs)] \in Nat   BY <1>1, <1>2
<1>5. Size(f) \in Int   BY <1>1, <1>4 DEF Size
<1>6. Left(f, Len(f.recs)) < Header   BY <1>1, <1>3, <1>4 DEF Left, Size
<1> QED BY <1>1, <1>2, <1>3, <1>5, <1>6

(* _iter_records yields no more records than the file holds, and every one *)
(* it yields is there to its last byte.                                    *)
LEMMA RecordsOf ==
  ASSUME NEW f \in File
  PROVE  /\ IterCount(f) \in 0..Len(f.recs)
         /\ Len(Records(f)) = IterCount(f)
         /\ \A k \in 1..IterCount(f) : Records(f)[k] = f.recs[k]
<1> DEFINE Short == {i \in 0..Len(f.recs) : \/ Left(f, i) < Header
                                            \/ Left(f, i) - Header < f.recs[i+1].len}
<1>1. Short \in SUBSET Nat /\ Short # {}   BY WalkStops, FileFields
<1>2. IterCount(f) \in Short   BY <1>1, LeastIsMin DEF IterCount
<1>3. IterCount(f) \in 0..Len(f.recs)   BY <1>2
<1>4. f.recs \in Seq([ts : Nat, len : Nat]) /\ Len(f.recs) \in Nat   BY FileFields
<1>5. Len(SubSeq(f.recs, 1, IterCount(f))) = IterCount(f)   BY <1>3, <1>4, SubSeqProperties
<1>6. \A k \in 1..IterCount(f) : SubSeq(f.recs, 1, IterCount(f))[k] = f.recs[k]
  BY <1>3, <1>4, SubSeqProperties
<1> QED BY <1>3, <1>5, <1>6 DEF Records

(* Both walks stop at the same record of any file.                         *)
LEMMA WalksStopTogether ==
  ASSUME NEW f \in File
  PROVE  IterCount(f) = CountPcap(f)
<1>1. \A i \in 0..Len(f.recs) :
        (\/ Left(f, i) < Header
         \/ Left(f, i) - Header < f.recs[i+1].len)
        <=> (\/ Starts(f)[i] + Header > Size(f)
             \/ Starts(f)[i] + Header + f.recs[i+1].len > Size(f))
  <2> TAKE i \in 0..Len(f.recs)
  <2>1. Starts(f)[i] \in Nat /\ Size(f) \in Int /\ Header \in Nat   BY WalkStops
  <2>2. Left(f, i) = Size(f) - Starts(f)[i]   BY DEF Left
  <2>3. CASE i = Len(f.recs)
    <3>1. Left(f, i) < Header   BY <2>3, WalkStops
    <3> QED BY <2>1, <2>2, <3>1
  <2>4. CASE i # Len(f.recs)
    <3>1. i + 1 \in 1..Len(f.recs)   BY <2>4, FileFields
    <3>2. f.recs[i+1].len \in Nat   BY <3>1, FileFields
    <3> QED BY <2>1, <2>2, <3>2
  <2> QED BY <2>3, <2>4
<1> QED BY <1>1 DEF IterCount, CountPcap

-----------------------------------------------------------------------------
(* The merge. *)

TypeOK ==
  /\ inputs \in UNION {[1..n -> File] : n \in 1..MaxInputs}
  /\ step \in {"plan", "mergecap", "emit", "delegated", "merged", "failed"}
  /\ pos \in [DOMAIN inputs -> Nat]
  /\ out \in Seq([ts : Nat, from : DOMAIN inputs])

(* As many records of an input were written as it has moved on.            *)
Counted ==
  \A i \in DOMAIN inputs : pos[i] <= Len(Records(inputs[i]))
                           /\ Cardinality(Written(i)) = pos[i]

(* The n-th record written of an input is its n-th.                        *)
InPlace ==
  \A k \in DOMAIN out : out[k].ts = inputs[out[k].from].recs[Rank(k)].ts

(* When the inputs are in order, nothing still to be written is older than *)
(* what was written last.                                                  *)
Sorted == \A i \in DOMAIN inputs : InOrder(inputs[i].recs)
NotPast ==
  out # << >> =>
    \A k \in DOMAIN inputs : More(k) => out[Len(out)].ts <= Head1(k)

Exhausted == step = "merged" => \A i \in DOMAIN inputs : ~More(i)

MergeInv ==
  /\ TypeOK /\ Counted /\ InPlace /\ Exhausted
  /\ Sorted => InOrder(out) /\ NotPast

(* What the type says of each input and of each record written.            *)
LEMMA Typed ==
  ASSUME TypeOK
  PROVE  /\ \A i \in DOMAIN inputs : inputs[i] \in File /\ pos[i] \in Nat
         /\ \E n \in Nat : DOMAIN inputs = 1..n
         /\ DOMAIN inputs # {}
         /\ Len(out) \in Nat /\ DOMAIN out = 1..Len(out)
         /\ \A k \in 1..Len(out) : out[k].ts \in Nat /\ out[k].from \in DOMAIN inputs
<1>1. PICK n \in 1..MaxInputs : inputs \in [1..n -> File]   BY DEF TypeOK
<1>2. n \in Nat /\ 1 \in 1..n   BY <1>1, MergeAssumption
<1>3. \A k \in 1..Len(out) : out[k] \in [ts : Nat, from : DOMAIN inputs]
  BY ElementOfSeq DEF TypeOK
<1>4. \A r \in [ts : Nat, from : DOMAIN inputs] : r.ts \in Nat /\ r.from \in DOMAIN inputs
  OBVIOUS
<1>5. Len(out) \in Nat /\ DOMAIN out = 1..Len(out)   BY DEF TypeOK
<1>6. \A i \in DOMAIN inputs : pos[i] \in Nat   BY DEF TypeOK
<1> QED BY <1>1, <1>2, <1>3, <1>4, <1>5, <1>6

(* The head of an input that has more is a record of it, with its time.    *)
LEMMA HeadOf ==
  ASSUME TypeOK, NEW i \in DOMAIN inputs, More(i)
  PROVE  /\ pos[i] + 1 \in 1..Len(Records(inputs[i]))
         /\ pos[i] + 1 \in 1..Len(inputs[i].recs)
         /\ Head1(i) = inputs[i].recs[pos[i] + 1].ts
         /\ Head1(i) \in Nat
<1> DEFINE f == inputs[i]
<1>1. f \in File /\ pos[i] \in Nat   BY Typed
<1>2. IterCount(f) \in 0..Len(f.recs) /\ Len(Records(f)) = IterCount(f)
      /\ Len(f.recs) \in Nat
  BY <1>1, RecordsOf, FileFields
<1>3. pos[i] + 1 \in 1..IterCount(f)   BY <1>1, <1>2 DEF More
<1>4. Records(f)[pos[i] + 1] = f.recs[pos[i] + 1]   BY <1>1, <1>3, RecordsOf
<1>5. pos[i] + 1 \in 1..Len(f.recs)   BY <1>2, <1>3
<1>6. f.recs[pos[i] + 1].ts \in Nat   BY <1>1, <1>5, FileFields
<1> QED BY <1>2, <1>3, <1>4, <1>5, <1>6 DEF Head1

(* Counting the members of a set of positions with one more.               *)
LEMMA OneMore ==
  ASSUME NEW n \in Nat, NEW S \in SUBSET (1..n)
  PROVE  /\ Cardinality(S) \in Nat
         /\ Cardinality(S \cup {n+1}) = Cardinality(S) + 1
<1>1. IsFiniteSet(1..n)   BY FS_Interval
<1>2. IsFiniteSet(S)   BY <1>1, FS_Subset
<1>3. n + 1 \notin S   OBVIOUS
<1> QED BY <1>2, <1>3, FS_AddElement, FS_CardinalityType

LEMMA InitMerge == Init => MergeInv
<1> SUFFICES ASSUME Init PROVE MergeInv   OBVIOUS
<1>1. TypeOK
  <2>1. PICK n \in 1..MaxInputs : inputs \in [1..n -> File]   BY DEF Init
  <2>2. inputs \in UNION {[1..m -> File] : m \in 1..MaxInputs}   BY DEF Init
  <2> QED BY <2>2 DEF Init, TypeOK
<1>2. \A i \in DOMAIN inputs : Len(Records(inputs[i])) \in Nat
  BY <1>1, Typed, RecordsOf, FileFields
<1>3. \A i \in DOMAIN inputs : Written(i) = {}   BY DEF Init, Written
<1>4. Counted   BY <1>2, <1>3, FS_EmptySet DEF Init, Counted
<1>5. InPlace /\ Exhausted /\ InOrder(out) /\ NotPast
  BY DEF Init, InPlace, Exhausted, InOrder, NotPast
<1> QED BY <1>1, <1>4, <1>5 DEF MergeInv

(* One record is written: the emit step, for the input it takes.           *)
LEMMA EmitKeeps ==
  ASSUME MergeInv, step = "emit", NEW i \in DOMAIN inputs, IsNext(i),
         out' = Append(out, [ts |-> Head1(i), from |-> i]),
         pos' = [pos EXCEPT ![i] = @ + 1],
         UNCHANGED <<inputs, step, format>>
  PROVE  MergeInv'
<1> DEFINE r == [ts |-> Head1(i), from |-> i]
           L == Len(out)
<1>1. TypeOK /\ Counted /\ InPlace   BY DEF MergeInv
<1>2. L \in Nat /\ DOMAIN out = 1..L
      /\ \A k \in 1..L : out[k].ts \in Nat /\ out[k].from \in DOMAIN inputs
  BY <1>1, Typed
<1>3. More(i) /\ \A k \in DOMAIN inputs :
                   More(k) => Head1(i) < Head1(k) \/ (Head1(i) = Head1(k) /\ i <= k)
  BY DEF IsNext
<1>4. /\ pos[i] + 1 \in 1..Len(Records(inputs[i]))
      /\ pos[i] + 1 \in 1..Len(inputs[i].recs)
      /\ Head1(i) = inputs[i].recs[pos[i] + 1].ts /\ Head1(i) \in Nat
  BY <1>1, <1>3, HeadOf
<1>5. r \in [ts : Nat, from : DOMAIN inputs]   BY <1>4
<1>6. out \in Seq([ts : Nat, from : DOMAIN inputs])   BY <1>1 DEF TypeOK
<1>7. /\ out' \in Seq([ts : Nat, from : DOMAIN inputs])
      /\ Len(out') = L + 1 /\ DOMAIN out' = 1..L+1
      /\ out'[L+1] = r /\ \A k \in 1..L : out'[k] = out[k]
  <2>1. out' = Append(out, r)   OBVIOUS
  <2> HIDE DEF r
  <2>2. out' \in Seq([ts : Nat, from : DOMAIN inputs]) /\ Len(out') = L + 1
        /\ out'[L+1] = r /\ \A k \in 1..L : out'[k] = out[k]
    BY <1>5, <1>6, <2>1, AppendProperties
  <2>3. DOMAIN out' = 1..Len(out')   BY <2>2
  <2> QED BY <2>2, <2>3
<1>8. pos' \in [DOMAIN inputs -> Nat] /\ pos'[i] = pos[i] + 1
      /\ \A k \in DOMAIN inputs : k # i => pos'[k] = pos[k]
  BY <1>1, Typed DEF TypeOK
<1>9. TypeOK'   BY <1>1, <1>7, <1>8 DEF TypeOK
<1>10. r.ts = Head1(i) /\ r.from = i   OBVIOUS
<1> HIDE DEF r
<1>11. L \in Nat   BY <1>2
<1>12. PICK n \in Nat : n = L + 1   BY <1>11
<1>13. Counted'
  <2>1. \A k \in DOMAIN inputs : pos'[k] <= Len(Records(inputs[k]))
    BY <1>1, <1>4, <1>8, Typed DEF Counted
  <2>2. Written(i)' = Written(i) \cup {L+1}   BY <1>2, <1>7, <1>10 DEF Written
  <2>3. \A k \in DOMAIN inputs : k # i => Written(k)' = Written(k)
    BY <1>2, <1>7, <1>10 DEF Written
  <2>4. Written(i) \in SUBSET (1..L)   BY <1>2 DEF Written
  <2>5. Cardinality(Written(i)') = pos'[i]
    BY <1>1, <1>2, <1>8, <2>2, <2>4, OneMore DEF Counted
  <2>6. \A k \in DOMAIN inputs : Cardinality(Written(k)') = pos'[k]
    BY <1>1, <1>8, <2>3, <2>5 DEF Counted
  <2>7. inputs' = inputs   OBVIOUS
  <2> QED BY <2>1, <2>6, <2>7 DEF Counted, Written
<1>14. InPlace'
  <2>1. ASSUME NEW k \in 1..L
        PROVE  out'[k].ts = inputs[out'[k].from].recs[Rank(k)'].ts
    <3>1. \A j \in 1..k : out'[j] = out[j]   BY <1>2, <1>7
    <3>2. k \in 1..k   BY <1>2
    <3>3. Rank(k)' = Rank(k)   BY <3>1, <3>2 DEF Rank
    <3> QED BY <1>1, <1>2, <1>7, <3>3 DEF InPlace
  <2>2. Rank(n)' = pos[i] + 1
    <3>1. {j \in 1..n : out'[j].from = out'[n].from} = Written(i) \cup {n}
      BY <1>2, <1>7, <1>10, <1>12 DEF Written
    <3>2. Written(i) \in SUBSET (1..L)   BY <1>2 DEF Written
    <3>3. Cardinality(Written(i) \cup {n}) = pos[i] + 1
      BY <1>1, <1>2, <1>12, <3>2, OneMore DEF Counted
    <3> QED BY <3>1, <3>3 DEF Rank
  <2>3. out'[n].ts = inputs[out'[n].from].recs[Rank(n)'].ts
    BY <1>4, <1>7, <1>10, <1>12, <2>2
  <2>4. \A k \in 1..L+1 : k \in 1..L \/ k = n   BY <1>11, <1>12
  <2>5. ASSUME NEW k \in 1..L+1
        PROVE  out'[k].ts = inputs[out'[k].from].recs[Rank(k)'].ts
    <3>1. CASE k \in 1..L   BY <3>1, <2>1
    <3>2. CASE k = n   BY <3>2, <2>3
    <3> QED BY <2>4, <3>1, <3>2
  <2>6. inputs' = inputs   OBVIOUS
  <2> QED BY <1>7, <2>5, <2>6 DEF InPlace
<1>15. ASSUME Sorted' PROVE InOrder(out') /\ NotPast'
  <2>1. Sorted   BY <1>15 DEF Sorted
  <2>2. InOrder(out) /\ NotPast   BY <2>1 DEF MergeInv
  <2>3. out # << >> => out[L].ts <= Head1(i)   BY <1>3, <2>2 DEF NotPast
  <2>4. ASSUME NEW k \in 1..Len(out') - 1 PROVE out'[k].ts <= out'[k+1].ts
    <3>1. k \in 1..L   BY <1>2, <1>7, <2>4
    <3>2. CASE k = L   BY <1>2, <1>6, <1>7, <1>10, <2>3, <3>1, <3>2
    <3>3. CASE k # L
      <4>1. k \in 1..L-1 /\ k \in 1..L /\ k+1 \in 1..L   BY <1>11, <3>1, <3>3
      <4>2. out[k].ts <= out[k+1].ts   BY <2>2, <4>1 DEF InOrder
      <4> QED BY <1>7, <4>1, <4>2
    <3> QED BY <3>2, <3>3
  <2>5. ASSUME NEW k \in DOMAIN inputs, More(k)'
        PROVE  Head1(i) <= Head1(k)'
    <3>1. CASE k # i
      <4>1. pos'[k] = pos[k]   BY <1>8, <3>1
      <4>2. More(k) /\ Head1(k)' = Head1(k)   BY <2>5, <4>1 DEF More, Head1
      <4>3. Head1(k) \in Nat   BY <1>1, <4>2, HeadOf
      <4> QED BY <1>3, <1>4, <4>2, <4>3
    <3>2. CASE k = i
      <4> DEFINE f == inputs[i]
                 p == pos[i] + 1
      <4>1. f \in File /\ p \in Nat /\ p \in 1..Len(f.recs)   BY <1>1, <1>4, Typed
      <4>2. IterCount(f) \in 0..Len(f.recs) /\ Len(Records(f)) = IterCount(f)
            /\ Len(f.recs) \in Nat
        BY <4>1, RecordsOf, FileFields
      <4>3. p < Len(Records(f))   BY <1>8, <2>5, <3>2 DEF More
      <4>4. p + 1 \in 1..IterCount(f) /\ p \in 1..Len(f.recs) - 1   BY <4>1, <4>2, <4>3
      <4>5. Records(f)[p + 1] = f.recs[p + 1]   BY <4>1, <4>4, RecordsOf
      <4>6. f.recs[p].ts <= f.recs[p+1].ts   BY <2>1, <4>4 DEF Sorted, InOrder
      <4>7. Head1(k)' = Records(f)[p + 1].ts   BY <1>8, <3>2 DEF Head1
      <4> QED BY <1>4, <4>5, <4>6, <4>7
    <3> QED BY <3>1, <3>2
  <2>6. out'[Len(out')].ts = Head1(i)   BY <1>7, <1>10
  <2>7. NotPast'   BY <2>5, <2>6 DEF NotPast
  <2> QED BY <2>4, <2>7 DEF InOrder
<1>16. Exhausted'   BY DEF Exhausted
<1> QED BY <1>9, <1>13, <1>14, <1>15, <1>16 DEF MergeInv, InOrder

LEMMA MergeStep == MergeInv /\ [Next]_vars => MergeInv'
<1> SUFFICES ASSUME MergeInv, [Next]_vars PROVE MergeInv'   OBVIOUS
<1> USE DEF MergeInv
<1>1. CASE Emit
  <2>1. PICK i \in DOMAIN inputs :
          /\ IsNext(i)
          /\ out' = Append(out, [ts |-> Head1(i), from |-> i])
          /\ pos' = [pos EXCEPT ![i] = @ + 1]
    BY <1>1 DEF Emit
  <2>2. step = "emit" /\ UNCHANGED <<inputs, step, format>>   BY <1>1 DEF Emit
  <2> QED BY <2>1, <2>2, EmitKeeps
<1>2. ASSUME UNCHANGED <<inputs, pos, out>>
      PROVE  Counted' /\ InPlace' /\ (Sorted' => InOrder(out)' /\ NotPast')
  <2>1. Counted'   BY <1>2 DEF Counted, Written
  <2>2. InPlace'   BY <1>2 DEF InPlace, Rank
  <2>3. Sorted' = Sorted /\ InOrder(out)' = InOrder(out)   BY <1>2 DEF Sorted, InOrder
  <2>4. NotPast' = NotPast   BY <1>2 DEF NotPast, More, Head1
  <2> QED BY <2>1, <2>2, <2>3, <2>4
<1>3. CASE Plan   BY <1>2, <1>3 DEF Plan, TypeOK, Exhausted
<1>4. CASE Mergecap   BY <1>2, <1>4 DEF Mergecap, TypeOK, Exhausted
<1>5. CASE Finish
  <2>1. TypeOK'   BY <1>5 DEF Finish, TypeOK
  <2>2. Exhausted'   BY <1>5 DEF Finish, Exhausted, More
  <2> QED BY <1>2, <1>5, <2>1, <2>2 DEF Finish
<1>6. CASE UNCHANGED vars
  <2>1. TypeOK' /\ Exhausted'   BY <1>6 DEF vars, TypeOK, Exhausted, More
  <2> QED BY <1>2, <1>6, <2>1 DEF vars
<1> QED BY <1>1, <1>3, <1>4, <1>5, <1>6 DEF Next

(* The merge keeps its books, whatever files it is given.                  *)
THEOREM MergeKeepsBooks == Spec => []MergeInv
<1> QED BY InitMerge, MergeStep, PTL DEF Spec

(* The two record walks, of the merge and of the orchestrator's summary,   *)
(* count the same records in every input, whole or cut short anywhere.     *)
THEOREM WalksAlwaysAgree == Spec => []WalksAgree
<1>1. MergeInv => WalksAgree   BY Typed, WalksStopTogether DEF MergeInv, WalksAgree
<1> QED BY <1>1, MergeKeepsBooks, PTL

(* When every input is in time order, so is the merged file at any moment. *)
THEOREM MergesInOrder == Spec => []MergedInOrder
<1>1. MergeInv => MergedInOrder   BY DEF MergeInv, MergedInOrder, Sorted
<1> QED BY <1>1, MergeKeepsBooks, PTL

(* A finished merge holds every complete record of every input, in place.  *)
THEOREM MergesAreComplete == Spec => []AllMerged
<1>1. ASSUME MergeInv, step = "merged" PROVE AllMerged
  <2>1. TypeOK /\ Counted /\ InPlace /\ Exhausted   BY <1>1 DEF MergeInv
  <2>2. ASSUME NEW i \in DOMAIN inputs
        PROVE  Cardinality(Written(i)) = Len(Records(inputs[i]))
    <3>1. inputs[i] \in File /\ pos[i] \in Nat   BY <2>1, Typed
    <3>2. Len(Records(inputs[i])) \in Nat   BY <3>1, RecordsOf, FileFields
    <3>3. ~More(i)   BY <1>1, <2>1 DEF Exhausted
    <3> QED BY <2>1, <3>1, <3>2, <3>3 DEF Counted, More
  <2> QED BY <2>1, <2>2 DEF AllMerged, InPlace
<1>2. MergeInv => AllMerged   BY <1>1 DEF AllMerged
<1> QED BY <1>2, MergeKeepsBooks, PTL

-----------------------------------------------------------------------------
(* The alignment. *)

(* Finitely many numbers have a bound, found by the least counterexample.  *)
LEMMA BoundExists ==
  ASSUME NEW n \in Nat, NEW g \in [1..n -> Nat]
  PROVE  \E b \in Nat : \A i \in 1..n : g[i] <= b
<1> DEFINE T == {k \in 0..n : ~ \E b \in Nat : \A i \in 1..k : g[i] <= b}
<1>1. ASSUME T # {} PROVE FALSE
  <2>1. T \in SUBSET Nat   OBVIOUS
  <2>2. PICK m \in T : \A k \in T : m <= k   BY <1>1, <2>1, LeastNat
  <2>3. m # 0
    <3>1. 1..0 = {}   OBVIOUS
    <3> QED BY <3>1, <2>2
  <2>4. m \in 1..n /\ m - 1 \in 0..n /\ ~ (m <= m - 1)   BY <2>2, <2>3
  <2>5. m - 1 \notin T   BY <2>2, <2>4
  <2>6. PICK b \in Nat : \A i \in 1..m-1 : g[i] <= b   BY <2>4, <2>5
  <2>7. PICK c \in Nat : b <= c /\ g[m] <= c
    <3>1. g[m] \in Nat   BY <2>4
    <3>2. b <= b + g[m] /\ g[m] <= b + g[m] /\ b + g[m] \in Nat   BY <3>1
    <3> QED BY <3>2
  <2>8. \A i \in 1..m : g[i] <= c
    <3> TAKE i \in 1..m
    <3>1. CASE i = m   BY <3>1, <2>7
    <3>2. CASE i # m
      <4>1. i \in 1..m-1 /\ i \in 1..n   BY <3>2, <2>4
      <4>2. g[i] <= b /\ g[i] \in Nat   BY <4>1, <2>6
      <4> QED BY <4>2, <2>7
    <3> QED BY <3>1, <3>2
  <2> QED BY <2>2, <2>7, <2>8
<1>2. n \in 0..n   OBVIOUS
<1>3. n \notin T
  <2> HIDE DEF T
  <2> QED BY <1>1
<1> QED BY <1>2, <1>3

(* The times the summary compares are numbers; the first frames' have a    *)
(* bound.                                                                  *)
LEMMA TimesTyped ==
  ASSUME TypeOK
  PROVE  /\ \A i \in Analyzed : First(i) \in Nat /\ Last(i) \in Nat
         /\ \E b \in Nat : Firsts \in SUBSET (0..b)
<1>1. ASSUME NEW i \in Analyzed PROVE First(i) \in Nat /\ Last(i) \in Nat
  <2> DEFINE f == inputs[i]
             n == IterCount(f)
  <2>1. f \in File /\ Records(f) # << >>   BY Typed DEF Analyzed
  <2>2. n \in 0..Len(f.recs) /\ Len(Records(f)) = n /\ Len(f.recs) \in Nat
    BY <2>1, RecordsOf, FileFields
  <2>3. n # 0
    <3>1. f.recs \in Seq([ts : Nat, len : Nat])   BY <2>1, FileFields
    <3>2. Records(f) \in Seq([ts : Nat, len : Nat])
      <4>1. \A k \in 1..n : f.recs[k] \in [ts : Nat, len : Nat]
        <5>1. \A k \in 1..Len(f.recs) : f.recs[k] \in [ts : Nat, len : Nat]
          BY <3>1, ElementOfSeq
        <5> HIDE DEF f, n
        <5> QED BY <2>2, <5>1
      <4> QED BY <2>2, <3>1, <4>1, SubSeqProperties DEF Records
    <3> QED BY <2>1, <2>2, <3>2, EmptySeq
  <2>4. 1 \in 1..n /\ n \in 1..n /\ 1 \in 1..Len(f.recs) /\ n \in 1..Len(f.recs)
    BY <2>2, <2>3
  <2>5. Records(f)[1] = f.recs[1] /\ Records(f)[n] = f.recs[n]   BY <2>1, <2>4, RecordsOf
  <2>6. f.recs[1].ts \in Nat /\ f.recs[n].ts \in Nat   BY <2>1, <2>4, FileFields
  <2> QED BY <2>2, <2>5, <2>6 DEF First, Last
<1>2. \E b \in Nat : Firsts \in SUBSET (0..b)
  <2>1. PICK n \in Nat : DOMAIN inputs = 1..n   BY Typed
  <2> DEFINE g == [i \in 1..n |-> IF i \in Analyzed THEN First(i) ELSE 0]
  <2>2. g \in [1..n -> Nat]   BY <1>1
  <2>3. PICK b \in Nat : \A i \in 1..n : g[i] <= b
    <3> HIDE DEF g
    <3> QED BY <2>2, BoundExists
  <2>4. \A i \in Analyzed : i \in 1..n /\ g[i] = First(i)   BY <2>1 DEF Analyzed
  <2>5. \A i \in Analyzed : First(i) <= b   BY <2>3, <2>4
  <2> QED BY <1>1, <2>5 DEF Firsts
<1> QED BY <1>1, <1>2

(* Inputs that are called aligned start within a second of each other, and *)
(* there is a time at which every one of them is running.                  *)
THEOREM AlignedInputsShare == Spec => []AlignedShare
<1>1. ASSUME TypeOK, Analyzed # {}, Aligned
      PROVE  /\ \A i, j \in Analyzed : First(i) - First(j) < Second
             /\ \E t \in Firsts : \A i \in Analyzed : First(i) <= t /\ t < Last(i)
  <2>1. \A i \in Analyzed : First(i) \in Nat /\ Last(i) \in Nat   BY <1>1, TimesTyped
  <2>2. PICK b \in Nat : Firsts \in SUBSET (0..b)   BY <1>1, TimesTyped
  <2>3. PICK a \in Analyzed : TRUE   BY <1>1
  <2>4. Firsts # {} /\ Firsts \in SUBSET Nat   BY <2>1, <2>3 DEF Firsts
  <2>5. Lasts # {} /\ Lasts \in SUBSET Nat   BY <2>1, <2>3 DEF Lasts
  <2>6. MaxOf(Firsts) \in Firsts /\ \A x \in Firsts : x <= MaxOf(Firsts)
    BY <2>2, <2>4, GreatestIsMax
  <2>7. MinOf(Firsts) \in Firsts /\ \A x \in Firsts : MinOf(Firsts) <= x
    BY <2>4, LeastIsMin
  <2>8. MinOf(Lasts) \in Lasts /\ \A x \in Lasts : MinOf(Lasts) <= x
    BY <2>5, LeastIsMin
  <2>9. MaxOf(Firsts) \in Nat /\ MinOf(Firsts) \in Nat /\ MinOf(Lasts) \in Nat
        /\ Second \in Nat
    BY <2>4, <2>5, <2>6, <2>7, <2>8, MergeAssumption
  <2>10. MaxOf(Firsts) - MinOf(Firsts) < Second   BY <1>1 DEF Aligned, StartSpread
  <2>11. MinOf(Lasts) > MaxOf(Firsts)   BY <1>1, <2>9 DEF Aligned, Overlap
  <2>12. ASSUME NEW i \in Analyzed
         PROVE  /\ First(i) \in Nat /\ First(i) <= MaxOf(Firsts)
                /\ MinOf(Firsts) <= First(i) /\ MaxOf(Firsts) < Last(i)
    <3>1. First(i) \in Firsts /\ Last(i) \in Lasts   BY DEF Firsts, Lasts
    <3>2. MinOf(Lasts) <= Last(i)   BY <2>8, <3>1
    <3> QED BY <2>1, <2>6, <2>7, <2>9, <2>11, <3>1, <3>2
  <2>13. \A i, j \in Analyzed : First(i) - First(j) < Second   BY <2>9, <2>10, <2>12
  <2> QED BY <2>6, <2>12, <2>13
<1>2. MergeInv => AlignedShare   BY <1>1 DEF MergeInv, AlignedShare
<1> QED BY <1>2, MergeKeepsBooks, PTL
=============================================================================
