---------------------------- MODULE PlanningProofs ----------------------------
(***************************************************************************)
(* Proofs about Planning, for any targets, addresses, sessions, templates  *)
(* and lengths of plans, whether or not the database enforces its foreign  *)
(* keys: no two captures of a session meet on one access point, and a      *)
(* template replays the targets it was saved from.                         *)
(***************************************************************************)
EXTENDS Planning, FiniteSetTheorems, SequenceTheorems, TLAPS

Row0   == [target : Target \cup {NoTarget}, host : Host \cup {NoHost}, mode : Mode]
Entry  == [target : Target, mode : Mode]
Place  == [host : Host \cup {NoHost}, sz : BOOLEAN]
Launch == [backend : {"sz_api", "ssh"}, target : Target \cup {NoTarget},
           host : Host \cup {NoHost}, mode : Mode]

TypeOK ==
  /\ target \in [Target -> Place]
  /\ status \in [Session -> {"none", "draft", "running"}]
  /\ plan \in [Session -> Seq(Row0)]
  /\ adding \in Seq([session : Session, row : Row0])
  /\ template \in [Template -> Seq(Entry)]
  /\ asked \in [Template -> Seq(Row0 \cup Entry)]
  /\ launched \in [Session -> Seq(Launch)]
  /\ loose \in BOOLEAN

(* Nothing is planned, or about to be, in a session that does not exist.   *)
Unplanned ==
  /\ \A s \in Session : status[s] = "none" => plan[s] = << >>
  /\ \A i \in DOMAIN adding : status[adding[i].session] # "none"

(* A template holds the targets it was made from.                          *)
Saved == \A m \in Template : Replays(template[m], asked[m])

Born(t) == target[t] # Unborn

(* A row that names a target has the address of it, while there is one.    *)
Placed(a) ==
  a.target # NoTarget =>
    Born(a.target) /\ (Known(a.target) => a.host = target[a.target].host)

(* No two rows share an address or a target.                               *)
Apart(p) ==
  \A i, k \in DOMAIN p :
    i # k => /\ p[i].host = p[k].host => p[i].host = NoHost
             /\ p[i].target = p[k].target => p[i].target = NoTarget

PlanFits(p) == Apart(p) /\ \A i \in DOMAIN p : Placed(p[i])

(* What an add is about to insert is still clear of what is there.         *)
AddFits(a) ==
  /\ Placed(a.row) /\ a.row.host # NoHost /\ a.row.target # NoTarget
  /\ \A i \in DOMAIN plan[a.session] :
       plan[a.session][i].host # a.row.host /\ plan[a.session][i].target # a.row.target

(* The entries of a template are of different targets, at different places *)
(* as long as they are anywhere.                                           *)
EntriesFit(e) ==
  /\ \A i \in DOMAIN e : Born(e[i].target)
  /\ \A i, k \in DOMAIN e :
       i # k => /\ e[i].target # e[k].target
                /\ Known(e[i].target) /\ Known(e[k].target) =>
                     target[e[i].target].host # target[e[k].target].host

Strict ==
  /\ \A s \in Session : PlanFits(plan[s])
  /\ Len(adding) <= 1 /\ \A i \in DOMAIN adding : AddFits(adding[i])
  /\ \A m \in Template : EntriesFit(template[m])

PlanInv ==
  /\ TypeOK /\ Unplanned /\ Saved
  /\ ~loose => Strict
  /\ OneCapturePerAp

-----------------------------------------------------------------------------
(* Sequences that are drawn from another one. *)

(* q has members of p at positions of their own.                           *)
Drawn(q, p) ==
  \E j \in [DOMAIN q -> DOMAIN p] :
    /\ \A i \in DOMAIN q : q[i] = p[j[i]]
    /\ \A i, k \in DOMAIN q : i # k => j[i] # j[k]

(* The k-th of a set of positions is one of them, and no two are the same. *)
LEMMA NthFacts ==
  ASSUME NEW n \in Nat, NEW I \in SUBSET (1..n)
  PROVE  /\ Cardinality(I) \in Nat
         /\ \A k \in 1..Cardinality(I) : Nth(I, k) \in I
         /\ \A k, l \in 1..Cardinality(I) : k # l => Nth(I, k) # Nth(I, l)
<1> DEFINE Upto(j) == {l \in I : l <= j}
           C == Cardinality(I)
           place == [i \in I |-> Cardinality(Upto(i))]
<1>1. IsFiniteSet(I) /\ C \in Nat
  <2>1. IsFiniteSet(1..n)   BY FS_Interval
  <2>2. IsFiniteSet(I)   BY <2>1, FS_Subset
  <2> QED BY <2>2, FS_CardinalityType
<1>2. ASSUME NEW j \in I
      PROVE  /\ j \in Upto(j) /\ IsFiniteSet(Upto(j)) /\ Cardinality(Upto(j)) \in 1..C
  <2>1. Upto(j) \in SUBSET I /\ j \in Upto(j)   OBVIOUS
  <2>2. IsFiniteSet(Upto(j)) /\ Cardinality(Upto(j)) <= C   BY <1>1, <2>1, FS_Subset
  <2>3. Cardinality(Upto(j)) \in Nat   BY <2>2, FS_CardinalityType
  <2>4. Cardinality(Upto(j)) # 0   BY <2>1, <2>2, FS_EmptySet
  <2> QED BY <1>1, <2>1, <2>2, <2>3, <2>4
<1>3. ASSUME NEW j \in I, NEW l \in I, j < l
      PROVE  Cardinality(Upto(j)) # Cardinality(Upto(l))
  <2>1. j \in Int /\ l \in Int /\ \A x \in I : x \in Int   OBVIOUS
  <2>2. \A x \in I : x <= j => x <= l   BY <1>3, <2>1
  <2>3. ~(l <= j)   BY <1>3, <2>1
  <2>4. Upto(j) \in SUBSET Upto(l) /\ l \notin Upto(j)   BY <2>2, <2>3
  <2>5. l \in Upto(l) /\ IsFiniteSet(Upto(l))   BY <1>2
  <2> HIDE DEF Upto
  <2> QED BY <2>4, <2>5, FS_Subset
<1> HIDE DEF Upto
<1>4. place \in [I -> 1..C]   BY <1>2
<1>5. \A j, l \in I : place[j] = place[l] => j = l
  <2> TAKE j, l \in I
  <2>1. j < l \/ l < j \/ j = l   OBVIOUS
  <2> QED BY <1>3, <2>1
<1>6. place \in Injection(I, 1..C)
  <2> HIDE DEF place
  <2> QED BY <1>4, <1>5 DEF Injection, IsInjective
<1>7. IsFiniteSet(1..C) /\ Cardinality(1..C) = C   BY <1>1, FS_Interval
<1>8. place \in Surjection(I, 1..C)
  <2> HIDE DEF place, C
  <2> QED BY <1>6, <1>7, FS_Injection DEF C
<1>9. \A k \in 1..C : \E i \in I : place[i] = k
  <2> HIDE DEF place
  <2> QED BY <1>8 DEF Surjection
<1>10. \A k \in 1..C : Nth(I, k) = CHOOSE i \in I : place[i] = k
  <2> TAKE k \in 1..C
  <2>1. Nth(I, k) = CHOOSE i \in I : Cardinality(Upto(i)) = k   BY DEF Nth, Upto
  <2>2. \A i \in I : place[i] = Cardinality(Upto(i))   OBVIOUS
  <2> QED BY <2>1, <2>2
<1> HIDE DEF place
<1>11. \A k \in 1..C : Nth(I, k) \in I /\ place[Nth(I, k)] = k   BY <1>9, <1>10
<1> QED BY <1>1, <1>11

(* A sequence is drawn from by a function from positions to positions.     *)
LEMMA KeptFacts ==
  ASSUME NEW p \in Seq(Row0)
  PROVE  /\ Kept(p) \in Seq(Row0) /\ Drawn(Kept(p), p)
         /\ \A i \in DOMAIN Kept(p) : Kept(p)[i].target # NoTarget
<1> DEFINE I == {i \in DOMAIN p : p[i].target # NoTarget}
           C == Cardinality(I)
           j == [k \in 1..C |-> Nth(I, k)]
           q == Kept(p)
<1>1. Len(p) \in Nat /\ DOMAIN p = 1..Len(p) /\ \A i \in DOMAIN p : p[i] \in Row0
  BY ElementOfSeq
<1>2. I \in SUBSET (1..Len(p))   BY <1>1
<1>3. q = [k \in 1..C |-> p[Nth(I, k)]]   BY DEF Kept, AtPositions
<1>4. \A i \in I : i \in DOMAIN p /\ p[i].target # NoTarget   OBVIOUS
<1> HIDE DEF I, q
<1>5. /\ C \in Nat /\ \A k \in 1..C : Nth(I, k) \in I
      /\ \A k, l \in 1..C : k # l => Nth(I, k) # Nth(I, l)
  BY <1>1, <1>2, NthFacts
<1>6. DOMAIN q = 1..C /\ \A k \in 1..C : q[k] = p[Nth(I, k)]   BY <1>3
<1>7. q \in [1..C -> Row0]   BY <1>1, <1>3, <1>4, <1>5
<1>8. q \in Seq(Row0)   BY <1>5, <1>7, SeqDef
<1>9. j \in [DOMAIN q -> DOMAIN p]   BY <1>4, <1>5, <1>6
<1>10. \A k \in DOMAIN q : q[k] = p[j[k]]   BY <1>6
<1>11. \A k, l \in DOMAIN q : k # l => j[k] # j[l]   BY <1>5, <1>6
<1>12. Drawn(q, p)
  <2> HIDE DEF j
  <2> QED BY <1>9, <1>10, <1>11 DEF Drawn
<1>13. \A k \in DOMAIN q : q[k].target # NoTarget   BY <1>4, <1>5, <1>6
<1> QED BY <1>8, <1>12, <1>13 DEF q

LEMMA WithoutFacts ==
  ASSUME NEW p \in Seq(Row0), NEW k \in DOMAIN p
  PROVE  Without(p, k) \in Seq(Row0) /\ Drawn(Without(p, k), p)
<1> DEFINE n == Len(p) - 1
           j == [i \in 1..n |-> IF i < k THEN i ELSE i + 1]
           q == Without(p, k)
<1>1. Len(p) \in Nat /\ DOMAIN p = 1..Len(p) /\ \A i \in DOMAIN p : p[i] \in Row0
  BY ElementOfSeq
<1>2. k \in 1..Len(p) /\ n \in Nat   BY <1>1
<1>3. \A i \in 1..n : (IF i < k THEN i ELSE i + 1) \in 1..Len(p)   BY <1>2
<1>4. q = [i \in 1..n |-> IF i < k THEN p[i] ELSE p[i+1]]   BY DEF Without
<1> HIDE DEF n, q
<1>5. j \in [1..n -> DOMAIN p]   BY <1>1, <1>3
<1>6. \A i \in 1..n : q[i] = p[j[i]]   BY <1>4
<1>7. \A i, l \in 1..n : i # l => j[i] # j[l]   BY <1>2
<1>8. DOMAIN q = 1..n   BY <1>4
<1> HIDE DEF j
<1>9. q = [i \in 1..n |-> q[i]]   BY <1>4
<1>10. q \in [1..n -> Row0]   BY <1>1, <1>5, <1>6, <1>9
<1>11. q \in Seq(Row0)   BY <1>2, <1>10, SeqDef
<1>12. Drawn(q, p)   BY <1>5, <1>6, <1>7, <1>8 DEF Drawn
<1> QED BY <1>11, <1>12 DEF q

(* What is drawn from rows that fit, fits.                                 *)
LEMMA DrawnFits ==
  ASSUME NEW p, NEW q, PlanFits(p), Drawn(q, p)
  PROVE  PlanFits(q)
<1>1. PICK j \in [DOMAIN q -> DOMAIN p] :
        /\ \A i \in DOMAIN q : q[i] = p[j[i]]
        /\ \A i, k \in DOMAIN q : i # k => j[i] # j[k]
  BY DEF Drawn
<1>2. \A i \in DOMAIN q : j[i] \in DOMAIN p   BY <1>1
<1>3. Apart(q)   BY <1>1, <1>2 DEF PlanFits, Apart
<1>4. \A i \in DOMAIN q : Placed(q[i])   BY <1>1, <1>2 DEF PlanFits
<1> QED BY <1>3, <1>4 DEF PlanFits

-----------------------------------------------------------------------------
(* The steps. *)

LEMMA Constants ==
  /\ NoTarget \notin Target /\ NoHost \notin Host /\ "file" \in Mode
  /\ Unborn \in Place /\ Gone \in Place /\ Unborn # Gone
  /\ Unborn.host = NoHost /\ Gone.host = NoHost
  BY PlanningAssumption DEF Unborn, Gone, Place

(* An address is what tells a place from the two that are none.            *)
LEMMA KnownHost ==
  ASSUME TypeOK, NEW t \in Target
  PROVE  /\ Known(t) <=> target[t].host # NoHost
         /\ Known(t) => Born(t) /\ target[t].host \in Host
         /\ target[t].host \in Host \cup {NoHost}
<1>1. target[t] \in Place   BY DEF TypeOK
<1>2. target[t] \in {Unborn, Gone} <=> target[t].host = NoHost
  BY <1>1 DEF Unborn, Gone, Place
<1> QED BY <1>1, <1>2 DEF Known, Born, Place

(* The rows of a plan, of the adds, and the entries of a template.         *)
LEMMA RowsTyped ==
  ASSUME TypeOK
  PROVE  /\ \A s \in Session : /\ plan[s] \in Seq(Row0)
                               /\ \A i \in DOMAIN plan[s] : plan[s][i] \in Row0
         /\ \A i \in DOMAIN adding :
              adding[i].session \in Session /\ adding[i].row \in Row0
         /\ \A m \in Template : /\ template[m] \in Seq(Entry)
                                /\ \A i \in DOMAIN template[m] : template[m][i].target \in Target
<1>1. \A s \in Session : plan[s] \in Seq(Row0)   BY DEF TypeOK
<1>2. \A s \in Session : \A i \in DOMAIN plan[s] : plan[s][i] \in Row0
  BY <1>1, ElementOfSeq
<1> DEFINE Add == [session : Session, row : Row0]
<1>3. \A i \in DOMAIN adding : adding[i] \in Add
  <2>1. adding \in Seq(Add) /\ DOMAIN adding = 1..Len(adding)   BY DEF TypeOK
  <2> HIDE DEF Add
  <2> QED BY <2>1, ElementOfSeq
<1>4. \A m \in Template : template[m] \in Seq(Entry)   BY DEF TypeOK
<1>5. \A m \in Template : \A i \in DOMAIN template[m] : template[m][i] \in Entry
  BY <1>4, ElementOfSeq
<1>6. \A e \in Entry : e.target \in Target   BY DEF Entry
<1>7. \A a \in [session : Session, row : Row0] : a.session \in Session /\ a.row \in Row0
  OBVIOUS
<1> QED BY <1>1, <1>2, <1>3, <1>4, <1>5, <1>6, <1>7

LEMMA LaunchTyped ==
  ASSUME NEW a \in Row0
  PROVE  Spec1(a) \in Launch
  BY DEF Spec1, Launch, Row0

LEMMA InventoryTyped ==
  ASSUME TypeOK, CreateTarget \/ UpdateTarget \/ DeleteTarget \/ DeleteController
  PROVE  TypeOK'
<1> USE DEF inventory, sessions, templates
<1>1. \A h \in Host, z \in BOOLEAN : [host |-> h, sz |-> z] \in Place   BY DEF Place
<1>2. CASE CreateTarget   BY <1>1, <1>2 DEF CreateTarget, TypeOK
<1>3. CASE UpdateTarget   BY <1>1, <1>3 DEF UpdateTarget, TypeOK
<1>4. CASE DeleteController
  <2>1. PICK t \in Target : target' = [target EXCEPT ![t].sz = FALSE]
    BY <1>4 DEF DeleteController
  <2>2. target' \in [Target -> Place]   BY <2>1 DEF TypeOK, Place
  <2> QED BY <1>4, <2>2 DEF DeleteController, TypeOK
<1>5. CASE DeleteTarget
  <2>1. PICK t \in Target :
          /\ target' = [target EXCEPT ![t] = Gone]
          /\ plan' = IF ForeignKeys THEN [s \in Session |-> Orphaned(plan[s], t)] ELSE plan
    BY <1>5 DEF DeleteTarget
  <2>2. target' \in [Target -> Place]   BY <2>1, Constants DEF TypeOK
  <2>3. ASSUME NEW s \in Session PROVE Orphaned(plan[s], t) \in Seq(Row0)
    <3>1. plan[s] \in Seq(Row0) /\ Len(plan[s]) \in Nat /\ DOMAIN plan[s] = 1..Len(plan[s])
          /\ \A i \in DOMAIN plan[s] : plan[s][i] \in Row0
      BY RowsTyped
    <3>2. \A a \in Row0 : [a EXCEPT !.target = NoTarget] \in Row0   BY DEF Row0
    <3>3. Orphaned(plan[s], t) \in [1..Len(plan[s]) -> Row0]   BY <3>1, <3>2 DEF Orphaned
    <3> QED BY <3>1, <3>3, SeqDef
  <2>4. plan' \in [Session -> Seq(Row0)]   BY <2>1, <2>3 DEF TypeOK
  <2> QED BY <1>5, <2>2, <2>4 DEF DeleteTarget, TypeOK
<1> QED BY <1>2, <1>3, <1>4, <1>5

LEMMA DraftTyped ==
  ASSUME TypeOK, CreateSession \/ AddRead \/ AddCommit \/ DeleteAssignment \/ StartSession
  PROVE  TypeOK'
<1> USE DEF inventory, sessions, templates
<1>1. CASE CreateSession   BY <1>1 DEF CreateSession, TypeOK
<1>2. CASE AddRead
  <2>1. PICK s \in Session, t \in Target, m \in Mode :
          /\ Known(t)
          /\ adding' = Append(adding,
               [session |-> s, row |-> [target |-> t, host |-> target[t].host, mode |-> m]])
    BY <1>2 DEF AddRead
  <2>2. [target |-> t, host |-> target[t].host, mode |-> m] \in Row0   BY KnownHost DEF Row0
  <2>3. adding' \in Seq([session : Session, row : Row0])
    <3> DEFINE a == [session |-> s,
                     row |-> [target |-> t, host |-> target[t].host, mode |-> m]]
    <3>1. a \in [session : Session, row : Row0]   BY <2>2
    <3>2. adding' = Append(adding, a)   BY <2>1
    <3> HIDE DEF a
    <3> QED BY <3>1, <3>2, AppendProperties DEF TypeOK
  <2>4. loose' \in BOOLEAN   BY <1>2 DEF AddRead
  <2> QED BY <1>2, <2>3, <2>4 DEF AddRead, TypeOK
<1>3. CASE AddCommit
  <2>1. adding \in Seq([session : Session, row : Row0]) /\ adding # << >>
    BY <1>3 DEF AddCommit, TypeOK
  <2>2. adding' = Tail(adding) /\ UNCHANGED <<target, status, template, asked, launched, loose>>
    BY <1>3 DEF AddCommit
  <2>3. adding' \in Seq([session : Session, row : Row0])   BY <2>1, <2>2
  <2>4. 1 \in DOMAIN adding /\ Head(adding) = adding[1]   BY <2>1
  <2>5. Head(adding).session \in Session /\ Head(adding).row \in Row0   BY <2>4, RowsTyped
  <2>6. plan' \in [Session -> Seq(Row0)]
    <3>1. \/ plan' = plan
          \/ plan' = [plan EXCEPT ![Head(adding).session] = Append(@, Head(adding).row)]
      BY <1>3 DEF AddCommit
    <3>2. Append(plan[Head(adding).session], Head(adding).row) \in Seq(Row0)
      BY <2>5, RowsTyped, AppendProperties
    <3> QED BY <3>1, <3>2 DEF TypeOK
  <2> QED BY <2>2, <2>3, <2>6 DEF TypeOK
<1>4. CASE DeleteAssignment
  <2>1. PICK s \in Session : \E i \in DOMAIN plan[s] :
          plan' = [plan EXCEPT ![s] = Without(@, i)]
    BY <1>4 DEF DeleteAssignment
  <2>2. PICK i \in DOMAIN plan[s] : plan' = [plan EXCEPT ![s] = Without(@, i)]   BY <2>1
  <2>3. Without(plan[s], i) \in Seq(Row0)   BY RowsTyped, WithoutFacts
  <2>4. plan' \in [Session -> Seq(Row0)]   BY <2>2, <2>3 DEF TypeOK
  <2> QED BY <1>4, <2>4 DEF DeleteAssignment, TypeOK
<1>5. CASE StartSession
  <2>1. PICK s \in Session :
          /\ status' = [status EXCEPT ![s] = "running"]
          /\ launched' = [launched EXCEPT ![s] = [i \in DOMAIN plan[s] |-> Spec1(plan[s][i])]]
    BY <1>5 DEF StartSession
  <2>2. Len(plan[s]) \in Nat /\ DOMAIN plan[s] = 1..Len(plan[s])   BY RowsTyped
  <2>3. [i \in DOMAIN plan[s] |-> Spec1(plan[s][i])] \in [1..Len(plan[s]) -> Launch]
    BY <2>2, RowsTyped, LaunchTyped
  <2>4. [i \in DOMAIN plan[s] |-> Spec1(plan[s][i])] \in Seq(Launch)   BY <2>2, <2>3, SeqDef
  <2>5. launched' \in [Session -> Seq(Launch)]   BY <2>1, <2>4 DEF TypeOK
  <2> QED BY <1>5, <2>1, <2>5 DEF StartSession, TypeOK
<1> QED BY <1>1, <1>2, <1>3, <1>4, <1>5

LEMMA EntriesTyped ==
  ASSUME NEW p \in Seq(Row0)
  PROVE  /\ Entries(p) \in Seq(Entry) /\ Kept(p) \in Seq(Row0 \cup Entry)
         /\ Replays(Entries(p), Kept(p))
<1> DEFINE q == Kept(p)
<1>1. q \in Seq(Row0) /\ Len(q) \in Nat /\ DOMAIN q = 1..Len(q)
      /\ \A i \in DOMAIN q : q[i] \in Row0 /\ q[i].target # NoTarget
  BY KeptFacts, ElementOfSeq
<1>2. Entries(p) = [i \in DOMAIN q |-> [target |-> q[i].target, mode |-> "file"]]
  BY DEF Entries
<1> HIDE DEF q
<1>3. \A i \in DOMAIN q : [target |-> q[i].target, mode |-> "file"] \in Entry
  BY <1>1, Constants DEF Row0, Entry
<1>4. Entries(p) \in [1..Len(q) -> Entry]   BY <1>1, <1>2, <1>3
<1>5. Entries(p) \in Seq(Entry)   BY <1>1, <1>4, SeqDef
<1>6. Len(Entries(p)) = Len(q)   BY <1>1, <1>4, <1>5
<1>7. \A i \in DOMAIN Entries(p) : Entries(p)[i].target = q[i].target   BY <1>2
<1>8. q \in [1..Len(q) -> Row0 \cup Entry]   BY <1>1
<1>9. q \in Seq(Row0 \cup Entry)   BY <1>1, <1>8, SeqDef
<1> QED BY <1>5, <1>6, <1>7, <1>9 DEF q, Replays

LEMMA InstanceTyped ==
  ASSUME TypeOK, NEW e \in Seq(Entry)
  PROVE  LET p == [i \in DOMAIN e |-> Row(e[i])]
         IN  /\ p \in Seq(Row0) /\ Len(p) = Len(e) /\ DOMAIN p = DOMAIN e
             /\ \A i \in DOMAIN e :
                  /\ e[i].target \in Target /\ p[i].target = e[i].target
                  /\ p[i].host = IF Known(e[i].target) THEN target[e[i].target].host
                                 ELSE NoHost
<1> DEFINE p == [i \in DOMAIN e |-> Row(e[i])]
<1>1. Len(e) \in Nat /\ DOMAIN e = 1..Len(e) /\ \A i \in DOMAIN e : e[i] \in Entry
  BY ElementOfSeq
<1>2. \A x \in Entry : /\ x.target \in Target /\ Row(x).target = x.target
                       /\ Row(x).host = IF Known(x.target) THEN target[x.target].host
                                        ELSE NoHost
  BY DEF Entry, Row
<1>3. \A x \in Entry : Row(x) \in Row0   BY <1>2, KnownHost, Constants DEF Row, Row0
<1>4. p \in [1..Len(e) -> Row0]   BY <1>1, <1>3
<1>5. p \in Seq(Row0) /\ Len(p) = Len(e) /\ DOMAIN p = DOMAIN e   BY <1>1, <1>4, SeqDef
<1>6. \A i \in DOMAIN e : p[i] = Row(e[i])   OBVIOUS
<1> HIDE DEF p
<1> QED BY <1>1, <1>2, <1>5, <1>6 DEF p

LEMMA TemplatesTyped ==
  ASSUME TypeOK, SaveTemplate \/ CreateTemplate \/ DeleteTemplate \/ Instantiate
  PROVE  TypeOK'
<1> USE DEF inventory, sessions, templates
<1>1. CASE SaveTemplate
  <2>1. PICK m \in Template, s \in Session :
          /\ template' = [template EXCEPT ![m] = Entries(plan[s])]
          /\ asked' = [asked EXCEPT ![m] = Kept(plan[s])]
    BY <1>1 DEF SaveTemplate
  <2>2. Entries(plan[s]) \in Seq(Entry) /\ Kept(plan[s]) \in Seq(Row0 \cup Entry)
    BY RowsTyped, EntriesTyped
  <2>3. /\ template' \in [Template -> Seq(Entry)]
        /\ asked' \in [Template -> Seq(Row0 \cup Entry)]
    BY <2>1, <2>2 DEF TypeOK
  <2> QED BY <1>1, <2>3 DEF SaveTemplate, TypeOK
<1>2. CASE CreateTemplate
  <2>1. PICK m \in Template, n \in 1..MaxPlan :
          \E e \in [1..n -> [target : Target, mode : Mode]] :
            /\ template' = [template EXCEPT ![m] = e]
            /\ asked' = [asked EXCEPT ![m] = e]
    BY <1>2 DEF CreateTemplate
  <2>2. PICK e \in [1..n -> Entry] : /\ template' = [template EXCEPT ![m] = e]
                                     /\ asked' = [asked EXCEPT ![m] = e]
    BY <2>1 DEF Entry
  <2>3. n \in Nat   BY PlanningAssumption
  <2>4. e \in Seq(Entry)   BY <2>2, <2>3, SeqDef
  <2>5. e \in [1..n -> Row0 \cup Entry]   BY <2>2
  <2>6. e \in Seq(Row0 \cup Entry)   BY <2>3, <2>5, SeqDef
  <2>7. /\ template' \in [Template -> Seq(Entry)]
        /\ asked' \in [Template -> Seq(Row0 \cup Entry)]
    BY <2>2, <2>4, <2>6 DEF TypeOK
  <2> QED BY <1>2, <2>7 DEF CreateTemplate, TypeOK
<1>3. CASE DeleteTemplate
  <2>1. << >> \in Seq(Entry) /\ << >> \in Seq(Row0 \cup Entry)   OBVIOUS
  <2> QED BY <1>3, <2>1 DEF DeleteTemplate, TypeOK
<1>4. CASE Instantiate
  <2>1. PICK m \in Template, s \in Session :
          /\ status' = [status EXCEPT ![s] = "draft"]
          /\ plan' = [plan EXCEPT ![s] = [i \in DOMAIN template[m] |-> Row(template[m][i])]]
    BY <1>4 DEF Instantiate
  <2>2. [i \in DOMAIN template[m] |-> Row(template[m][i])] \in Seq(Row0)
    BY RowsTyped, InstanceTyped
  <2>3. plan' \in [Session -> Seq(Row0)]   BY <2>1, <2>2 DEF TypeOK
  <2> QED BY <1>4, <2>1, <2>3 DEF Instantiate, TypeOK
<1> QED BY <1>1, <1>2, <1>3, <1>4

LEMMA TypeKept == TypeOK /\ [Next]_vars => TypeOK'
<1> SUFFICES ASSUME TypeOK, [Next]_vars PROVE TypeOK'   OBVIOUS
<1>1. CASE UNCHANGED vars   BY <1>1 DEF vars, TypeOK
<1> QED BY <1>1, InventoryTyped, DraftTyped, TemplatesTyped DEF Next

-----------------------------------------------------------------------------
(* What is planned in a session, and what a template replays. *)

(* A session that does not exist gets rows from a template, and from       *)
(* nothing else.                                                           *)
LEMMA PlannedFrom ==
  ASSUME TypeOK, Unplanned, Next, NEW s \in Session, status[s] = "none"
  PROVE  \/ plan'[s] = << >>
         \/ /\ status'[s] = "draft"
            /\ \E m \in Template :
                 plan'[s] = [i \in DOMAIN template[m] |-> Row(template[m][i])]
<1>1. plan[s] = << >>   BY DEF Unplanned
<1>2. CASE UNCHANGED plan   BY <1>1, <1>2
<1>3. CASE DeleteTarget
  <2>1. PICK t \in Target :
          plan' = IF ForeignKeys THEN [r \in Session |-> Orphaned(plan[r], t)] ELSE plan
    BY <1>3 DEF DeleteTarget
  <2>2. Orphaned(<< >>, t) = << >>   BY DEF Orphaned
  <2> QED BY <1>1, <2>1, <2>2
<1>4. CASE AddCommit
  <2>1. adding \in Seq([session : Session, row : Row0]) /\ adding # << >>
    BY <1>4 DEF AddCommit, TypeOK
  <2>2. 1 \in DOMAIN adding /\ Head(adding) = adding[1]   BY <2>1
  <2>3. Head(adding).session # s   BY <2>2 DEF Unplanned
  <2>4. \/ plan' = plan
        \/ plan' = [plan EXCEPT ![Head(adding).session] = Append(@, Head(adding).row)]
    BY <1>4 DEF AddCommit
  <2> QED BY <1>1, <2>3, <2>4 DEF TypeOK
<1>5. CASE DeleteAssignment
  <2>1. PICK r \in Session : /\ status[r] = "draft"
                             /\ \E i \in DOMAIN plan[r] :
                                  plan' = [plan EXCEPT ![r] = Without(@, i)]
    BY <1>5 DEF DeleteAssignment
  <2> QED BY <1>1, <2>1 DEF TypeOK
<1>6. CASE Instantiate
  <2>1. PICK m \in Template, r \in Session :
          /\ status' = [status EXCEPT ![r] = "draft"]
          /\ plan' = [plan EXCEPT ![r] = [i \in DOMAIN template[m] |-> Row(template[m][i])]]
    BY <1>6 DEF Instantiate
  <2>2. CASE r = s   BY <2>1, <2>2 DEF TypeOK
  <2>3. CASE r # s   BY <1>1, <2>1, <2>3 DEF TypeOK
  <2> QED BY <2>2, <2>3
<1>7. CASE CreateTarget \/ UpdateTarget \/ DeleteController \/ CreateSession \/ AddRead
           \/ SaveTemplate \/ CreateTemplate \/ DeleteTemplate \/ StartSession
  <2>1. UNCHANGED plan
    BY <1>7 DEF CreateTarget, UpdateTarget, DeleteController, CreateSession, AddRead,
                SaveTemplate, CreateTemplate, DeleteTemplate, StartSession, sessions
  <2> QED BY <1>2, <2>1
<1> QED BY <1>3, <1>4, <1>5, <1>6, <1>7 DEF Next

(* A session, once there, stays; a request to add is made for a draft.     *)
LEMMA StatusMoves ==
  ASSUME TypeOK, Next
  PROVE  /\ \A s \in Session : status'[s] = "none" => status[s] = "none"
         /\ \A i \in DOMAIN adding' : \/ \E k \in DOMAIN adding : adding'[i] = adding[k]
                                      \/ status'[adding'[i].session] # "none"
<1>1. CASE AddRead
  <2>1. PICK s \in Session, t \in Target, m \in Mode :
          /\ status[s] = "draft"
          /\ adding' = Append(adding,
               [session |-> s, row |-> [target |-> t, host |-> target[t].host, mode |-> m]])
    BY <1>1 DEF AddRead
  <2> DEFINE a == [session |-> s,
                   row |-> [target |-> t, host |-> target[t].host, mode |-> m]]
  <2>2. adding' = Append(adding, a) /\ a.session = s   BY <2>1
  <2> HIDE DEF a
  <2>3. \A i \in DOMAIN adding' : \/ i \in DOMAIN adding /\ adding'[i] = adding[i]
                                  \/ adding'[i] = a
    BY <2>2 DEF TypeOK
  <2>4. UNCHANGED status   BY <1>1 DEF AddRead
  <2> QED BY <2>1, <2>2, <2>3, <2>4
<1>2. CASE AddCommit
  <2>1. adding' = Tail(adding) /\ adding # << >> /\ UNCHANGED status   BY <1>2 DEF AddCommit
  <2>2. \A i \in DOMAIN Tail(adding) : i + 1 \in DOMAIN adding /\ Tail(adding)[i] = adding[i+1]
    BY <2>1 DEF TypeOK
  <2> QED BY <2>1, <2>2
<1>3. CASE CreateSession \/ Instantiate \/ StartSession
  <2>1. \E s \in Session, x \in {"draft", "running"} : status' = [status EXCEPT ![s] = x]
    BY <1>3 DEF CreateSession, Instantiate, StartSession
  <2>2. adding' = adding   BY <1>3 DEF CreateSession, Instantiate, StartSession
  <2> QED BY <2>1, <2>2 DEF TypeOK
<1>4. CASE CreateTarget \/ UpdateTarget \/ DeleteTarget \/ DeleteController
           \/ DeleteAssignment \/ SaveTemplate \/ CreateTemplate \/ DeleteTemplate
  BY <1>4 DEF CreateTarget, UpdateTarget, DeleteTarget, DeleteController, sessions,
              DeleteAssignment, SaveTemplate, CreateTemplate, DeleteTemplate
<1> QED BY <1>1, <1>2, <1>3, <1>4 DEF Next

LEMMA UnplannedKept ==
  ASSUME TypeOK, Unplanned, Next
  PROVE  Unplanned'
<1>1. ASSUME NEW s \in Session, status'[s] = "none" PROVE plan'[s] = << >>
  <2>1. status[s] = "none"   BY <1>1, StatusMoves
  <2> QED BY <1>1, <2>1, PlannedFrom
<1>2. ASSUME NEW i \in DOMAIN adding' PROVE status'[adding'[i].session] # "none"
  <2>1. CASE \E k \in DOMAIN adding : adding'[i] = adding[k]
    <3>1. PICK k \in DOMAIN adding : adding'[i] = adding[k]   BY <2>1
    <3>2. status[adding[k].session] # "none" /\ adding[k].session \in Session
      BY RowsTyped DEF Unplanned
    <3> QED BY <3>1, <3>2, StatusMoves
  <2> QED BY <2>1, StatusMoves
<1> QED BY <1>1, <1>2 DEF Unplanned

LEMMA SavedKept ==
  ASSUME TypeOK, Saved, Next
  PROVE  Saved'
<1> USE DEF inventory, sessions, templates
<1>1. CASE SaveTemplate
  <2>1. PICK m \in Template, s \in Session :
          /\ template' = [template EXCEPT ![m] = Entries(plan[s])]
          /\ asked' = [asked EXCEPT ![m] = Kept(plan[s])]
    BY <1>1 DEF SaveTemplate
  <2>2. Replays(Entries(plan[s]), Kept(plan[s]))   BY RowsTyped, EntriesTyped
  <2> QED BY <2>1, <2>2 DEF Saved, TypeOK
<1>2. CASE CreateTemplate
  <2>1. PICK m \in Template, n \in 1..MaxPlan :
          \E e \in [1..n -> [target : Target, mode : Mode]] :
            /\ template' = [template EXCEPT ![m] = e]
            /\ asked' = [asked EXCEPT ![m] = e]
    BY <1>2 DEF CreateTemplate
  <2> QED BY <2>1 DEF Saved, TypeOK, Replays
<1>3. CASE DeleteTemplate
  <2>1. PICK m \in Template : /\ template' = [template EXCEPT ![m] = << >>]
                              /\ asked' = [asked EXCEPT ![m] = << >>]
    BY <1>3 DEF DeleteTemplate
  <2>2. Replays(<< >>, << >>)   BY DEF Replays
  <2> QED BY <2>1, <2>2 DEF Saved, TypeOK
<1>4. CASE UNCHANGED templates   BY <1>4 DEF Saved
<1>5. CASE CreateTarget \/ UpdateTarget \/ DeleteTarget \/ DeleteController \/ CreateSession
           \/ AddRead \/ AddCommit \/ DeleteAssignment \/ Instantiate \/ StartSession
  <2>1. UNCHANGED templates
    BY <1>5 DEF CreateTarget, UpdateTarget, DeleteTarget, DeleteController, CreateSession,
                AddRead, AddCommit, DeleteAssignment, Instantiate, StartSession
  <2> QED BY <1>4, <2>1
<1> QED BY <1>1, <1>2, <1>3, <1>5 DEF Next

-----------------------------------------------------------------------------
(* One capture per access point. *)

(* A target that is there stays where it is, until it is gone for good.    *)
Stays ==
  \A t \in Target :
    Born(t) => /\ Born(t)'
               /\ Known(t)' => Known(t) /\ target'[t].host = target[t].host

LEMMA TargetsStay ==
  ASSUME TypeOK, Next, ~loose'
  PROVE  Stays
<1>1. CASE UNCHANGED target   BY <1>1 DEF Stays, Born, Known
<1>2. CASE CreateTarget
  <2>1. PICK t \in Target, h \in Host, z \in BOOLEAN :
          target[t] = Unborn /\ target' = [target EXCEPT ![t] = [host |-> h, sz |-> z]]
    BY <1>2 DEF CreateTarget
  <2>2. \A u \in Target : u # t => target'[u] = target[u]   BY <2>1 DEF TypeOK
  <2> QED BY <2>1, <2>2 DEF Stays, Born, Known
<1>3. CASE UpdateTarget \/ CreateTemplate   BY <1>3 DEF UpdateTarget, CreateTemplate
<1>4. CASE DeleteTarget
  <2>1. PICK t \in Target : target' = [target EXCEPT ![t] = Gone]   BY <1>4 DEF DeleteTarget
  <2>2. target'[t] = Gone /\ \A u \in Target : u # t => target'[u] = target[u]
    BY <2>1 DEF TypeOK
  <2> QED BY <2>2, Constants DEF Stays, Born, Known
<1>5. CASE DeleteController
  <2>1. PICK t \in Target : Known(t) /\ target' = [target EXCEPT ![t].sz = FALSE]
    BY <1>5 DEF DeleteController
  <2>2. target'[t] = [target[t] EXCEPT !.sz = FALSE]
        /\ \A u \in Target : u # t => target'[u] = target[u]
    BY <2>1 DEF TypeOK
  <2>3. target[t] \in Place   BY DEF TypeOK
  <2>4. target'[t].host = target[t].host   BY <2>2, <2>3 DEF Place
  <2>5. target'[t] # Unborn   BY <2>1, <2>4, KnownHost, Constants
  <2> QED BY <2>1, <2>2, <2>4, <2>5 DEF Stays, Born, Known
<1>6. CASE CreateSession \/ AddRead \/ AddCommit \/ DeleteAssignment \/ SaveTemplate
           \/ DeleteTemplate \/ Instantiate \/ StartSession
  <2>1. UNCHANGED target
    BY <1>6 DEF CreateSession, AddRead, AddCommit, DeleteAssignment, SaveTemplate,
                DeleteTemplate, Instantiate, StartSession, inventory
  <2> QED BY <1>1, <2>1
<1> QED BY <1>2, <1>3, <1>4, <1>5, <1>6 DEF Next

(* Then what fits, a row or the entries of a template, goes on fitting.    *)
LEMMA StaysKeeps ==
  ASSUME Stays
  PROVE  /\ \A a \in Row0 : Placed(a) => Placed(a)'
         /\ \A m \in Template :
              TypeOK /\ EntriesFit(template[m]) /\ template'[m] = template[m]
              => EntriesFit(template[m])'
<1>1. ASSUME NEW a \in Row0, Placed(a) PROVE Placed(a)'
  <2>1. a.target \in Target \cup {NoTarget}   BY DEF Row0
  <2> QED BY <1>1, <2>1 DEF Placed, Stays
<1>2. ASSUME NEW m \in Template, TypeOK, EntriesFit(template[m]), template'[m] = template[m]
      PROVE  EntriesFit(template[m])'
  <2>1. \A i \in DOMAIN template[m] : template[m][i].target \in Target   BY <1>2, RowsTyped
  <2>2. \A i \in DOMAIN template[m] : Born(template[m][i].target)   BY <1>2 DEF EntriesFit
  <2>3. \A i \in DOMAIN template[m] : Born(template[m][i].target)'
    BY <1>2, <2>1, <2>2 DEF Stays, Born
  <2>4. ASSUME NEW x \in Target, NEW y \in Target, Born(x), Born(y),
               Known(x) /\ Known(y) => target[x].host # target[y].host
        PROVE  Known(x)' /\ Known(y)' => target'[x].host # target'[y].host
    BY <2>4 DEF Stays
  <2>5. ASSUME NEW i \in DOMAIN template[m], NEW k \in DOMAIN template[m], i # k
        PROVE  /\ template[m][i].target # template[m][k].target
               /\ (Known(template[m][i].target) /\ Known(template[m][k].target) =>
                     target[template[m][i].target].host
                       # target[template[m][k].target].host)'
    <3> DEFINE x == template[m][i].target
               y == template[m][k].target
    <3>1. x # y /\ (Known(x) /\ Known(y) => target[x].host # target[y].host)
      BY <1>2, <2>5 DEF EntriesFit
    <3>2. x \in Target /\ y \in Target /\ Born(x) /\ Born(y)   BY <2>1, <2>2
    <3>3. template'[m][i].target = x /\ template'[m][k].target = y   BY <1>2
    <3> HIDE DEF x, y
    <3>4. PICK u \in Target, v \in Target : u = x /\ v = y   BY <3>2
    <3>5. Known(u)' /\ Known(v)' => target'[u].host # target'[v].host
      BY <2>4, <3>1, <3>2, <3>4
    <3>6. (Known(template[m][i].target) /\ Known(template[m][k].target) =>
             target[template[m][i].target].host # target[template[m][k].target].host)'
      BY <3>3, <3>4, <3>5 DEF Known, Unborn, Gone
    <3> QED BY <3>1, <3>6 DEF x, y
  <2> QED BY <1>2, <2>3, <2>5 DEF EntriesFit
<1> QED BY <1>1, <1>2

(* The plans: what is inserted shares neither address nor target with what *)
(* is there, and a template's rows share none among themselves.            *)
LEMMA PlansFit ==
  ASSUME TypeOK, Strict, Stays, Next, ~loose'
  PROVE  \A s \in Session : Apart(plan'[s]) /\ \A i \in DOMAIN plan'[s] : \E a \in Row0 :
           a = plan'[s][i] /\ Placed(a)'
<1> DEFINE Fits(p) == Apart(p) /\ \A i \in DOMAIN p : \E a \in Row0 : a = p[i] /\ Placed(a)'
<1>1. ASSUME NEW p \in Seq(Row0), PlanFits(p) PROVE Fits(p)
  <2>1. \A i \in DOMAIN p : p[i] \in Row0   BY ElementOfSeq
  <2> QED BY <1>1, <2>1, StaysKeeps DEF PlanFits
<1>2. \A s \in Session : plan[s] \in Seq(Row0) /\ PlanFits(plan[s]) /\ Fits(plan[s])
  BY <1>1, RowsTyped DEF Strict
<1> HIDE DEF Fits
<1>3. SUFFICES \A s \in Session : Fits(plan'[s])
  BY DEF Fits
<1>4. CASE UNCHANGED plan   BY <1>2, <1>4
<1>5. CASE DeleteTarget
  <2>1. PICK t \in Target :
          plan' = IF ForeignKeys THEN [s \in Session |-> Orphaned(plan[s], t)] ELSE plan
    BY <1>5 DEF DeleteTarget
  <2>2. ASSUME NEW s \in Session PROVE Fits(Orphaned(plan[s], t))
    <3> DEFINE p == plan[s]
               q == Orphaned(p, t)
    <3>1. p \in Seq(Row0) /\ PlanFits(p) /\ Fits(p)   BY <1>2
    <3>2. \A i \in DOMAIN p : p[i] \in Row0   BY <3>1, ElementOfSeq
    <3>3. q = [i \in DOMAIN p |-> IF p[i].target = t THEN [p[i] EXCEPT !.target = NoTarget]
                                  ELSE p[i]]
      BY DEF Orphaned
    <3> HIDE DEF p, q
    <3>4. ASSUME NEW i \in DOMAIN q
          PROVE  /\ i \in DOMAIN p /\ q[i] \in Row0 /\ q[i].host = p[i].host
                 /\ q[i] = p[i] \/ q[i].target = NoTarget
      BY <3>2, <3>3 DEF Row0
    <3>5. Apart(q)   BY <3>1, <3>4 DEF PlanFits, Apart
    <3>6. \A i \in DOMAIN q : \E a \in Row0 : a = q[i] /\ Placed(a)'
      <4> TAKE i \in DOMAIN q
      <4>1. PICK a \in Row0 : a = q[i]   BY <3>4
      <4>2. CASE q[i].target = NoTarget   BY <4>1, <4>2 DEF Placed
      <4>3. CASE q[i] = p[i]   BY <3>1, <3>4, <4>3 DEF Fits
      <4> QED BY <3>4, <4>2, <4>3
    <3> QED BY <3>5, <3>6 DEF Fits, q, p
  <2> QED BY <1>2, <2>1, <2>2
<1>6. CASE AddCommit
  <2>1. adding # << >> /\ adding \in Seq([session : Session, row : Row0])
    BY <1>6 DEF AddCommit, TypeOK
  <2>2. 1 \in DOMAIN adding /\ Head(adding) = adding[1]   BY <2>1
  <2>3. PICK r \in Session, a \in Row0 : r = Head(adding).session /\ a = Head(adding).row
    BY <2>2, RowsTyped
  <2>4. AddFits(adding[1])   BY <2>2 DEF Strict
  <2>5. /\ Placed(a) /\ a.host # NoHost /\ a.target # NoTarget
        /\ \A i \in DOMAIN plan[r] : plan[r][i].host # a.host /\ plan[r][i].target # a.target
    BY <2>2, <2>3, <2>4 DEF AddFits
  <2>6. plan' = plan \/ plan' = [plan EXCEPT ![r] = Append(@, a)]
    BY <1>6, <2>3 DEF AddCommit
  <2>7. Fits(Append(plan[r], a))
    <3> DEFINE p == plan[r]
               q == Append(p, a)
    <3>1. p \in Seq(Row0) /\ PlanFits(p) /\ Len(p) \in Nat /\ DOMAIN p = 1..Len(p)
      BY <1>2
    <3>2. /\ q \in Seq(Row0) /\ Len(q) = Len(p) + 1 /\ DOMAIN q = 1..Len(p)+1
          /\ q[Len(p)+1] = a /\ \A i \in 1..Len(p) : q[i] = p[i]
      BY <3>1, AppendProperties
    <3>3. \A i \in DOMAIN p : p[i].host # a.host /\ p[i].target # a.target   BY <2>5
    <3> HIDE DEF p, q
    <3>4. \A i \in DOMAIN q : (i \in DOMAIN p /\ q[i] = p[i]) \/ (i = Len(p)+1 /\ q[i] = a)
      BY <3>1, <3>2
    <3>5. PlanFits(q)
      <4>1. Apart(q)   BY <3>1, <3>3, <3>4 DEF PlanFits, Apart
      <4>2. \A i \in DOMAIN q : Placed(q[i])   BY <2>5, <3>1, <3>4 DEF PlanFits
      <4> QED BY <4>1, <4>2 DEF PlanFits
    <3> QED BY <1>1, <3>2, <3>5 DEF q, p
  <2> QED BY <1>2, <2>6, <2>7 DEF TypeOK
<1>7. CASE DeleteAssignment
  <2>1. PICK s \in Session : \E i \in DOMAIN plan[s] :
          plan' = [plan EXCEPT ![s] = Without(@, i)]
    BY <1>7 DEF DeleteAssignment
  <2>2. PICK i \in DOMAIN plan[s] : plan' = [plan EXCEPT ![s] = Without(@, i)]   BY <2>1
  <2>3. Without(plan[s], i) \in Seq(Row0) /\ Drawn(Without(plan[s], i), plan[s])
    BY <1>2, WithoutFacts
  <2>4. Fits(Without(plan[s], i))   BY <1>1, <1>2, <2>3, DrawnFits
  <2> QED BY <1>2, <2>2, <2>4 DEF TypeOK
<1>8. CASE Instantiate
  <2>1. PICK m \in Template, s \in Session :
          plan' = [plan EXCEPT ![s] = [i \in DOMAIN template[m] |-> Row(template[m][i])]]
    BY <1>8 DEF Instantiate
  <2> DEFINE e == template[m]
             p == [i \in DOMAIN e |-> Row(e[i])]
  <2>2. e \in Seq(Entry) /\ EntriesFit(e)   BY RowsTyped DEF Strict
  <2>3. /\ p \in Seq(Row0) /\ DOMAIN p = DOMAIN e
        /\ \A i \in DOMAIN e :
             /\ e[i].target \in Target /\ p[i].target = e[i].target
             /\ p[i].host = IF Known(e[i].target) THEN target[e[i].target].host ELSE NoHost
    BY <2>2, InstanceTyped
  <2>4. plan' = [plan EXCEPT ![s] = p]   BY <2>1
  <2> HIDE DEF e, p
  <2>5. Apart(p)
    <3>1. ASSUME NEW i \in DOMAIN p, NEW k \in DOMAIN p, i # k
          PROVE  /\ p[i].host = p[k].host => p[i].host = NoHost
                 /\ p[i].target # p[k].target
      <4>1. e[i].target # e[k].target /\ (Known(e[i].target) /\ Known(e[k].target) =>
              target[e[i].target].host # target[e[k].target].host)
        BY <2>2, <2>3, <3>1 DEF EntriesFit
      <4>2. /\ Known(e[i].target) => target[e[i].target].host # NoHost
            /\ Known(e[k].target) => target[e[k].target].host # NoHost
        BY <2>3, <3>1, KnownHost
      <4> QED BY <2>3, <3>1, <4>1, <4>2
    <3> QED BY <3>1 DEF Apart
  <2>6. \A i \in DOMAIN p : Placed(p[i])   BY <2>2, <2>3 DEF Placed, EntriesFit
  <2>7. Fits(p)   BY <1>1, <2>3, <2>5, <2>6 DEF PlanFits
  <2> QED BY <1>2, <2>4, <2>7 DEF TypeOK
<1>9. CASE CreateTarget \/ UpdateTarget \/ DeleteController \/ CreateSession \/ AddRead
           \/ SaveTemplate \/ CreateTemplate \/ DeleteTemplate \/ StartSession
  <2>1. UNCHANGED plan
    BY <1>9 DEF CreateTarget, UpdateTarget, DeleteController, CreateSession, AddRead,
                SaveTemplate, CreateTemplate, DeleteTemplate, StartSession, sessions
  <2> QED BY <1>4, <2>1
<1> QED BY <1>5, <1>6, <1>7, <1>8, <1>9 DEF Next

(* Whatever else happens to a plan while an add is under way: no address   *)
(* and no target is in it that was not there.                              *)
LEMMA RowsFrom ==
  ASSUME TypeOK, Next, UNCHANGED adding, NEW s \in Session, status[s] # "none"
  PROVE  \A k \in DOMAIN plan'[s] : \E i \in DOMAIN plan[s] :
           /\ plan'[s][k].host = plan[s][i].host
           /\ plan'[s][k].target \in {plan[s][i].target, NoTarget}
<1>1. CASE UNCHANGED plan   BY <1>1
<1>2. CASE DeleteTarget
  <2>1. PICK t \in Target :
          plan' = IF ForeignKeys THEN [r \in Session |-> Orphaned(plan[r], t)] ELSE plan
    BY <1>2 DEF DeleteTarget
  <2>2. \A i \in DOMAIN plan[s] : plan[s][i] \in Row0   BY RowsTyped
  <2>3. \A k \in DOMAIN Orphaned(plan[s], t) :
          /\ k \in DOMAIN plan[s]
          /\ Orphaned(plan[s], t)[k].host = plan[s][k].host
          /\ Orphaned(plan[s], t)[k].target \in {plan[s][k].target, NoTarget}
    BY <2>2 DEF Orphaned, Row0
  <2>4. plan'[s] = Orphaned(plan[s], t) \/ plan' = plan   BY <2>1
  <2> QED BY <1>1, <2>3, <2>4
<1>3. CASE AddCommit
  <2>1. adding \in Seq([session : Session, row : Row0]) /\ adding # << >>
        /\ adding' = Tail(adding)
    BY <1>3 DEF AddCommit, TypeOK
  <2>2. Len(Tail(adding)) = Len(adding) - 1 /\ Len(adding) \in Nat   BY <2>1
  <2> QED BY <2>1, <2>2
<1>4. CASE DeleteAssignment
  <2>1. PICK r \in Session : \E i \in DOMAIN plan[r] :
          plan' = [plan EXCEPT ![r] = Without(@, i)]
    BY <1>4 DEF DeleteAssignment
  <2>2. PICK i \in DOMAIN plan[r] : plan' = [plan EXCEPT ![r] = Without(@, i)]   BY <2>1
  <2>3. Drawn(Without(plan[r], i), plan[r])   BY RowsTyped, WithoutFacts
  <2>4. \A k \in DOMAIN Without(plan[r], i) : \E l \in DOMAIN plan[r] :
          Without(plan[r], i)[k] = plan[r][l]
    BY <2>3 DEF Drawn
  <2>5. CASE r = s
    <3>1. plan'[s] = Without(plan[r], i)   BY <2>2, <2>5 DEF TypeOK
    <3> QED BY <2>4, <2>5, <3>1
  <2>6. CASE r # s
    <3>1. plan'[s] = plan[s]   BY <2>2, <2>6 DEF TypeOK
    <3> QED BY <3>1
  <2> QED BY <2>5, <2>6
<1>5. CASE Instantiate
  <2>1. PICK m \in Template, r \in Session :
          /\ status[r] = "none"
          /\ plan' = [plan EXCEPT ![r] = [i \in DOMAIN template[m] |-> Row(template[m][i])]]
    BY <1>5 DEF Instantiate
  <2>2. plan'[s] = plan[s]   BY <2>1 DEF TypeOK
  <2> QED BY <2>2
<1>6. CASE CreateTarget \/ UpdateTarget \/ DeleteController \/ CreateSession \/ AddRead
           \/ SaveTemplate \/ CreateTemplate \/ DeleteTemplate \/ StartSession
  <2>1. UNCHANGED plan
    BY <1>6 DEF CreateTarget, UpdateTarget, DeleteController, CreateSession, AddRead,
                SaveTemplate, CreateTemplate, DeleteTemplate, StartSession, sessions
  <2> QED BY <1>1, <2>1
<1> QED BY <1>2, <1>3, <1>4, <1>5, <1>6 DEF Next

(* The add under way: there is one at most, and it stays clear of the plan. *)
LEMMA AddsFit ==
  ASSUME TypeOK, Unplanned, Strict, Stays, Next, ~loose'
  PROVE  (Len(adding) <= 1 /\ \A i \in DOMAIN adding : AddFits(adding[i]))'
<1>1. CASE UNCHANGED adding
  <2>1. ASSUME NEW i \in DOMAIN adding' PROVE AddFits(adding[i])'
    <3>1. PICK r \in Session, a \in Row0 : r = adding[i].session /\ a = adding[i].row
      BY <1>1, RowsTyped
    <3>2. /\ Placed(a) /\ a.host # NoHost /\ a.target # NoTarget
          /\ \A k \in DOMAIN plan[r] : plan[r][k].host # a.host /\ plan[r][k].target # a.target
      BY <1>1, <3>1 DEF Strict, AddFits
    <3>3. Placed(a)'   BY <3>2, StaysKeeps
    <3>4. status[r] # "none"   BY <1>1, <3>1 DEF Unplanned
    <3>5. \A k \in DOMAIN plan'[r] : plan'[r][k].host # a.host /\ plan'[r][k].target # a.target
      BY <1>1, <3>2, <3>4, RowsFrom
    <3>6. adding'[i].session = r /\ adding'[i].row = a   BY <1>1, <3>1
    <3> QED BY <3>2, <3>3, <3>5, <3>6 DEF AddFits, Placed, Born, Known, Unborn, Gone
  <2>2. Len(adding') <= 1   BY <1>1 DEF Strict
  <2> QED BY <2>1, <2>2
<1>2. CASE AddRead
  <2>1. adding = << >> /\ UNCHANGED <<target, plan>>
    BY <1>2 DEF AddRead, inventory
  <2>2. PICK s \in Session, t \in Target, m \in Mode :
          /\ Known(t) /\ ~Taken(s, t)
          /\ adding' = Append(adding,
               [session |-> s, row |-> [target |-> t, host |-> target[t].host, mode |-> m]])
    BY <1>2 DEF AddRead
  <2> DEFINE h == target[t].host
             a == [session |-> s, row |-> [target |-> t, host |-> h, mode |-> m]]
  <2>3. adding' = << a >>   BY <2>1, <2>2
  <2>4. h # NoHost /\ Born(t) /\ t # NoTarget   BY <2>2, KnownHost, Constants
  <2>5. a.session = s /\ a.row.target = t /\ a.row.host = h   OBVIOUS
  <2>6. \A k \in DOMAIN plan[s] : plan[s][k].host # h   BY <2>2 DEF Taken
  <2>7. \A k \in DOMAIN plan[s] : plan[s][k].target # t
    <3> SUFFICES ASSUME NEW k \in DOMAIN plan[s], plan[s][k].target = t PROVE FALSE
      OBVIOUS
    <3>1. Placed(plan[s][k])   BY DEF Strict, PlanFits
    <3> QED BY <2>2, <2>4, <2>6, <3>1 DEF Placed
  <2>8. Placed(a.row)   BY <2>4, <2>5 DEF Placed
  <2> HIDE DEF a, h
  <2>9. AddFits(a)   BY <2>4, <2>5, <2>6, <2>7, <2>8 DEF AddFits
  <2>10. DOMAIN adding' = {1} /\ adding'[1] = a /\ Len(adding') = 1   BY <2>3
  <2>11. AddFits(adding[1])'
    BY <2>1, <2>9, <2>10 DEF AddFits, Placed, Born, Known, Unborn, Gone
  <2> QED BY <2>10, <2>11
<1>3. CASE AddCommit
  <2>1. adding \in Seq([session : Session, row : Row0]) /\ adding # << >>
        /\ adding' = Tail(adding) /\ Len(adding) <= 1
    BY <1>3 DEF AddCommit, TypeOK, Strict
  <2> DEFINE Add == [session : Session, row : Row0]
  <2>2. adding \in Seq(Add) /\ adding # << >>   BY <2>1
  <2> HIDE DEF Add
  <2>3. Len(adding) \in Nat /\ Len(Tail(adding)) = Len(adding) - 1 /\ Tail(adding) \in Seq(Add)
    BY <2>2
  <2>4. Len(Tail(adding)) \in Nat /\ DOMAIN Tail(adding) = 1..Len(Tail(adding))   BY <2>3
  <2>5. Len(Tail(adding)) = 0   BY <2>1, <2>3, <2>4
  <2>6. \A i \in DOMAIN Tail(adding) : FALSE
    <3>1. DOMAIN Tail(adding) = 1..0   BY <2>4, <2>5, Zenon
    <3>2. \A i \in 1..0 : FALSE   OBVIOUS
    <3> QED BY <3>1, <3>2, Zenon
  <2>7. Len(adding') = 0 /\ \A i \in DOMAIN adding' : FALSE   BY <2>1, <2>5, <2>6
  <2>8. Len(adding') <= 1   BY <2>7
  <2>9. \A i \in DOMAIN adding' : AddFits(adding[i])'   BY <2>7
  <2> QED BY <2>8, <2>9
<1>4. CASE CreateTarget \/ UpdateTarget \/ DeleteTarget \/ DeleteController \/ CreateSession
           \/ DeleteAssignment \/ SaveTemplate \/ CreateTemplate \/ DeleteTemplate
           \/ Instantiate \/ StartSession
  <2>1. UNCHANGED adding
    BY <1>4 DEF CreateTarget, UpdateTarget, DeleteTarget, DeleteController, CreateSession,
                DeleteAssignment, SaveTemplate, CreateTemplate, DeleteTemplate, Instantiate,
                StartSession, sessions
  <2> QED BY <1>1, <2>1
<1> QED BY <1>2, <1>3, <1>4 DEF Next

(* The templates: what is saved from rows that fit, fits.                  *)
LEMMA TemplatesFit ==
  ASSUME TypeOK, Strict, Stays, Next, ~loose'
  PROVE  (\A m \in Template : EntriesFit(template[m]))'
<1>1. CASE UNCHANGED template   BY <1>1, StaysKeeps DEF Strict
<1>2. CASE SaveTemplate
  <2>1. PICK m \in Template, s \in Session :
          template' = [template EXCEPT ![m] = Entries(plan[s])]
    BY <1>2 DEF SaveTemplate
  <2> DEFINE q == Kept(plan[s])
             e == Entries(plan[s])
  <2>2. /\ PlanFits(q)
        /\ \A i \in DOMAIN q : q[i] \in Row0 /\ q[i].target # NoTarget
    <3>1. q \in Seq(Row0) /\ Drawn(q, plan[s]) /\ \A i \in DOMAIN q : q[i].target # NoTarget
      BY RowsTyped, KeptFacts
    <3> HIDE DEF q
    <3>2. PlanFits(plan[s])   BY DEF Strict
    <3> QED BY <3>1, <3>2, DrawnFits, ElementOfSeq
  <2>3. DOMAIN e = DOMAIN q /\ \A i \in DOMAIN q : e[i].target = q[i].target
    BY DEF Entries
  <2> HIDE DEF q, e
  <2>4. \A i \in DOMAIN q : q[i].target \in Target /\ Placed(q[i])
    BY <2>2 DEF Row0, PlanFits
  <2>5. EntriesFit(e)
    <3>1. \A i \in DOMAIN e : Born(e[i].target)   BY <2>2, <2>3, <2>4 DEF Placed
    <3>2. ASSUME NEW i \in DOMAIN e, NEW k \in DOMAIN e, i # k
          PROVE  /\ e[i].target # e[k].target
                 /\ Known(e[i].target) /\ Known(e[k].target) =>
                      target[e[i].target].host # target[e[k].target].host
      <4>1. /\ q[i].host = q[k].host => q[i].host = NoHost
            /\ q[i].target # q[k].target
        BY <2>2, <2>3, <3>2 DEF PlanFits, Apart
      <4>2. /\ Known(q[i].target) =>
                 q[i].host = target[q[i].target].host /\ q[i].host # NoHost
            /\ Known(q[k].target) => q[k].host = target[q[k].target].host
        BY <2>2, <2>3, <2>4, <3>2, KnownHost DEF Placed
      <4> QED BY <2>3, <4>1, <4>2
    <3> QED BY <3>1, <3>2 DEF EntriesFit
  <2>6. UNCHANGED target   BY <1>2 DEF SaveTemplate, inventory
  <2>7. template'[m] = e /\ \A x \in Template : x # m => template'[x] = template[x]
    BY <2>1 DEF TypeOK, e
  <2>8. EntriesFit(template[m])'
    BY <2>5, <2>6, <2>7 DEF EntriesFit, Born, Known, Unborn, Gone
  <2> QED BY <2>7, <2>8, StaysKeeps DEF Strict
<1>3. CASE UpdateTarget \/ CreateTemplate   BY <1>3 DEF UpdateTarget, CreateTemplate
<1>4. CASE DeleteTemplate
  <2>1. PICK m \in Template : template' = [template EXCEPT ![m] = << >>]
    BY <1>4 DEF DeleteTemplate
  <2>2. template'[m] = << >> /\ \A x \in Template : x # m => template'[x] = template[x]
    BY <2>1 DEF TypeOK
  <2>3. EntriesFit(template[m])'   BY <2>2 DEF EntriesFit
  <2> QED BY <2>2, <2>3, StaysKeeps DEF Strict
<1>5. CASE CreateTarget \/ DeleteTarget \/ DeleteController \/ CreateSession \/ AddRead
           \/ AddCommit \/ DeleteAssignment \/ Instantiate \/ StartSession
  <2>1. UNCHANGED template
    BY <1>5 DEF CreateTarget, DeleteTarget, DeleteController, CreateSession, AddRead,
                AddCommit, DeleteAssignment, Instantiate, StartSession, templates
  <2> QED BY <1>1, <2>1
<1> QED BY <1>2, <1>3, <1>4, <1>5 DEF Next

LEMMA StrictKept ==
  ASSUME TypeOK, Unplanned, Strict, Next, ~loose'
  PROVE  Strict'
<1>1. Stays   BY TargetsStay
<1>2. ASSUME NEW s \in Session PROVE PlanFits(plan[s])'
  <2>1. Apart(plan'[s]) /\ \A i \in DOMAIN plan'[s] : \E a \in Row0 :
          a = plan'[s][i] /\ Placed(a)'
    BY <1>1, PlansFit
  <2>2. Apart(plan[s])'   BY <2>1 DEF Apart
  <2>3. ASSUME NEW i \in DOMAIN plan'[s] PROVE Placed(plan[s][i])'
    <3>1. PICK a \in Row0 : a = plan'[s][i] /\ Placed(a)'   BY <2>1
    <3> QED BY <3>1 DEF Placed
  <2> QED BY <2>2, <2>3 DEF PlanFits
<1>3. (\A s \in Session : PlanFits(plan[s]))'   BY <1>2
<1>4. (Len(adding) <= 1 /\ \A i \in DOMAIN adding : AddFits(adding[i]))'   BY <1>1, AddsFit
<1>5. (\A m \in Template : EntriesFit(template[m]))'   BY <1>1, TemplatesFit
<1> QED BY <1>3, <1>4, <1>5 DEF Strict

(* What has been loose stays so; nothing is launched but by start_session. *)
LEMMA LooseStays ==
  ASSUME TypeOK, Next
  PROVE  (loose => loose') /\ (UNCHANGED launched \/ (StartSession /\ UNCHANGED loose))
<1>1. CASE UpdateTarget \/ CreateTemplate \/ AddRead
  BY <1>1 DEF UpdateTarget, CreateTemplate, AddRead
<1>2. CASE CreateTarget \/ DeleteTarget \/ DeleteController \/ CreateSession \/ AddCommit
           \/ DeleteAssignment \/ SaveTemplate \/ DeleteTemplate \/ Instantiate
  <2>1. UNCHANGED <<launched, loose>>
    BY <1>2 DEF CreateTarget, DeleteTarget, DeleteController, CreateSession, AddCommit,
                DeleteAssignment, SaveTemplate, DeleteTemplate, Instantiate
  <2> QED BY <2>1
<1>3. CASE StartSession
  <2>1. UNCHANGED loose   BY <1>3 DEF StartSession
  <2> QED BY <1>3, <2>1
<1> QED BY <1>1, <1>2, <1>3 DEF Next

LEMMA OneKept ==
  ASSUME PlanInv, Next
  PROVE  OneCapturePerAp'
<1> SUFFICES ASSUME ~loose'
             PROVE  \A s \in Session : \A i, k \in DOMAIN launched'[s] :
                      i # k => ~SameAp(launched'[s][i], launched'[s][k])
  BY DEF OneCapturePerAp, SameAp
<1>1. TypeOK /\ ~loose /\ Strict   BY LooseStays DEF PlanInv
<1>2. \A s \in Session : \A i, k \in DOMAIN launched[s] :
        i # k => ~SameAp(launched[s][i], launched[s][k])
  BY <1>1 DEF PlanInv, OneCapturePerAp
<1>3. CASE UNCHANGED launched   BY <1>2, <1>3
<1>4. CASE StartSession
  <2>1. PICK s \in Session :
          launched' = [launched EXCEPT ![s] = [i \in DOMAIN plan[s] |-> Spec1(plan[s][i])]]
    BY <1>4 DEF StartSession
  <2> DEFINE p == plan[s]
             l == [i \in DOMAIN p |-> Spec1(p[i])]
  <2>2. launched'[s] = l /\ \A x \in Session : x # s => launched'[x] = launched[x]
    BY <1>1, <2>1 DEF TypeOK
  <2>3. PlanFits(p)   BY <1>1 DEF Strict
  <2>4. /\ DOMAIN l = DOMAIN p
        /\ \A i \in DOMAIN p : l[i].host = p[i].host /\ l[i].target = p[i].target
        /\ \A i \in DOMAIN p : l[i].backend = "sz_api" => p[i].target \in Target
    BY DEF Spec1, Known
  <2> HIDE DEF p, l
  <2>5. \A i, k \in DOMAIN l : i # k => ~SameAp(l[i], l[k])
    BY <2>3, <2>4, Constants DEF PlanFits, Apart, SameAp
  <2> QED BY <1>2, <2>2, <2>5
<1> QED BY <1>1, <1>3, <1>4, LooseStays

-----------------------------------------------------------------------------
(* The theorems. *)

LEMMA InitPlan == Init => PlanInv
<1> SUFFICES ASSUME Init PROVE PlanInv   OBVIOUS
<1>1. TypeOK
  <2>1. target \in [Target -> Place]
    <3>1. target = [t \in Target |-> Unborn]   BY DEF Init
    <3> QED BY <3>1, Constants
  <2>2. \A X : << >> \in Seq(X)   OBVIOUS
  <2> QED BY <2>1, <2>2 DEF Init, TypeOK
<1>2. Unplanned /\ Saved   BY DEF Init, Unplanned, Saved, Replays
<1>3. Strict   BY DEF Init, Strict, PlanFits, Apart, EntriesFit
<1>4. OneCapturePerAp   BY DEF Init, OneCapturePerAp
<1> QED BY <1>1, <1>2, <1>3, <1>4 DEF PlanInv

LEMMA PlanStep == PlanInv /\ [Next]_vars => PlanInv'
<1> SUFFICES ASSUME PlanInv, [Next]_vars PROVE PlanInv'   OBVIOUS
<1>1. TypeOK'   BY TypeKept DEF PlanInv
<1>2. CASE Next
  <2>1. Unplanned' /\ Saved'   BY <1>2, UnplannedKept, SavedKept DEF PlanInv
  <2>2. ~loose' => Strict'   BY <1>2, LooseStays, StrictKept DEF PlanInv
  <2>3. OneCapturePerAp'   BY <1>2, OneKept
  <2> QED BY <1>1, <2>1, <2>2, <2>3 DEF PlanInv
<1>3. CASE UNCHANGED vars
  <2>1. Unplanned' /\ Saved'   BY <1>3 DEF PlanInv, vars, Unplanned, Saved, Replays
  <2>2. Strict' <=> Strict
    BY <1>3 DEF vars, Strict, PlanFits, Apart, Placed, AddFits, EntriesFit, Born, Known,
                Unborn, Gone
  <2>3. OneCapturePerAp'   BY <1>3 DEF PlanInv, vars, OneCapturePerAp, SameAp
  <2>4. loose' = loose   BY <1>3 DEF vars
  <2> QED BY <1>1, <2>1, <2>2, <2>3, <2>4 DEF PlanInv
<1> QED BY <1>2, <1>3

(* Every plan, add under way and template is well formed; a template holds *)
(* the targets it was saved from; and as long as no target is moved, no    *)
(* template posted as a list and no two adds overlap, no two rows of a     *)
(* plan share an address or a target, deletions and templates included.    *)
THEOREM PlansAreKept == Spec => []PlanInv
<1>1. Init => PlanInv   BY InitPlan
<1>2. PlanInv /\ [Next]_vars => PlanInv'   BY PlanStep
<1> QED BY <1>1, <1>2, PTL DEF Spec

(* Then no session ever runs two captures on one access point, whichever   *)
(* back end reaches it: what the check in add_assignment is there for.     *)
THEOREM OneCaptureEach == Spec => []OneCapturePerAp
<1>1. PlanInv => OneCapturePerAp   BY DEF PlanInv
<1> QED BY <1>1, PlansAreKept, PTL

(* A draft made from a template asks for the targets of the session the    *)
(* template was saved from, in their order, whatever became of them since. *)
THEOREM TemplatesReplay == Spec => TemplateReplays
<1> DEFINE Goal == \A s \in Session :
                     status[s] = "none" /\ plan'[s] # << >> =>
                       \E m \in Template : Replays(plan'[s], asked[m])
<1>1. PlanInv /\ [Next]_vars => [Goal]_vars
  <2> SUFFICES ASSUME PlanInv, Next, NEW s \in Session, status[s] = "none",
                      plan'[s] # << >>
               PROVE  \E m \in Template : Replays(plan'[s], asked[m])
    OBVIOUS
  <2>1. PICK m \in Template : plan'[s] = [i \in DOMAIN template[m] |-> Row(template[m][i])]
    BY PlannedFrom DEF PlanInv
  <2> DEFINE p == [i \in DOMAIN template[m] |-> Row(template[m][i])]
  <2>2. template[m] \in Seq(Entry) /\ Replays(template[m], asked[m])
    BY RowsTyped DEF PlanInv, Saved
  <2>3. /\ Len(p) = Len(template[m]) /\ DOMAIN p = DOMAIN template[m]
        /\ \A i \in DOMAIN template[m] : p[i].target = template[m][i].target
    BY <2>2, InstanceTyped DEF PlanInv
  <2>4. plan'[s] = p   BY <2>1
  <2> HIDE DEF p
  <2>5. Replays(p, asked[m])   BY <2>2, <2>3 DEF Replays
  <2> QED BY <2>4, <2>5
<1>2. []PlanInv /\ [][Next]_vars => [][Goal]_vars   BY <1>1, PTL
<1>3. Spec => [][Goal]_vars   BY <1>2, PlansAreKept, PTL DEF Spec
<1> QED BY <1>3 DEF TemplateReplays
=============================================================================
