------------------------- MODULE SummarizePlanProofs -------------------------
(***************************************************************************)
(* TLAPS proofs about SummarizePlan, for every census, every number of     *)
(* workers and every number of faults.                                     *)
(***************************************************************************)
EXTENDS SummarizePlan, FiniteSetTheorems, TLAPS

Labels == {"off", "refused", "conflict", "next", "page", "save", "union", "apply", "add"}

TypesOK ==
    /\ owner \in Workers \cup {NoWorker}
    /\ rec \in Records
    /\ copy \in [Workers -> Records] /\ goal \in [Workers -> Records]
    /\ pc \in [Workers -> Labels]
    /\ pos \in [Workers -> Nat]
    /\ snap \in [Workers -> SUBSET Snapshots]
    /\ afterGroup \in [Workers -> Nat]
    /\ torn \subseteq SnapshotIds /\ undone \subseteq SnapshotIds
    /\ Candidates \subseteq Fibers

\* what a replay needs not write any more, or never will
There(s, n) == Written(s, n) \in brain \/ Excused(s, n)
Whole(s) == \A n \in 1 .. NParts : There(s, n)

\* The units that a run record has left behind. A pending unit is the first
\* that is due, although the cursor beside it has gone back.
Behind(r, root) ==
    \/ r.phase = "done"
    \/ r.phase = "units" /\ (root <= r.after \/ \E p \in r.pending : root < p.root)

PartOf(s, b) == \E n \in 1 .. NParts : b = Written(s, n)

\* What a record may say of the summaries there are: each belongs to the unit
\* it holds as pending, or to one behind its cursor and then nothing is missing.
Covered(r, b) ==
    \E s \in Snapshots : PartOf(s, b) /\ (s \in r.pending \/ (Whole(s) /\ Behind(r, s.root)))

PendingOK(r) ==
    \A s \in r.pending :
        /\ r.phase = "units" /\ r.after < s.root
        /\ r.pending = {s}

Good(r) == PendingOK(r) /\ \A b \in brain : Covered(r, b)

\* after_group is where the loop over the groups began, or behind
AfterFits(n, r) ==
    /\ r.phase = "units" => n <= r.after \/ \E s \in r.pending : n <= s.root
    /\ r.phase \notin {"units", "done"} => n = 0

\* A neuron is without its state row only where that is excused.
HalfOK == \A s \in Snapshots : Written(s, 1) \in brain => There(s, 2)

\* a snapshot that was written down before its effects
Kept(s) == s \in rec.pending \/ Whole(s)

Applying(w) ==
    \E s \in Snapshots :
        /\ snap[w] = {s} /\ copy[w].pending = {s} /\ Kept(s)
        /\ pos[w] <= NParts /\ (pc[w] = "add" => pos[w] < NParts)
        /\ \A n \in 1 .. NParts : n <= pos[w] => There(s, n)

\* Holds of every worker, the expired owners among them.
WorkerOK(w) ==
    /\ ~Off(w) => \A s \in copy[w].pending : Kept(s) /\ copy[w].pending = {s}
    /\ pc[w] \in {"apply", "add"} => Applying(w)
    /\ pc[w] = "page" => copy[w].phase = "census"

\* Holds of the owner only.
OwnerOK(w) ==
    owner = w /\ ~Off(w) =>
        /\ copy[w] = rec /\ AfterFits(afterGroup[w], rec)
        /\ pc[w] \in {"apply", "add"} => snap[w] = rec.pending
        /\ pc[w] = "save" =>
            /\ Good(goal[w]) /\ AfterFits(afterGroup[w], goal[w])
            /\ \A s \in rec.pending : s \in goal[w].pending \/ Whole(s)
            /\ snap[w] # {} => snap[w] = goal[w].pending

Inv ==
    /\ TypesOK
    /\ Good(rec)
    /\ SummaryOnce /\ HalfOK
    /\ \A w \in Workers : WorkerOK(w) /\ OwnerOK(w)

-----------------------------------------------------------------------------
(* Facts about the operators *)

LEMMA TwoParts == 2 \in 1 .. NParts
BY PlanAssumption DEF PlanAssumption, NParts

LEMMA NPartsType == ASSUME PlanAssumption PROVE NParts \in Nat /\ NParts >= 3
BY DEF PlanAssumption, NParts

LEMMA PairsFinite ==
    ASSUME PlanAssumption, Candidates \subseteq Fibers, NEW tag
    PROVE  Cardinality(Pairs(tag)) \in Nat
<1>1. IsFiniteSet(Fibers)
  BY FS_Interval DEF Fibers, PlanAssumption
<1>2. IsFiniteSet(Posting(tag))
  <2>1. Posting(tag) \subseteq Fibers
    BY DEF Posting
  <2>2. QED BY <1>1, <2>1, FS_Subset
<1>3. IsFiniteSet(Posting(tag) \X Posting(tag))
  BY <1>2, FS_Product
<1>4. IsFiniteSet(Pairs(tag))
  <2>1. CASE Cardinality(Posting(tag)) > PostingLimit
    BY <2>1, FS_EmptySet DEF Pairs
  <2>2. CASE ~(Cardinality(Posting(tag)) > PostingLimit)
    <3>1. Pairs(tag) \subseteq Posting(tag) \X Posting(tag)
      BY <2>2 DEF Pairs
    <3>2. QED BY <1>3, <3>1, FS_Subset
  <2>3. QED BY <2>1, <2>2
<1>5. QED BY <1>4, FS_CardinalityType

\* Two snapshots one artifact belongs to have the same root and the same id.
LEMMA PartsTell ==
    ASSUME NEW s \in Snapshots, NEW b, PartOf(s, b)
    PROVE  b.root = s.root /\ b.id = s.id
BY DEF PartOf, Written, Snapshots

\* Before the units there is nothing written and nothing pending.
LEMMA NothingYet ==
    ASSUME NEW r \in Records, Good(r), r.phase \notin {"units", "done"}
    PROVE  r.pending = {} /\ brain = {}
BY DEF Good, PendingOK, Covered, Behind, Records

LEMMA Advanced ==
    ASSUME NEW q \in Records, NEW n \in Nat, NEW r,
           r = [q EXCEPT !.after = n] \/ r = NextTag(q, n)
    PROVE  r \in Records /\ r.pending = q.pending
<1>1. q.after + 1 \in Nat /\ q.seq + n \in Nat
  BY DEF Records
<1>2. CASE r = [q EXCEPT !.after = n]
  BY <1>2 DEF Records
<1>3. CASE r = NextTag(q, n)
  BY <1>1, <1>3 DEF Records, NextTag
<1>4. QED BY <1>2, <1>3

LEMMA PhaseEnded ==
    ASSUME NEW q \in Records, NEW p \in {"done", "stage", "pairs", "members", "units"}, NEW r,
           r = [q EXCEPT !.phase = p, !.after = 0]
    PROVE  r \in Records /\ r.pending = q.pending
BY DEF Records

\* The fiber of a summary is never excused.
LEMMA FiberThere ==
    ASSUME PlanAssumption, NEW s, Whole(s)
    PROVE  Written(s, NParts) \in brain
<1>1. NParts \in Nat /\ NParts >= 3
  BY NPartsType
<1>2. There(s, NParts)
  BY <1>1 DEF Whole
<1>3. ~Excused(s, NParts)
  BY <1>1 DEF Excused
<1>4. QED BY <1>2, <1>3 DEF There

\* A record that covers all summaries covers the units that are whole.
LEMMA KeptIsCovered ==
    ASSUME PlanAssumption, NEW r, \A b \in brain : Covered(r, b),
           NEW s \in Snapshots, s \in r.pending \/ Whole(s)
    PROVE  s \in r.pending \/ (Whole(s) /\ Behind(r, s.root))
<1>1. SUFFICES ASSUME Whole(s) PROVE s \in r.pending \/ (Whole(s) /\ Behind(r, s.root))
  OBVIOUS
<1>2. NParts \in 1 .. NParts /\ Written(s, NParts) \in brain
  BY <1>1, FiberThere, NPartsType
<1>3. PICK t \in Snapshots :
            PartOf(t, Written(s, NParts)) /\ (t \in r.pending \/ (Whole(t) /\ Behind(r, t.root)))
  BY <1>2 DEF Covered
<1>4. t.root = s.root /\ t.id = s.id
  <2>1. PartOf(t, Written(s, NParts))
    BY <1>3
  <2>2. PICK n \in 1 .. NParts : Written(s, NParts) = Written(t, n)
    BY <2>1 DEF PartOf
  <2>3. Written(s, NParts).root = s.root /\ Written(s, NParts).id = s.id
        /\ Written(t, n).root = t.root /\ Written(t, n).id = t.id
    BY DEF Written
  <2>4. QED BY <2>2, <2>3
<1>5. t = s
  BY <1>4 DEF Snapshots
<1>6. QED BY <1>1, <1>3, <1>5

LEMMA PendingOnly ==
    ASSUME Inv, NEW s \in rec.pending
    PROVE  rec.pending = {s} /\ rec.phase = "units" /\ rec.after < s.root /\ s \in Snapshots
BY DEF Inv, TypesOK, Good, PendingOK, Records

\* What is written of a group has the id under which it was written down.
LEMMA OneId ==
    ASSUME PlanAssumption, Inv, NEW s \in Snapshots, Kept(s), NEW b \in brain, b.root = s.root
    PROVE  b.id = s.id
<1>1. CASE Whole(s)
  <2>1. Written(s, NParts) \in brain
    BY <1>1, FiberThere
  <2>2. Written(s, NParts).root = s.root /\ Written(s, NParts).id = s.id
    BY DEF Written
  <2>3. QED BY <2>1, <2>2 DEF Inv, SummaryOnce
<1>2. CASE s \in rec.pending
  <2>1. PICK t \in Snapshots : PartOf(t, b) /\ (t \in rec.pending \/ Behind(rec, t.root))
    BY DEF Inv, Good, Covered
  <2>2. b.root = t.root /\ b.id = t.id
    BY <2>1, PartsTell
  <2>3. CASE t \in rec.pending
    BY <1>2, <2>2, <2>3, PendingOnly
  <2>4. CASE Behind(rec, t.root)
    <3>1. rec.after \in Nat /\ s.root \in Nat /\ t.root = s.root
      BY <2>2 DEF Inv, TypesOK, Records, Snapshots, Fibers
    <3>2. rec.after < s.root /\ rec.pending = {s} /\ rec.phase = "units"
      BY <1>2, PendingOnly
    <3>3. QED BY <2>4, <3>1, <3>2 DEF Behind
  <2>5. QED BY <2>1, <2>3, <2>4
<1>3. QED BY <1>1, <1>2 DEF Kept

-----------------------------------------------------------------------------
(* Steps of one worker that write neither a summary nor the run record *)

Others(w) ==
    \A v \in Workers \ {w} :
        pc'[v] = pc[v] /\ copy'[v] = copy[v] /\ pos'[v] = pos[v]
            /\ goal'[v] = goal[v] /\ snap'[v] = snap[v] /\ afterGroup'[v] = afterGroup[v]

\* What is there of a summary stays.
Stays(s) == \A n \in 1 .. NParts : There(s, n) => There(s, n)'
AllStay == \A s \in Snapshots : Stays(s)

LEMMA StayIf ==
    ASSUME NEW w \in Workers, Others(w), torn \subseteq torn', undone \subseteq undone', NEW s,
           \A n \in 1 .. NParts : Written(s, n) \in brain => Written(s, n) \in brain',
           Between(w, s) => Between(w, s)' \/ s.id \in torn' \/ Written(s, 2) \in brain'
    PROVE  Stays(s)
<1>1. SUFFICES ASSUME NEW n \in 1 .. NParts, Excused(s, n) PROVE There(s, n)'
  <2>1. ASSUME NEW n \in 1 .. NParts, Written(s, n) \in brain PROVE There(s, n)'
    <3>1. Written(s, n) \in brain'
      BY <2>1
    <3>2. QED BY <3>1 DEF There, Written
  <2>2. QED BY <1>1, <2>1 DEF Stays, There
<1>2. CASE n < NParts /\ s.id \in undone
  BY <1>2 DEF There, Excused
<1>3. CASE n = 2 /\ s.id \in torn
  BY <1>3 DEF There, Excused
<1>4. CASE n = 2 /\ Between(w, s)
  <2>1. CASE Between(w, s)'
    <3>1. (\E v \in Workers : Between(v, s))'
      BY <2>1
    <3>2. QED BY <1>4, <3>1 DEF There, Excused
  <2>2. CASE s.id \in torn'
    BY <1>4, <2>2 DEF There, Excused
  <2>3. CASE Written(s, 2) \in brain'
    BY <1>4, <2>3 DEF There, Written
  <2>4. QED BY <1>4, <2>1, <2>2, <2>3
<1>5. ASSUME NEW v \in Workers, v # w, n = 2, Between(v, s) PROVE There(s, n)'
  <2>1. Between(v, s)'
    BY <1>5 DEF Between, Others
  <2>2. (\E x \in Workers : Between(x, s))'
    BY <2>1
  <2>3. QED BY <1>5, <2>2 DEF There, Excused
<1>6. QED BY <1>1, <1>2, <1>3, <1>4, <1>5 DEF Excused

LEMMA WholeStays ==
    ASSUME NEW s, Stays(s), Whole(s)
    PROVE  Whole(s)'
BY DEF Stays, Whole

LEMMA CoveredStays ==
    ASSUME AllStay, NEW r, NEW b, Covered(r, b)
    PROVE  Covered(r, b)'
<1>1. PICK s \in Snapshots : PartOf(s, b) /\ (s \in r.pending \/ (Whole(s) /\ Behind(r, s.root)))
  BY DEF Covered
<1>2. Whole(s) => Whole(s)'
  BY WholeStays DEF AllStay
<1>3. QED BY <1>1, <1>2 DEF Covered, PartOf, Written, Behind

LEMMA GoodStays ==
    ASSUME AllStay, NEW r, Good(r), \A b \in brain' \ brain : Covered(r, b)'
    PROVE  Good(r)'
<1>1. \A b \in brain : Covered(r, b)'
  BY CoveredStays DEF Good
<1>2. QED BY <1>1 DEF Good, PendingOK

LEMMA RecGood ==
    ASSUME NEW r, Good(r)', rec' = r
    PROVE  Good(rec)'
BY DEF Good, PendingOK, Covered, PartOf, Written, Behind

LEMMA GoalGood ==
    ASSUME NEW w \in Workers, NEW r, Good(r)', goal'[w] = r
    PROVE  Good(goal[w])'
BY DEF Good, PendingOK, Covered, PartOf, Written, Behind

LEMMA KeptStays ==
    ASSUME NEW s, Stays(s), Kept(s), rec' = rec
    PROVE  Kept(s)'
BY WholeStays DEF Kept

\* the other workers, where the records and what is there stays
LEMMA OthersFramed ==
    ASSUME Inv, NEW w \in Workers, UNCHANGED <<owner, rec>>, Others(w), AllStay,
           NEW v \in Workers, v # w,
           owner = v /\ pc[v] = "save" =>
                \A b \in brain' \ brain : \A r : r = goal[v] => Covered(r, b)'
    PROVE  WorkerOK(v)' /\ OwnerOK(v)'
<1>1. /\ WorkerOK(v) /\ OwnerOK(v)
      /\ pc'[v] = pc[v] /\ copy'[v] = copy[v] /\ pos'[v] = pos[v]
      /\ goal'[v] = goal[v] /\ snap'[v] = snap[v] /\ afterGroup'[v] = afterGroup[v]
      /\ copy[v] \in Records
  BY DEF Inv, TypesOK, Others
<1>2. \A s \in Snapshots : (Kept(s) => Kept(s)') /\ (Whole(s) => Whole(s)')
  BY KeptStays, WholeStays DEF AllStay
<1>3. ASSUME Applying(v) PROVE Applying(v)'
  <2>1. PICK s \in Snapshots :
            /\ snap[v] = {s} /\ copy[v].pending = {s} /\ Kept(s)
            /\ pos[v] <= NParts /\ (pc[v] = "add" => pos[v] < NParts)
            /\ \A n \in 1 .. NParts : n <= pos[v] => There(s, n)
    BY <1>3 DEF Applying
  <2>2. Kept(s)' /\ \A n \in 1 .. NParts : n <= pos'[v] => There(s, n)'
    BY <1>1, <1>2, <2>1 DEF AllStay, Stays
  <2>3. QED BY <1>1, <2>1, <2>2 DEF Applying
<1>4. WorkerOK(v)'
  <2>1. (~Off(v))' = ~Off(v)
    BY <1>1 DEF Off
  <2>2. copy[v].pending \subseteq Snapshots
    BY <1>1 DEF Records
  <2>3. (~Off(v) => \A s \in copy[v].pending : Kept(s) /\ copy[v].pending = {s})'
    BY <1>1, <1>2, <2>1, <2>2 DEF WorkerOK
  <2>4. QED BY <1>1, <1>3, <2>3 DEF WorkerOK
<1>5. OwnerOK(v)'
  <2>1. SUFFICES ASSUME (owner = v /\ ~Off(v))' PROVE OwnerOK(v)'
    BY DEF OwnerOK
  <2>2. owner = v /\ ~Off(v)
    BY <1>1, <2>1 DEF Off
  <2>3. ASSUME pc'[v] = "save"
        PROVE  /\ Good(goal[v])'
               /\ (\A s \in rec.pending : s \in goal[v].pending \/ Whole(s))'
    <3>1. PICK r : r = goal[v]
      OBVIOUS
    <3>2. Good(r)
      BY <1>1, <2>2, <2>3, <3>1 DEF OwnerOK
    <3>3. \A b \in brain' \ brain : Covered(r, b)'
      BY <1>1, <2>2, <2>3, <3>1
    <3>4. Good(r)'
      BY <3>2, <3>3, GoodStays
    <3>5. Good(goal[v])'
      BY <1>1, <3>1, <3>4, GoalGood
    <3>6. rec.pending \subseteq Snapshots
      BY DEF Inv, TypesOK, Records
    <3>7. \A s \in rec.pending : s \in goal[v].pending \/ Whole(s)'
      BY <1>1, <1>2, <2>2, <2>3, <3>6 DEF OwnerOK
    <3>8. QED BY <1>1, <3>5, <3>7
  <2>4. AfterFits(afterGroup[v], rec)' /\ (pc'[v] = "save" => AfterFits(afterGroup[v], goal[v])')
    BY <1>1, <2>2 DEF OwnerOK, AfterFits
  <2>5. QED BY <1>1, <2>2, <2>3, <2>4 DEF OwnerOK
<1>6. QED BY <1>4, <1>5

LEMMA Framed ==
    ASSUME Inv, NEW w \in Workers, UNCHANGED <<owner, rec, brain>>, Others(w), AllStay,
           TypesOK', WorkerOK(w)', OwnerOK(w)'
    PROVE  Inv'
<1>1. Good(rec)'
  <2>1. PICK r : r = rec
    OBVIOUS
  <2>2. Good(r)'
    BY <2>1, GoodStays DEF Inv
  <2>3. QED BY <2>1, <2>2, RecGood
<1>2. SummaryOnce'
  BY DEF Inv, SummaryOnce
<1>3. HalfOK'
  <2>1. ASSUME NEW s \in Snapshots, Written(s, 1) \in brain PROVE There(s, 2)'
    <3>1. There(s, 2)
      BY <2>1 DEF Inv, HalfOK
    <3>2. CASE 2 \in 1 .. NParts
      BY <3>1, <3>2 DEF AllStay, Stays
    <3>3. QED BY <3>2, TwoParts
  <2>2. QED BY <2>1 DEF HalfOK, Written
<1>4. \A v \in Workers : WorkerOK(v)' /\ OwnerOK(v)'
  BY OthersFramed
<1>5. QED BY <1>1, <1>2, <1>3, <1>4 DEF Inv

\* A step of a worker that is not about to insert a row of a summary.
LEMMA Undisturbed ==
    ASSUME NEW w \in Workers, Others(w), UNCHANGED <<brain, history>>,
           pc[w] # "add" \/ (pc[w] = "add" /\ pos[w] # 1)
    PROVE  AllStay
<1>1. ASSUME NEW s PROVE Stays(s)
  BY StayIf DEF Between, history, Written
<1>2. QED BY <1>1 DEF AllStay

\* A step to a label at which nothing is saved or applied.
LEMMA Moving ==
    ASSUME Inv, NEW w \in Workers, ~Off(w), NEW l \in Labels \ {"save", "apply", "add"},
           l = "page" => copy[w].phase = "census",
           pc' = [pc EXCEPT ![w] = l], UNCHANGED <<owner, rec, brain, copy, goal, snap, afterGroup>>,
           pos' = pos \/ Advance(w), Candidates' \subseteq Fibers,
           (UNCHANGED history /\ (pc[w] # "add" \/ pos[w] # 1))
             \/ (AllStay /\ torn' \subseteq SnapshotIds /\ undone' = undone)
    PROVE  Inv'
<1>1. TypesOK'
  BY DEF Inv, TypesOK, Advance, history
<1>2. Others(w)
  BY DEF Inv, TypesOK, Others, Advance
<1>3. AllStay
  BY <1>2, Undisturbed
<1>4. pc'[w] = l
  BY DEF Inv, TypesOK
<1>5. WorkerOK(w)' /\ OwnerOK(w)'
  <2>1. WorkerOK(w) /\ OwnerOK(w) /\ copy[w] \in Records
    BY DEF Inv, TypesOK
  <2>2. \A s \in Snapshots : Kept(s) => Kept(s)'
    BY <1>3, KeptStays DEF AllStay
  <2>3. copy[w].pending \subseteq Snapshots
    BY <2>1 DEF Records
  <2>4. WorkerOK(w)'
    BY <1>4, <2>1, <2>2, <2>3 DEF WorkerOK, Off
  <2>5. OwnerOK(w)'
    BY <1>4, <2>1 DEF OwnerOK, Off, AfterFits
  <2>6. QED BY <2>4, <2>5
<1>6. QED BY <1>1, <1>2, <1>3, <1>5, Framed

LEMMA Saving ==
    ASSUME Inv, NEW w \in Workers, ~Off(w), NEW r \in Records, NEW S \in SUBSET Snapshots,
           Save(w, r, S), UNCHANGED <<owner, rec, brain, copy, pos, afterGroup, history>>,
           Candidates' \subseteq Fibers, pc[w] # "add",
           owner = w => /\ Good(r) /\ AfterFits(afterGroup[w], r)
                        /\ \A s \in rec.pending : s \in r.pending \/ Whole(s)
                        /\ S # {} => S = r.pending
    PROVE  Inv'
<1>1. TypesOK'
  BY DEF Inv, TypesOK, Save, Goto, Labels, history
<1>2. Others(w)
  BY DEF Inv, TypesOK, Others, Save, Goto
<1>3. AllStay
  BY <1>2, Undisturbed
<1>4. pc'[w] = "save" /\ goal'[w] = r /\ snap'[w] = S
  BY DEF Inv, TypesOK, Save, Goto
<1>5. WorkerOK(w) /\ OwnerOK(w) /\ copy[w] \in Records /\ rec \in Records
  BY DEF Inv, TypesOK
<1>6. \A s \in Snapshots : (Kept(s) => Kept(s)') /\ (Whole(s) => Whole(s)')
  BY <1>3, KeptStays, WholeStays DEF AllStay
<1>7. copy[w].pending \subseteq Snapshots /\ rec.pending \subseteq Snapshots
  BY <1>5 DEF Records
<1>8. WorkerOK(w)'
  BY <1>4, <1>5, <1>6, <1>7 DEF WorkerOK, Off
<1>9. ASSUME owner = w PROVE OwnerOK(w)'
  <2>1. Good(r)'
    BY <1>3, <1>9, GoodStays
  <2>2. Good(goal[w])'
    BY <1>4, <2>1, GoalGood
  <2>3. \A s \in rec.pending : s \in r.pending \/ Whole(s)'
    BY <1>6, <1>7, <1>9
  <2>4. AfterFits(afterGroup[w], rec)' /\ AfterFits(afterGroup[w], goal[w])' /\ copy'[w] = rec'
    BY <1>4, <1>5, <1>9 DEF OwnerOK, AfterFits
  <2>5. QED BY <1>4, <1>9, <2>2, <2>3, <2>4 DEF OwnerOK
<1>10. OwnerOK(w)'
  BY <1>9 DEF OwnerOK
<1>11. QED BY <1>1, <1>2, <1>3, <1>8, <1>10, Framed

\* While the plan is made, any record without a pending unit may be saved.
LEMMA Planning ==
    ASSUME Inv, NEW w \in Workers, ~Off(w), pc[w] # "add", copy[w].phase \notin {"units", "done"},
           NEW r \in Records, r.pending = copy[w].pending,
           SaveCopy(w, r), Candidates' \subseteq Fibers
    PROVE  Inv'
<1>1. ASSUME owner = w PROVE Good(r) /\ rec.pending = {} /\ AfterFits(afterGroup[w], r)
  <2>1. copy[w] = rec
    BY <1>1 DEF Inv, OwnerOK
  <2>2. rec.pending = {} /\ brain = {}
    BY <2>1, NothingYet DEF Inv, TypesOK
  <2>3. afterGroup[w] = 0
    BY <1>1, <2>1 DEF Inv, OwnerOK, AfterFits
  <2>4. AfterFits(afterGroup[w], r)
    BY <2>3 DEF AfterFits, Records
  <2>5. QED BY <2>1, <2>2, <2>4 DEF Good, PendingOK
<1>2. QED BY <1>1, Saving DEF SaveCopy, outside

-----------------------------------------------------------------------------
(* The plan is made *)

LEMMA NextIsOn ==
    ASSUME NEW w \in Workers, NEW phase, InPhase(w, phase)
    PROVE  ~Off(w) /\ copy[w].phase = phase /\ pc[w] = "next"
BY DEF InPhase, Off

LEMMA CensusSteps ==
    ASSUME PlanAssumption, Inv, NEW w \in Workers, ReadPage(w) \/ StagePage(w) \/ CensusEnds(w)
    PROVE  Inv'
<1>. copy[w] \in Records /\ Candidates \subseteq Fibers
  BY DEF Inv, TypesOK
<1>1. CASE ReadPage(w)
  BY <1>1, NextIsOn, Moving DEF ReadPage, Goto, outside, plan, Candidates, Labels
<1>2. CASE StagePage(w)
  <2>1. ~Off(w) /\ pc[w] = "page" /\ copy[w].phase = "census" /\ Candidates' = Candidates
    BY <1>2 DEF StagePage, Off, Candidates, Inv, WorkerOK
  <2>2. CASE Agrees(census[copy[w].after + 1], page[w])
    <3>1. SaveCopy(w, [copy[w] EXCEPT !.after = copy[w].after + 1])
      BY <1>2, <2>2 DEF StagePage
    <3>2. QED BY <2>1, <3>1, Planning DEF Records
  <2>3. CASE ~Agrees(census[copy[w].after + 1], page[w])
    BY <1>2, <2>1, <2>3, Moving DEF StagePage, Goto, outside, hands, Labels
  <2>4. QED BY <2>2, <2>3
<1>3. CASE CensusEnds(w)
  <2>1. ~Off(w) /\ pc[w] = "next" /\ copy[w].phase = "census" /\ Candidates' = Candidates
    BY <1>3, NextIsOn DEF CensusEnds, plan, Candidates
  <2>2. PICK p \in {"done", "stage"} : SaveCopy(w, [copy[w] EXCEPT !.after = 0, !.phase = p])
    BY <1>3 DEF CensusEnds
  <2>3. PICK r : r = [copy[w] EXCEPT !.after = 0, !.phase = p]
    OBVIOUS
  <2>4. r \in Records /\ r.pending = copy[w].pending
    BY <2>3 DEF Records
  <2>5. QED BY <2>1, <2>2, <2>3, <2>4, Planning
<1>4. QED BY <1>1, <1>2, <1>3

LEMMA StageSteps ==
    ASSUME PlanAssumption, Inv, NEW w \in Workers, StageFiber(w) \/ StageEnds(w)
    PROVE  Inv'
<1>. copy[w] \in Records /\ Candidates \subseteq Fibers
  BY DEF Inv, TypesOK
<1>1. CASE StageFiber(w)
  <2>1. ~Off(w) /\ pc[w] = "next"
    BY <1>1, NextIsOn DEF StageFiber
  <2>2. pc[w] = "next"
    BY <1>1 DEF StageFiber, InPhase
  <2>3. PICK f \in PageOf(copy[w].after + 1) :
            /\ \/ cands' = cands
               \/ \E sig : cands' = cands \cup {[fiber |-> f, sig |-> sig]}
            /\ \/ Advance(w) /\ pc' = pc
               \/ pos' = pos /\ pc' = [pc EXCEPT ![w] = "conflict"]
    BY <1>1 DEF StageFiber, Goto
  <2>4. Candidates' \subseteq Fibers
    BY <2>3 DEF Candidates, PageOf
  <2>5. pc' = [pc EXCEPT ![w] = "next"] \/ pc' = [pc EXCEPT ![w] = "conflict"]
    BY <2>2, <2>3 DEF Inv, TypesOK
  <2>6. pos' = pos \/ Advance(w)
    BY <2>3
  <2>7. QED BY <1>1, <2>1, <2>4, <2>5, <2>6, Moving DEF StageFiber, outside, hands, Labels
<1>2. CASE StageEnds(w)
  <2>1. PICK r : /\ SaveCopy(w, r)
                 /\ \/ r = [copy[w] EXCEPT !.after = @ + 1]
                    \/ r = [copy[w] EXCEPT !.phase = "pairs", !.after = 0]
    BY <1>2 DEF StageEnds
  <2>2. r \in Records /\ r.pending = copy[w].pending
    <3>1. CASE r = [copy[w] EXCEPT !.after = @ + 1]
      <4>1. copy[w].after + 1 \in Nat
        BY DEF Records
      <4>2. QED BY <3>1, <4>1, Advanced
    <3>2. CASE r = [copy[w] EXCEPT !.phase = "pairs", !.after = 0]
      BY <3>2, PhaseEnded
    <3>3. QED BY <2>1, <3>1, <3>2
  <2>3. QED BY <1>2, <2>1, <2>2, NextIsOn, Planning DEF StageEnds, plan, Candidates
<1>3. QED BY <1>1, <1>2

LEMMA PairSteps ==
    ASSUME PlanAssumption, Inv, NEW w \in Workers, ReadPair(w) \/ WriteUnion(w) \/ PairsEnd(w)
    PROVE  Inv'
<1>. copy[w] \in Records /\ Candidates \subseteq Fibers /\ pc \in [Workers -> Labels]
  BY DEF Inv, TypesOK
<1>1. CASE ReadPair(w)
  <2>1. ~Off(w) /\ pc[w] = "next" /\ Candidates' = Candidates
    BY <1>1 DEF ReadPair, InPhase, Off, Candidates, plan
  <2>2. (Advance(w) /\ pc' = pc) \/ (pos' = pos /\ \E l \in {"conflict", "union"} : pc' = [pc EXCEPT ![w] = l])
    BY <1>1 DEF ReadPair, Goto
  <2>3. \E l \in {"next", "conflict", "union"} : pc' = [pc EXCEPT ![w] = l]
    BY <2>1, <2>2
  <2>4. UNCHANGED <<owner, rec, brain, copy, goal, snap, afterGroup, history>>
    BY <1>1 DEF ReadPair, outside
  <2>5. QED BY <2>1, <2>2, <2>3, <2>4, Moving DEF Labels
<1>2. CASE WriteUnion(w)
  <2>1. ~Off(w) /\ pc[w] = "union" /\ Candidates' = Candidates
    BY <1>2 DEF WriteUnion, Off, Candidates
  <2>2. (pos' = pos \/ Advance(w)) /\ \E l \in {"next", "conflict"} : pc' = [pc EXCEPT ![w] = l]
    BY <1>2 DEF WriteUnion, Goto
  <2>3. QED BY <1>2, <2>1, <2>2, Moving DEF WriteUnion, outside, hands, Labels
<1>3. CASE PairsEnd(w)
  <2>1. PICK r : /\ SaveCopy(w, r)
                 /\ \/ r = [copy[w] EXCEPT !.phase = "members", !.after = 0]
                    \/ r = NextTag(copy[w], Cardinality(Pairs(copy[w].after + 1)))
    BY <1>3 DEF PairsEnd
  <2>2. r \in Records /\ r.pending = copy[w].pending
    <3>1. CASE r = [copy[w] EXCEPT !.phase = "members", !.after = 0]
      BY <3>1, PhaseEnded
    <3>2. CASE r = NextTag(copy[w], Cardinality(Pairs(copy[w].after + 1)))
      <4>1. Cardinality(Pairs(copy[w].after + 1)) \in Nat
        BY PairsFinite
      <4>2. QED BY <3>2, <4>1, Advanced
    <3>3. QED BY <2>1, <3>1, <3>2
  <2>3. QED BY <1>3, <2>1, <2>2, NextIsOn, Planning DEF PairsEnd, plan, Candidates
<1>4. QED BY <1>1, <1>2, <1>3

LEMMA MemberSteps ==
    ASSUME PlanAssumption, Inv, NEW w \in Workers, AddMember(w) \/ MembersEnd(w)
    PROVE  Inv'
<1>. copy[w] \in Records /\ Candidates \subseteq Fibers /\ pc \in [Workers -> Labels]
  BY DEF Inv, TypesOK
<1>1. CASE AddMember(w)
  <2>1. ~Off(w) /\ pc[w] = "next" /\ Candidates' = Candidates
    BY <1>1 DEF AddMember, InPhase, Off, Candidates
  <2>2. (Advance(w) /\ pc' = pc) \/ (pos' = pos /\ pc' = [pc EXCEPT ![w] = "conflict"])
    BY <1>1 DEF AddMember, Goto
  <2>3. \E l \in {"next", "conflict"} : pc' = [pc EXCEPT ![w] = l]
    BY <2>1, <2>2
  <2>4. QED BY <1>1, <2>1, <2>2, <2>3, Moving DEF AddMember, outside, hands, Labels
<1>2. CASE MembersEnd(w)
  <2>1. PICK r : /\ SaveCopy(w, r)
                 /\ \/ \E f \in Fibers : r = [copy[w] EXCEPT !.after = f]
                    \/ r = [copy[w] EXCEPT !.phase = "units", !.after = 0]
    BY <1>2 DEF MembersEnd, Beyond
  <2>2. r \in Records /\ r.pending = copy[w].pending
    <3>1. Fibers \subseteq Nat
      BY DEF Fibers, PlanAssumption
    <3>2. CASE \E f \in Fibers : r = [copy[w] EXCEPT !.after = f]
      BY <3>1, <3>2, Advanced
    <3>3. CASE r = [copy[w] EXCEPT !.phase = "units", !.after = 0]
      BY <3>3, PhaseEnded
    <3>4. QED BY <2>1, <3>2, <3>3
  <2>3. QED BY <1>2, <2>1, <2>2, NextIsOn, Planning DEF MembersEnd, plan, Candidates
<1>3. QED BY <1>1, <1>2

-----------------------------------------------------------------------------
(* Units *)

LEMMA CollectStep ==
    ASSUME PlanAssumption, Inv, NEW w \in Workers, Collect(w)
    PROVE  Inv'
<1>. /\ copy[w] \in Records /\ Candidates' \subseteq Fibers /\ ~Off(w) /\ pc[w] = "next"
     /\ copy[w].phase = "units" /\ copy[w].pending = {} /\ afterGroup[w] \in Nat
  BY DEF Inv, TypesOK, Collect, InPhase, Off, Candidates, plan
<1>1. UNCHANGED <<owner, rec, brain, copy, pos, afterGroup, history>>
  BY DEF Collect, outside
<1>2. PICK root \in Fibers :
        /\ root > copy[w].after
        /\ \/ Goto(w, "refused") /\ UNCHANGED <<goal, snap>>
           \/ Save(w, [copy[w] EXCEPT !.after = root], {})
           \/ \E i \in SnapshotIds :
                Save(w, Pending(w, [root |-> root, id |-> i]), {[root |-> root, id |-> i]})
  BY DEF Collect, Beyond, Roots, Fresh
<1>3. root \in Nat /\ copy[w].after \in Nat
  BY DEF Fibers, PlanAssumption, Records
<1>4. ASSUME owner = w
      PROVE  /\ copy[w] = rec /\ \A b \in brain : Covered(rec, b)
             /\ afterGroup[w] <= copy[w].after
  BY <1>4 DEF Inv, OwnerOK, Good, AfterFits
<1>5. CASE Goto(w, "refused") /\ UNCHANGED <<goal, snap>>
  BY <1>1, <1>5, Moving DEF Goto, Labels
<1>6. CASE Save(w, [copy[w] EXCEPT !.after = root], {})
  <2>1. PICK r : r = [copy[w] EXCEPT !.after = root]
    OBVIOUS
  <2>2. r \in Records /\ r.pending = {} /\ r.after = root /\ r.phase = "units"
    BY <1>3, <2>1 DEF Records
  <2>3. ASSUME owner = w, NEW b \in brain PROVE Covered(r, b)
    <3>1. PICK s \in Snapshots : PartOf(s, b) /\ Whole(s) /\ Behind(rec, s.root)
      BY <1>4, <2>3 DEF Covered
    <3>2. s.root \in Nat
      BY DEF Snapshots, Fibers, PlanAssumption
    <3>3. Behind(r, s.root)
      BY <1>2, <1>3, <1>4, <2>2, <2>3, <3>1, <3>2 DEF Behind
    <3>4. QED BY <3>1, <3>3 DEF Covered
  <2>4. owner = w => /\ Good(r) /\ AfterFits(afterGroup[w], r)
                     /\ \A s \in rec.pending : s \in r.pending \/ Whole(s)
    BY <1>2, <1>3, <1>4, <2>2, <2>3 DEF Good, PendingOK, AfterFits
  <2>5. Save(w, r, {})
    BY <1>6, <2>1
  <2>6. QED BY <1>1, <2>2, <2>4, <2>5, Saving
<1>7. CASE \E i \in SnapshotIds :
            Save(w, Pending(w, [root |-> root, id |-> i]), {[root |-> root, id |-> i]})
  <2>1. PICK s \in Snapshots : s.root = root /\ Save(w, Pending(w, s), {s})
    BY <1>7 DEF Snapshots
  <2>2. PICK r : r = Pending(w, s)
    OBVIOUS
  <2>3. r \in Records /\ r.pending = {s} /\ r.after = afterGroup[w] /\ r.phase = "units"
    BY <2>2 DEF Records, Pending
  <2>4. ASSUME owner = w PROVE Good(r) /\ AfterFits(afterGroup[w], r)
    <3>1. PendingOK(r) /\ AfterFits(afterGroup[w], r)
      BY <1>2, <1>3, <1>4, <2>1, <2>3, <2>4 DEF PendingOK, AfterFits
    <3>2. ASSUME NEW b \in brain PROVE Covered(r, b)
      <4>1. PICK t \in Snapshots : PartOf(t, b) /\ Whole(t) /\ Behind(rec, t.root)
        BY <1>4, <2>4 DEF Covered
      <4>2. t.root \in Nat
        BY DEF Snapshots, Fibers, PlanAssumption
      <4>3. t.root <= copy[w].after
        BY <1>4, <2>4, <4>1 DEF Behind
      <4>4. t.root < s.root
        BY <1>2, <1>3, <2>1, <4>2, <4>3
      <4>5. Behind(r, t.root)
        BY <2>3, <4>4 DEF Behind
      <4>6. QED BY <4>1, <4>5 DEF Covered
    <3>3. QED BY <3>1, <3>2 DEF Good
  <2>5. owner = w => \A t \in rec.pending : t \in r.pending \/ Whole(t)
    BY <1>4
  <2>6. Save(w, r, {s})
    BY <2>1, <2>2
  <2>7. QED BY <1>1, <2>3, <2>4, <2>5, <2>6, Saving
<1>8. QED BY <1>2, <1>5, <1>6, <1>7

LEMMA ReplayStep ==
    ASSUME PlanAssumption, Inv, NEW w \in Workers, Replay(w)
    PROVE  Inv'
<1>. /\ copy[w] \in Records /\ Candidates' \subseteq Fibers /\ ~Off(w) /\ pc[w] = "next"
     /\ copy[w].phase = "units"
  BY DEF Inv, TypesOK, Replay, InPhase, Off, Candidates, plan
<1>1. UNCHANGED <<owner, rec, brain, copy, goal, history>>
  BY DEF Replay, outside
<1>2. CASE Goto(w, "refused") /\ UNCHANGED <<pos, snap, afterGroup>>
  BY <1>1, <1>2, Moving DEF Goto, Labels
<1>3. ASSUME NEW s \in copy[w].pending, Goto(w, "apply"), pos' = [pos EXCEPT ![w] = 0],
             snap' = [snap EXCEPT ![w] = {s}], afterGroup' = [afterGroup EXCEPT ![w] = s.root]
      PROVE  Inv'
  <2>1. s \in Snapshots /\ copy[w].pending = {s} /\ Kept(s) /\ s.root \in Nat
    BY DEF Inv, WorkerOK, Records, Snapshots, Fibers
  <2>2. TypesOK'
    BY <1>1, <1>3, <2>1 DEF Inv, TypesOK, Goto, Labels, history
  <2>3. Others(w)
    BY <1>1, <1>3 DEF Inv, TypesOK, Others, Goto
  <2>4. pc'[w] = "apply" /\ pos'[w] = 0 /\ snap'[w] = {s} /\ afterGroup'[w] = s.root
    BY <1>3 DEF Inv, TypesOK, Goto
  <2>5. AllStay
    BY <1>1, <2>3, Undisturbed
  <2>6. Kept(s)'
    BY <1>1, <2>1, <2>5, KeptStays DEF AllStay
  <2>7. WorkerOK(w)'
    <3>1. Applying(w)'
      BY <1>1, <2>1, <2>4, <2>6, NPartsType DEF Applying
    <3>2. QED BY <1>1, <2>1, <2>4, <2>6, <3>1 DEF WorkerOK
  <2>8. OwnerOK(w)'
    <3>1. SUFFICES ASSUME owner = w PROVE OwnerOK(w)'
      BY <1>1 DEF OwnerOK
    <3>2. copy[w] = rec
      BY <3>1 DEF Inv, OwnerOK
    <3>3. AfterFits(afterGroup'[w], rec)
      BY <2>1, <2>4, <3>2 DEF AfterFits
    <3>4. AfterFits(afterGroup[w], rec)'
      BY <1>1, <3>3 DEF AfterFits
    <3>5. QED BY <1>1, <2>1, <2>4, <3>2, <3>4 DEF OwnerOK
  <2>9. QED BY <1>1, <2>2, <2>3, <2>5, <2>7, <2>8, Framed
<1>4. QED BY <1>2, <1>3 DEF Replay

LEMMA LookStep ==
    ASSUME PlanAssumption, Inv, NEW w \in Workers, Look(w)
    PROVE  Inv'
<1>1. /\ UNCHANGED <<owner, rec, brain, copy, goal, snap, afterGroup, history>>
      /\ pc[w] = "apply" /\ pos[w] < NParts
  BY DEF Look, outside, hands
<1>2. PICK s \in Snapshots :
        /\ snap[w] = {s} /\ copy[w].pending = {s} /\ Kept(s)
        /\ \A n \in 1 .. NParts : n <= pos[w] => There(s, n)
  BY <1>1 DEF Inv, WorkerOK, Applying
<1>3. PICK k : k = IF pos[w] = 0 THEN 2 ELSE pos[w] + 1
  OBVIOUS
<1>4. \/ Written(s, pos[w] + 1) \in brain /\ pos' = [pos EXCEPT ![w] = k] /\ pc' = pc
      \/ Goto(w, "add") /\ pos' = pos
  BY <1>2, <1>3 DEF Look
<1>. pos[w] \in Nat /\ NParts \in Nat /\ NParts >= 3 /\ k \in Nat
  BY <1>3, NPartsType DEF Inv, TypesOK
<1>5. TypesOK'
  <2>1. Candidates' = Candidates
    BY DEF Look, plan, Candidates
  <2>2. QED BY <1>1, <1>4, <2>1 DEF Inv, TypesOK, Goto, Labels, history
<1>6. Others(w)
  BY <1>1, <1>4 DEF Inv, TypesOK, Others, Goto
<1>7. AllStay
  BY <1>1, <1>6, Undisturbed
<1>8. Kept(s)' /\ \A n \in 1 .. NParts : There(s, n) => There(s, n)'
  BY <1>1, <1>2, <1>7, KeptStays DEF AllStay, Stays
<1>9. Applying(w)'
  <2>1. CASE Written(s, pos[w] + 1) \in brain /\ pos' = [pos EXCEPT ![w] = k] /\ pc' = pc
    <3>1. pos'[w] = k /\ pc'[w] = "apply"
      BY <1>1, <2>1 DEF Inv, TypesOK
    <3>2. ASSUME NEW n \in 1 .. NParts, n <= k PROVE There(s, n)
      <4>1. CASE n <= pos[w]
        BY <1>2, <4>1
      <4>2. CASE n = pos[w] + 1
        BY <2>1, <4>2 DEF There
      <4>3. CASE pos[w] = 0 /\ n = 2
        BY <2>1, <4>3 DEF Inv, HalfOK
      <4>4. QED BY <1>3, <3>2, <4>1, <4>2, <4>3
    <3>3. k <= NParts
      BY <1>1, <1>3
    <3>4. QED BY <1>1, <1>2, <1>8, <3>1, <3>2, <3>3 DEF Applying
  <2>2. CASE Goto(w, "add") /\ pos' = pos
    BY <1>1, <1>2, <1>8, <2>2 DEF Applying
  <2>3. QED BY <1>4, <2>1, <2>2
<1>10. pc'[w] \in {"apply", "add"}
  BY <1>1, <1>4 DEF Inv, TypesOK, Goto
<1>11. WorkerOK(w)'
  BY <1>1, <1>2, <1>8, <1>9, <1>10 DEF WorkerOK
<1>12. OwnerOK(w)'
  <2>1. OwnerOK(w) /\ ~Off(w)
    BY <1>1 DEF Inv, Off
  <2>2. QED BY <1>1, <1>10, <2>1 DEF OwnerOK, AfterFits
<1>13. QED BY <1>1, <1>5, <1>6, <1>7, <1>11, <1>12, Framed

\* What is not there yet of a snapshot belongs to the pending unit, or is the
\* state row of a neuron of one that is whole without it: where an expired owner
\* writes it, its successor has not passed the unit or does not need the row.
LEMMA Inserting ==
    ASSUME PlanAssumption, Inv, NEW w \in Workers, NEW s \in Snapshots, Kept(s), NEW k \in 1 .. NParts,
           brain' \subseteq brain \cup {Written(s, k)}, UNCHANGED <<owner, rec, copy>>,
           Others(w), AllStay, TypesOK', HalfOK', WorkerOK(w)', OwnerOK(w)'
    PROVE  Inv'
<1>1. PartOf(s, Written(s, k))
  BY DEF PartOf
<1>2. ASSUME NEW r, \A b \in brain : Covered(r, b), s \in r.pending \/ Whole(s)
      PROVE  Covered(r, Written(s, k))'
  <2>1. s \in r.pending \/ (Whole(s) /\ Behind(r, s.root))
    BY <1>2, KeptIsCovered
  <2>2. Covered(r, Written(s, k))
    BY <1>1, <2>1 DEF Covered
  <2>3. PICK b : b = Written(s, k)
    OBVIOUS
  <2>4. Covered(r, b)'
    BY <2>2, <2>3, CoveredStays
  <2>5. QED BY <2>3, <2>4 DEF Written
<1>3. Good(rec)'
  <2>1. PICK r : r = rec
    OBVIOUS
  <2>2. Good(r) /\ Covered(r, Written(s, k))'
    BY <1>2, <2>1 DEF Inv, Good, Kept
  <2>3. \A b \in brain' \ brain : Covered(r, b)'
    <3>1. \A b \in brain' \ brain : b = Written(s, k)
      OBVIOUS
    <3>2. QED BY <2>2, <3>1 DEF Covered, PartOf, Written, Behind
  <2>4. Good(r)'
    BY <2>2, <2>3, GoodStays
  <2>5. QED BY <2>1, <2>4, RecGood
<1>4. SummaryOnce'
  <2>1. \A b \in brain : b.root = s.root => b.id = s.id
    BY OneId
  <2>2. Written(s, k).root = s.root /\ Written(s, k).id = s.id
    BY DEF Written
  <2>3. \A a, b \in brain : a.root = b.root => a.id = b.id
    BY DEF Inv, SummaryOnce
  <2>4. \A a, b \in brain \cup {Written(s, k)} : a.root = b.root => a.id = b.id
    BY <2>1, <2>2, <2>3
  <2>5. QED BY <2>4 DEF SummaryOnce
<1>5. ASSUME NEW v \in Workers, v # w PROVE WorkerOK(v)' /\ OwnerOK(v)'
  <2>1. ASSUME owner = v, pc[v] = "save", NEW b \in brain' \ brain, NEW r, r = goal[v]
        PROVE  Covered(r, b)'
    <3>1. /\ \A c \in brain : Covered(r, c)
          /\ \A t \in rec.pending : t \in r.pending \/ Whole(t)
      BY <2>1 DEF Inv, OwnerOK, Off, Good
    <3>2. Covered(r, Written(s, k))'
      BY <1>2, <3>1 DEF Kept
    <3>3. b = Written(s, k)
      BY <2>1
    <3>4. QED BY <3>2, <3>3 DEF Covered, PartOf, Written, Behind
  <2>2. QED BY <1>5, <2>1, OthersFramed
<1>6. QED BY <1>3, <1>4, <1>5 DEF Inv

\* what is removed again: the neuron and its edges
Gone(s) == {Written(s, n) : n \in (1 .. NParts - 1) \ {2}}

LEMMA TakeBackStep ==
    ASSUME PlanAssumption, Inv, NEW w \in Workers, NEW s \in Snapshots, Between(w, s),
           NEW rows, rows = brain \/ rows = brain \cup {Written(s, 2)}, TakeBack(w, s, rows),
           UNCHANGED <<owner, rec, copy, goal, snap, afterGroup>>, Candidates' \subseteq Fibers
    PROVE  Inv'
<1>. NParts \in Nat /\ NParts >= 3
  BY NPartsType
<1>1. /\ pc[w] = "add" /\ pos[w] = 1 /\ snap[w] = {s} /\ pos' = pos /\ torn' = torn
      /\ brain' = rows \ Gone(s)
      /\ undone' = IF CountedOn(w, s) THEN undone \cup {s.id} ELSE undone
  BY DEF TakeBack, Between, Gone
<1>2. copy[w].pending = {s} /\ Kept(s) /\ ~Off(w)
  BY <1>1 DEF Inv, WorkerOK, Applying, Off
<1>3. TypesOK'
  <2>1. s.id \in SnapshotIds
    BY DEF Snapshots
  <2>2. pc' \in [Workers -> Labels]
    BY DEF TakeBack, Goto, Inv, TypesOK, Labels
  <2>3. QED BY <1>1, <2>1, <2>2 DEF Inv, TypesOK
<1>4. Others(w) /\ pc'[w] = "off"
  BY <1>1 DEF TakeBack, Goto, Inv, TypesOK, Others
<1>5. WorkerOK(w)' /\ OwnerOK(w)'
  BY <1>4 DEF WorkerOK, OwnerOK, Off
<1>6. \A t, n : Written(t, n) \in Gone(s) =>
                    t.root = s.root /\ t.id = s.id /\ n \in (1 .. NParts - 1) \ {2}
  BY DEF Gone, Written
<1>7. ASSUME NEW t \in Snapshots, t # s PROVE Stays(t)
  <2>1. ~(t.root = s.root /\ t.id = s.id)
    BY <1>7 DEF Snapshots
  <2>2. \A n \in 1 .. NParts : Written(t, n) \in brain => Written(t, n) \in brain'
    BY <1>1, <1>6, <2>1
  <2>3. ~Between(w, t)
    BY <1>1, <1>7 DEF Between
  <2>4. undone \subseteq undone'
    BY <1>1
  <2>5. QED BY <1>1, <1>4, <2>2, <2>3, <2>4, StayIf
<1>8. HalfOK'
  <2>1. ASSUME NEW t \in Snapshots, Written(t, 1) \in brain' PROVE There(t, 2)'
    <3>1. CASE t = s
      <4>1. Written(s, 1) \in Gone(s)
        BY DEF Gone
      <4>2. QED BY <1>1, <2>1, <3>1, <4>1
    <3>2. CASE t # s
      <4>1. Written(t, 1) \in brain
        <5>1. Written(t, 1) # Written(s, 2)
          BY DEF Written
        <5>2. QED BY <1>1, <2>1, <5>1
      <4>2. There(t, 2)
        BY <4>1 DEF Inv, HalfOK
      <4>3. QED BY <1>7, <3>2, <4>2 DEF Stays
    <3>3. QED BY <3>1, <3>2
  <2>2. QED BY <2>1 DEF HalfOK, Written
<1>9. CASE CountedOn(w, s)
  <2>1. s.id \in undone' /\ undone \subseteq undone'
    BY <1>1, <1>9
  <2>2. ASSUME NEW n \in 1 .. NParts, There(s, n) PROVE There(s, n)'
    <3>1. CASE n < NParts
      BY <2>1, <3>1 DEF There, Excused
    <3>2. CASE n = NParts
      <4>1. ~Excused(s, n)
        BY <3>2 DEF Excused
      <4>2. Written(s, n) \in brain
        BY <2>2, <4>1 DEF There
      <4>3. Written(s, n) \in brain'
        BY <1>1, <1>6, <3>2, <4>2
      <4>4. QED BY <4>3 DEF There, Written
    <3>3. QED BY <3>1, <3>2
  <2>3. AllStay
    BY <1>7, <2>2 DEF AllStay, Stays
  <2>4. brain' \subseteq brain \cup {Written(s, 2)}
    BY <1>1
  <2>5. 2 \in 1 .. NParts
    OBVIOUS
  <2>6. QED BY <1>2, <1>3, <1>4, <1>5, <1>8, <2>3, <2>4, <2>5, Inserting
<1>10. CASE ~CountedOn(w, s)
  <2>1. s \in rec.pending /\ rec.pending = {s}
    BY <1>10, PendingOnly DEF CountedOn
  <2>2. \A v \in Workers \ {w} : Off(v) \/ s \notin copy[v].pending
    BY <1>10 DEF CountedOn
  <2>3. Good(rec)'
    <3>1. PICK r : r = rec
      OBVIOUS
    <3>2. ASSUME NEW b \in brain' PROVE Covered(r, b)'
      <4>1. CASE b = Written(s, 2)
        <5>1. PartOf(s, b)
          BY <4>1 DEF PartOf
        <5>2. QED BY <2>1, <3>1, <5>1 DEF Covered, PartOf, Written
      <4>2. CASE b \in brain
        <5>1. PICK t \in Snapshots : PartOf(t, b) /\ (t \in r.pending \/ (Whole(t) /\ Behind(r, t.root)))
          BY <3>1, <4>2 DEF Inv, Good, Covered
        <5>2. t \in r.pending \/ (Whole(t)' /\ Behind(r, t.root))
          BY <1>7, <2>1, <3>1, <5>1, WholeStays
        <5>3. QED BY <5>1, <5>2 DEF Covered, PartOf, Written, Behind
      <4>3. QED BY <1>1, <4>1, <4>2
    <3>3. PendingOK(r)
      BY <3>1 DEF Inv, Good
    <3>4. Good(r)'
      BY <3>2, <3>3 DEF Good, PendingOK
    <3>5. QED BY <3>1, <3>4, RecGood
  <2>4. SummaryOnce'
    <3>1. \A b \in brain : b.root = s.root => b.id = s.id
      BY <1>2, OneId
    <3>2. Written(s, 2).root = s.root /\ Written(s, 2).id = s.id
      BY DEF Written
    <3>3. \A a, b \in brain : a.root = b.root => a.id = b.id
      BY DEF Inv, SummaryOnce
    <3>4. \A a, b \in brain \cup {Written(s, 2)} : a.root = b.root => a.id = b.id
      BY <3>1, <3>2, <3>3
    <3>5. QED BY <1>1, <3>4 DEF SummaryOnce
  <2>5. ASSUME NEW v \in Workers, v # w PROVE WorkerOK(v)' /\ OwnerOK(v)'
    <3>1. /\ WorkerOK(v) /\ OwnerOK(v) /\ copy[v] \in Records
          /\ pc'[v] = pc[v] /\ copy'[v] = copy[v] /\ pos'[v] = pos[v]
          /\ snap'[v] = snap[v]
      BY <1>4, <2>5 DEF Inv, TypesOK, Others
    <3>2. (~Off(v))' = ~Off(v)
      BY <3>1 DEF Off
    <3>3. CASE Off(v)
      BY <3>1, <3>2, <3>3 DEF WorkerOK, OwnerOK, Off
    <3>4. CASE ~Off(v)
      <4>1. s \notin copy[v].pending /\ owner # v
        BY <2>1, <2>2, <2>5, <3>1, <3>4 DEF OwnerOK
      <4>2. \A t \in copy[v].pending : t \in Snapshots /\ t # s
        BY <3>1, <4>1 DEF Records
      <4>3. \A t \in copy[v].pending : Kept(t) => Kept(t)'
        BY <1>7, <4>2, KeptStays
      <4>4. ASSUME Applying(v) PROVE Applying(v)'
        <5>1. PICK t \in Snapshots :
                  /\ snap[v] = {t} /\ copy[v].pending = {t} /\ Kept(t)
                  /\ pos[v] <= NParts /\ (pc[v] = "add" => pos[v] < NParts)
                  /\ \A n \in 1 .. NParts : n <= pos[v] => There(t, n)
          BY <4>4 DEF Applying
        <5>2. Kept(t)' /\ \A n \in 1 .. NParts : n <= pos'[v] => There(t, n)'
          BY <1>7, <3>1, <4>2, <4>3, <5>1 DEF Stays
        <5>3. QED BY <3>1, <5>1, <5>2 DEF Applying
      <4>5. (~Off(v) => \A t \in copy[v].pending : Kept(t) /\ copy[v].pending = {t})'
        BY <3>1, <3>2, <4>3 DEF WorkerOK
      <4>6. WorkerOK(v)'
        BY <3>1, <4>4, <4>5 DEF WorkerOK
      <4>7. QED BY <4>1, <4>6 DEF OwnerOK
    <3>5. QED BY <3>3, <3>4
  <2>6. QED BY <1>3, <1>5, <1>8, <2>3, <2>4, <2>5 DEF Inv
<1>11. QED BY <1>9, <1>10

LEMMA AddStep ==
    ASSUME PlanAssumption, Inv, NEW w \in Workers, Add(w)
    PROVE  Inv'
<1>. NParts \in Nat /\ NParts >= 3
  BY NPartsType
<1>1. /\ UNCHANGED <<owner, rec, copy, goal, snap, afterGroup>> /\ Candidates' \subseteq Fibers
      /\ pc[w] = "add" /\ ~Off(w) /\ pos[w] \in Nat
  BY DEF Add, hands, plan, Candidates, Off, Inv, TypesOK
<1>2. PICK s \in Snapshots :
        /\ snap[w] = {s} /\ copy[w].pending = {s} /\ Kept(s) /\ pos[w] < NParts
        /\ \A n \in 1 .. NParts : n <= pos[w] => There(s, n)
  BY <1>1 DEF Inv, WorkerOK, Applying
<1>3. \/ /\ brain' = brain \cup {Written(s, pos[w] + 1)}
         /\ Advance(w) /\ Goto(w, IF pos[w] = 0 THEN "add" ELSE "apply")
         /\ UNCHANGED history
      \/ pos[w] = 1 /\ TakeBack(w, s, brain)
      \/ pos[w] # 1 /\ Goto(w, "off") /\ UNCHANGED <<brain, pos, history>>
  BY <1>2 DEF Add
<1>4. CASE pos[w] = 1 /\ TakeBack(w, s, brain)
  <2>1. Between(w, s)
    BY <1>1, <1>2, <1>4 DEF Between
  <2>2. QED BY <1>1, <1>4, <2>1, TakeBackStep
<1>5. CASE pos[w] # 1 /\ Goto(w, "off") /\ UNCHANGED <<brain, pos, history>>
  BY <1>1, <1>5, Moving DEF Goto, Labels
<1>6. CASE /\ brain' = brain \cup {Written(s, pos[w] + 1)}
           /\ Advance(w) /\ Goto(w, IF pos[w] = 0 THEN "add" ELSE "apply")
           /\ UNCHANGED history
  <2>1. TypesOK'
    BY <1>1, <1>6 DEF Inv, TypesOK, Goto, Advance, Labels, history
  <2>2. /\ Others(w) /\ pos'[w] = pos[w] + 1
        /\ pc'[w] = IF pos[w] = 0 THEN "add" ELSE "apply"
    BY <1>1, <1>6 DEF Inv, TypesOK, Goto, Advance, Others
  <2>3. ASSUME NEW t \in Snapshots PROVE Stays(t)
    <3>1. ASSUME Between(w, t) PROVE Written(t, 2) \in brain'
      <4>1. t = s /\ pos[w] = 1
        BY <1>2, <3>1 DEF Between
      <4>2. QED BY <1>6, <4>1
    <3>2. QED BY <1>6, <2>2, <3>1, StayIf DEF history
  <2>4. AllStay
    BY <2>3 DEF AllStay
  <2>5. Kept(s)'
    BY <1>1, <1>2, <2>4, KeptStays DEF AllStay
  <2>6. HalfOK'
    <3>1. ASSUME NEW t \in Snapshots, Written(t, 1) \in brain' PROVE There(t, 2)'
      <4>1. CASE Written(t, 1) \in brain
        <5>1. There(t, 2) /\ 2 \in 1 .. NParts
          BY <4>1 DEF Inv, HalfOK
        <5>2. QED BY <2>3, <5>1 DEF Stays
      <4>2. CASE Written(t, 1) = Written(s, pos[w] + 1)
        <5>1. t.root = s.root /\ t.id = s.id /\ pos[w] = 0
          BY <1>1, <4>2 DEF Written
        <5>2. t = s
          BY <5>1 DEF Snapshots
        <5>3. Between(w, t)'
          BY <1>1, <1>2, <2>2, <5>1, <5>2 DEF Between
        <5>4. (\E v \in Workers : Between(v, t))'
          BY <5>3
        <5>5. QED BY <5>4 DEF There, Excused
      <4>3. QED BY <1>6, <3>1, <4>1, <4>2
    <3>2. QED BY <3>1 DEF HalfOK, Written
  <2>7. Applying(w)'
    <3>1. ASSUME NEW n \in 1 .. NParts, n <= pos[w] + 1 PROVE There(s, n)'
      <4>1. CASE n <= pos[w]
        BY <1>2, <2>3, <4>1 DEF Stays
      <4>2. CASE n = pos[w] + 1
        <5>1. Written(s, n) \in brain'
          BY <1>6, <4>2
        <5>2. QED BY <5>1 DEF There, Written
      <4>3. QED BY <1>1, <3>1, <4>1, <4>2
    <3>2. pos'[w] <= NParts /\ (pc'[w] = "add" => pos'[w] < NParts)
      BY <1>1, <1>2, <2>2
    <3>3. QED BY <1>1, <1>2, <2>2, <2>5, <3>1, <3>2 DEF Applying
  <2>8. WorkerOK(w)'
    BY <1>1, <1>2, <2>2, <2>5, <2>7 DEF WorkerOK
  <2>9. OwnerOK(w)'
    <3>1. OwnerOK(w)
      BY DEF Inv
    <3>2. QED BY <1>1, <2>2, <3>1 DEF OwnerOK, AfterFits
  <2>10. pos[w] + 1 \in 1 .. NParts
    BY <1>1, <1>2
  <2>11. QED BY <1>1, <1>2, <1>6, <2>1, <2>2, <2>4, <2>6, <2>8, <2>9, <2>10, Inserting
<1>7. QED BY <1>3, <1>4, <1>5, <1>6

LEMMA AddFailsStep ==
    ASSUME PlanAssumption, Inv, NEW w \in Workers, AddFails(w)
    PROVE  Inv'
<1>1. PICK s \in snap[w] :
        /\ Between(w, s)
        /\ \E state \in SUBSET {Written(s, 2)} : TakeBack(w, s, brain \cup state)
  BY DEF AddFails
<1>2. PICK rows \in {brain, brain \cup {Written(s, 2)}} : TakeBack(w, s, rows)
  <2>1. PICK state \in SUBSET {Written(s, 2)} : TakeBack(w, s, brain \cup state)
    BY <1>1
  <2>2. brain \cup state \in {brain, brain \cup {Written(s, 2)}}
    OBVIOUS
  <2>3. QED BY <2>1, <2>2
<1>3. s \in Snapshots
  BY DEF Inv, TypesOK
<1>4. UNCHANGED <<owner, rec, copy, goal, snap, afterGroup>> /\ Candidates' \subseteq Fibers
  BY DEF AddFails, hands, plan, Candidates, Inv, TypesOK
<1>5. QED BY <1>1, <1>2, <1>3, <1>4, TakeBackStep

LEMMA AppliedStep ==
    ASSUME PlanAssumption, Inv, NEW w \in Workers, Applied(w)
    PROVE  Inv'
<1>1. /\ copy[w] \in Records /\ Candidates' \subseteq Fibers /\ ~Off(w)
      /\ pc[w] = "apply" /\ pos[w] = NParts
  BY DEF Inv, TypesOK, Applied, Off, Candidates, plan
<1>2. PICK s \in Snapshots :
        snap[w] = {s} /\ \A n \in 1 .. NParts : n <= pos[w] => There(s, n)
  BY <1>1 DEF Inv, WorkerOK, Applying
<1>3. Whole(s)
  BY <1>1, <1>2, NPartsType DEF Whole
<1>4. PICK r : r = [copy[w] EXCEPT !.after = s.root, !.pending = {}]
  OBVIOUS
<1>5. s.root \in Nat
  BY DEF Snapshots, Fibers, PlanAssumption
<1>6. r \in Records /\ r.pending = {} /\ r.after = s.root /\ r.phase = copy[w].phase
  BY <1>1, <1>4, <1>5 DEF Records
<1>7. SaveCopy(w, r)
  BY <1>2, <1>4 DEF Applied
<1>8. ASSUME owner = w
      PROVE  Good(r) /\ AfterFits(afterGroup[w], r) /\ \A t \in rec.pending : Whole(t)
  <2>1. copy[w] = rec /\ rec.pending = {s}
    BY <1>1, <1>2, <1>8 DEF Inv, OwnerOK
  <2>2. rec.phase = "units" /\ rec.after < s.root /\ rec.after \in Nat
    BY <2>1, PendingOnly DEF Inv, TypesOK, Records
  <2>3. ASSUME NEW b \in brain PROVE Covered(r, b)
    <3>1. PICK t \in Snapshots : PartOf(t, b) /\ (t = s \/ (Whole(t) /\ Behind(rec, t.root)))
      BY <2>1 DEF Inv, Good, Covered
    <3>2. t.root \in Nat
      BY DEF Snapshots, Fibers, PlanAssumption
    <3>3. t.root <= s.root
      BY <1>5, <2>1, <2>2, <3>1, <3>2 DEF Behind
    <3>4. Whole(t) /\ Behind(r, t.root)
      BY <1>3, <1>6, <2>1, <2>2, <3>1, <3>3 DEF Behind
    <3>5. QED BY <3>1, <3>4 DEF Covered
  <2>4. AfterFits(afterGroup[w], r)
    <3>1. afterGroup[w] \in Nat /\ AfterFits(afterGroup[w], rec)
      BY <1>1, <1>8 DEF Inv, TypesOK, OwnerOK
    <3>2. afterGroup[w] <= s.root
      BY <1>5, <2>1, <2>2, <3>1 DEF AfterFits
    <3>3. QED BY <1>6, <2>1, <2>2, <3>2 DEF AfterFits
  <2>5. QED BY <1>3, <1>6, <2>1, <2>3, <2>4 DEF Good, PendingOK
<1>9. QED BY <1>1, <1>6, <1>7, <1>8, Saving DEF SaveCopy, outside

LEMMA UnitsEndStep ==
    ASSUME PlanAssumption, Inv, NEW w \in Workers, UnitsEnd(w)
    PROVE  Inv'
<1>1. /\ copy[w] \in Records /\ Candidates' \subseteq Fibers /\ ~Off(w)
      /\ copy[w].phase = "units" /\ copy[w].pending = {}
  BY DEF Inv, TypesOK, UnitsEnd, InPhase, Off, Candidates, plan
<1>2. PICK r : r = [copy[w] EXCEPT !.phase = "done"]
  OBVIOUS
<1>3. r \in Records /\ r.pending = {} /\ r.phase = "done"
  BY <1>1, <1>2 DEF Records
<1>4. SaveCopy(w, r)
  BY <1>2 DEF UnitsEnd
<1>5. ASSUME owner = w PROVE Good(r) /\ rec.pending = {} /\ AfterFits(afterGroup[w], r)
  <2>1. copy[w] = rec
    BY <1>1, <1>5 DEF Inv, OwnerOK
  <2>2. \A b \in brain : Covered(r, b)
    BY <1>1, <1>3, <2>1 DEF Inv, Good, Covered, Behind
  <2>3. QED BY <1>1, <1>3, <2>1, <2>2 DEF Good, PendingOK, AfterFits
<1>6. pc[w] # "add"
  BY DEF UnitsEnd, InPhase
<1>7. QED BY <1>1, <1>3, <1>4, <1>5, <1>6, Saving DEF SaveCopy, outside

LEMMA ReturnStep ==
    ASSUME Inv, NEW w \in Workers, Return(w)
    PROVE  Inv'
<1>1. ~Off(w) /\ pc[w] = "next" /\ Candidates' \subseteq Fibers
  BY DEF Return, InPhase, Off, Candidates, plan, Inv, TypesOK
<1>2. QED BY <1>1, Moving DEF Return, Goto, outside, hands, Labels

-----------------------------------------------------------------------------
(* Checkpoints, and a worker that opens the run *)

\* The record that is written has what the others rely on: a unit it no longer
\* holds as pending is whole.
LEMMA CheckpointStep ==
    ASSUME PlanAssumption, Inv, NEW w \in Workers, Checkpoint(w)
    PROVE  Inv'
<1>1. /\ UNCHANGED <<owner, brain, goal, snap, afterGroup, history>> /\ Candidates' \subseteq Fibers
      /\ pc[w] = "save" /\ ~Off(w) /\ pos' = [pos EXCEPT ![w] = 0]
  BY DEF Checkpoint, hands, plan, Candidates, Off, Inv, TypesOK
<1>2. CASE owner # w
  <2>1. UNCHANGED <<rec, copy>> /\ pc' = [pc EXCEPT ![w] = "off"]
    BY <1>2 DEF Checkpoint, Goto
  <2>2. TypesOK'
    BY <1>1, <2>1 DEF Inv, TypesOK, Labels, history
  <2>3. Others(w)
    BY <1>1, <2>1 DEF Inv, TypesOK, Others
  <2>4. (pc[w] = "off")'
    BY <2>1 DEF Inv, TypesOK
  <2>5. WorkerOK(w)' /\ OwnerOK(w)'
    BY <2>4 DEF WorkerOK, OwnerOK, Off
  <2>6. AllStay
    BY <1>1, <2>3, Undisturbed
  <2>7. QED BY <1>1, <2>1, <2>2, <2>3, <2>5, <2>6, Framed
<1>3. CASE owner = w
  <2>1. PICK l \in {"off", "next", "apply"} :
            /\ pc' = [pc EXCEPT ![w] = l]
            /\ l = "next" => snap[w] = {}
            /\ l = "apply" => snap[w] # {}
    BY <1>3 DEF Checkpoint, Goto
  <2>2. rec' = goal[w] /\ copy' = [copy EXCEPT ![w] = goal[w]]
    BY <1>3 DEF Checkpoint
  <2>3. TypesOK'
    BY <1>1, <2>1, <2>2 DEF Inv, TypesOK, Labels, history
  <2>4. pc'[w] = l /\ pos'[w] = 0 /\ copy'[w] = goal[w] /\ Others(w)
    BY <1>1, <2>1, <2>2 DEF Inv, TypesOK, Others
  <2>5. /\ Good(goal[w]) /\ AfterFits(afterGroup[w], goal[w])
        /\ \A s \in rec.pending : s \in goal[w].pending \/ Whole(s)
        /\ snap[w] # {} => snap[w] = goal[w].pending
    BY <1>1, <1>3 DEF Inv, OwnerOK
  <2>6. AllStay
    BY <1>1, <2>4, Undisturbed
  <2>7. Good(rec)'
    <3>1. PICK r : r = goal[w]
      OBVIOUS
    <3>2. Good(r)'
      BY <1>1, <2>5, <2>6, <3>1, GoodStays
    <3>3. QED BY <2>2, <3>1, <3>2, RecGood
  <2>8. \A s \in Snapshots : Kept(s) => Kept(s)'
    <3>1. \A s \in Snapshots : Whole(s) => Whole(s)'
      BY <2>6, WholeStays DEF AllStay
    <3>2. QED BY <2>2, <2>5, <3>1 DEF Kept
  <2>9. \A s \in goal[w].pending : Kept(s)' /\ goal[w].pending = {s} /\ s \in Snapshots
    BY <2>2, <2>5 DEF Kept, Good, PendingOK, Inv, TypesOK, Records
  <2>10. ASSUME NEW v \in Workers, v # w PROVE WorkerOK(v)' /\ OwnerOK(v)'
    <3>1. /\ WorkerOK(v) /\ owner' # v /\ copy[v] \in Records
          /\ pc'[v] = pc[v] /\ copy'[v] = copy[v] /\ pos'[v] = pos[v] /\ snap'[v] = snap[v]
      BY <1>1, <1>3, <2>4, <2>10 DEF Inv, TypesOK, Others
    <3>2. (~Off(v))' = ~Off(v)
      BY <3>1 DEF Off
    <3>3. ASSUME Applying(v) PROVE Applying(v)'
      <4>1. PICK s \in Snapshots :
                /\ snap[v] = {s} /\ copy[v].pending = {s} /\ Kept(s)
                /\ pos[v] <= NParts /\ (pc[v] = "add" => pos[v] < NParts)
                /\ \A n \in 1 .. NParts : n <= pos[v] => There(s, n)
        BY <3>3 DEF Applying
      <4>2. Kept(s)' /\ \A n \in 1 .. NParts : n <= pos'[v] => There(s, n)'
        BY <2>6, <2>8, <3>1, <4>1 DEF AllStay, Stays
      <4>3. QED BY <3>1, <4>1, <4>2 DEF Applying
    <3>4. copy[v].pending \subseteq Snapshots
      BY <3>1 DEF Records
    <3>5. (~Off(v) => \A t \in copy[v].pending : Kept(t) /\ copy[v].pending = {t})'
      BY <2>8, <3>1, <3>2, <3>4 DEF WorkerOK
    <3>6. WorkerOK(v)'
      BY <3>1, <3>3, <3>5 DEF WorkerOK
    <3>7. QED BY <3>1, <3>6 DEF OwnerOK
  <2>11. WorkerOK(w)'
    <3>1. ASSUME l = "apply" PROVE Applying(w)'
      <4>1. snap[w] # {} /\ snap'[w] = goal[w].pending
        BY <1>1, <2>1, <2>5, <3>1
      <4>2. PICK s \in Snapshots : snap'[w] = {s} /\ copy'[w].pending = {s} /\ Kept(s)'
        BY <2>4, <2>5, <2>9, <4>1
      <4>3. QED BY <2>4, <3>1, <4>2, NPartsType DEF Applying
    <3>2. QED BY <2>1, <2>4, <2>9, <3>1 DEF WorkerOK, Off
  <2>12. OwnerOK(w)'
    <3>1. AfterFits(afterGroup[w], rec)' /\ copy'[w] = rec'
      BY <1>1, <2>2, <2>4, <2>5 DEF AfterFits
    <3>2. (pc[w] \in {"apply", "add"} => snap[w] = rec.pending)'
      BY <1>1, <2>1, <2>2, <2>4, <2>5
    <3>3. QED BY <2>1, <2>4, <3>1, <3>2 DEF OwnerOK
  <2>13. SummaryOnce'
    BY <1>1 DEF Inv, SummaryOnce
  <2>14. HalfOK'
    BY <1>1, <2>6, TwoParts DEF Inv, HalfOK, AllStay, Stays, Written
  <2>15. QED BY <2>3, <2>7, <2>10, <2>11, <2>12, <2>13, <2>14 DEF Inv
<1>4. QED BY <1>2, <1>3

LEMMA OpenStep ==
    ASSUME PlanAssumption, Inv, NEW w \in Workers, Open(w)
    PROVE  Inv'
<1>1. /\ UNCHANGED <<rec, brain, history>> /\ Candidates' \subseteq Fibers /\ owner' = w
      /\ copy' = [copy EXCEPT ![w] = rec] /\ goal' = [goal EXCEPT ![w] = rec]
      /\ pos' = [pos EXCEPT ![w] = 0] /\ snap' = [snap EXCEPT ![w] = {}]
      /\ afterGroup' = [afterGroup EXCEPT ![w] = IF rec.phase = "units" THEN rec.after ELSE 0]
      /\ pc' = [pc EXCEPT ![w] = "next"] /\ pc[w] # "add"
  BY DEF Open, plan, Candidates, Inv, TypesOK, Goto, Off
<1>2. TypesOK'
  <2>1. rec.after \in Nat
    BY DEF Inv, TypesOK, Records
  <2>2. QED BY <1>1, <2>1 DEF Inv, TypesOK, Labels, history
<1>3. /\ pc'[w] = "next" /\ copy'[w] = rec /\ Others(w)
      /\ afterGroup'[w] = IF rec.phase = "units" THEN rec.after ELSE 0
  BY <1>1 DEF Inv, TypesOK, Others
<1>4. AllStay
  BY <1>1, <1>3, Undisturbed
<1>5. \A s \in Snapshots : Kept(s) => Kept(s)'
  BY <1>1, <1>4, KeptStays DEF AllStay
<1>6. Good(rec)'
  <2>1. PICK r : r = rec
    OBVIOUS
  <2>2. Good(r)'
    BY <1>1, <1>4, <2>1, GoodStays DEF Inv
  <2>3. QED BY <1>1, <2>1, <2>2, RecGood
<1>7. SummaryOnce' /\ HalfOK'
  BY <1>1, <1>4, TwoParts DEF Inv, SummaryOnce, HalfOK, AllStay, Stays, Written
<1>8. WorkerOK(w)'
  <2>1. \A s \in rec.pending : Kept(s) /\ rec.pending = {s} /\ s \in Snapshots
    BY PendingOnly DEF Kept
  <2>2. QED BY <1>3, <1>5, <2>1 DEF WorkerOK
<1>9. OwnerOK(w)'
  <2>1. AfterFits(afterGroup[w], rec)'
    BY <1>1, <1>3 DEF AfterFits, Inv, TypesOK, Records
  <2>2. QED BY <1>1, <1>3, <2>1 DEF OwnerOK
<1>10. ASSUME NEW v \in Workers, v # w PROVE WorkerOK(v)' /\ OwnerOK(v)'
  <2>1. /\ WorkerOK(v) /\ owner' # v /\ copy[v] \in Records
        /\ pc'[v] = pc[v] /\ copy'[v] = copy[v] /\ pos'[v] = pos[v] /\ snap'[v] = snap[v]
    BY <1>1, <1>3, <1>10 DEF Inv, TypesOK, Others
  <2>2. (~Off(v))' = ~Off(v)
    BY <2>1 DEF Off
  <2>3. ASSUME Applying(v) PROVE Applying(v)'
    <3>1. PICK s \in Snapshots :
              /\ snap[v] = {s} /\ copy[v].pending = {s} /\ Kept(s)
              /\ pos[v] <= NParts /\ (pc[v] = "add" => pos[v] < NParts)
              /\ \A n \in 1 .. NParts : n <= pos[v] => There(s, n)
      BY <2>3 DEF Applying
    <3>2. Kept(s)' /\ \A n \in 1 .. NParts : n <= pos'[v] => There(s, n)'
      BY <1>4, <1>5, <2>1, <3>1 DEF AllStay, Stays
    <3>3. QED BY <2>1, <3>1, <3>2 DEF Applying
  <2>4. copy[v].pending \subseteq Snapshots
    BY <2>1 DEF Records
  <2>5. (~Off(v) => \A t \in copy[v].pending : Kept(t) /\ copy[v].pending = {t})'
    BY <1>5, <2>1, <2>2, <2>4 DEF WorkerOK
  <2>6. QED BY <2>1, <2>3, <2>5 DEF WorkerOK, OwnerOK
<1>11. QED BY <1>2, <1>6, <1>7, <1>8, <1>9, <1>10 DEF Inv

-----------------------------------------------------------------------------
(* The theorems *)

LEMMA InitInv ==
    ASSUME PlanAssumption, Init
    PROVE  Inv
<1>1. rec \in Records /\ rec.pending = {} /\ brain = {}
  BY DEF Init, Records
<1>2. TypesOK
  BY <1>1 DEF Init, TypesOK, Labels, Candidates
<1>3. \A w \in Workers : Off(w)
  BY DEF Init, Off
<1>4. QED BY <1>1, <1>2, <1>3 DEF Inv, Good, PendingOK, SummaryOnce, HalfOK, WorkerOK, OwnerOK, Off

LEMMA NextInv ==
    ASSUME PlanAssumption, Inv, [Next]_vars
    PROVE  Inv'
<1>1. ASSUME NEW w \in Workers, Step(w) PROVE Inv'
  BY <1>1, CheckpointStep, CensusSteps, StageSteps, PairSteps, MemberSteps, CollectStep,
     ReplayStep, LookStep, AddStep, AppliedStep, UnitsEndStep, ReturnStep DEF Step
<1>2. ASSUME NEW w \in Workers, Stop(w) PROVE Inv'
  <2>1. Candidates' \subseteq Fibers
    BY <1>2 DEF Stop, plan, Candidates, Inv, TypesOK
  <2>2. /\ pc' = [pc EXCEPT ![w] = "off"] /\ UNCHANGED <<rec, brain, copy, pos, goal, snap, afterGroup>>
        /\ undone' = undone /\ owner' = owner /\ ~Off(w)
        /\ torn' = torn \cup {s.id : s \in {t \in snap[w] : Between(w, t)}}
    BY <1>2 DEF Stop, Goto, hands
  <2>3. Others(w)
    BY <2>2 DEF Inv, TypesOK, Others
  <2>4. ASSUME NEW s PROVE Stays(s)
    <3>1. Between(w, s) => s.id \in torn'
      BY <2>2 DEF Between
    <3>2. \A n \in 1 .. NParts : Written(s, n) \in brain => Written(s, n) \in brain'
      BY <2>2
    <3>3. QED BY <2>2, <2>3, <3>1, <3>2, StayIf
  <2>5. AllStay
    BY <2>4 DEF AllStay
  <2>6. torn' \subseteq SnapshotIds
    BY <2>2 DEF Inv, TypesOK, Snapshots
  <2>7. QED BY <2>1, <2>2, <2>5, <2>6, Moving DEF Labels
<1>3. CASE UNCHANGED <<owner, rec, plan, brain, worker, history>>
  <2>1. /\ UNCHANGED <<owner, rec, cands, brain, pc, copy, pos, goal, snap, afterGroup, torn, undone>>
    BY <1>3 DEF plan, worker, hands, history
  <2>2. TypesOK' /\ SummaryOnce'
    BY <2>1 DEF Inv, TypesOK, Candidates, SummaryOnce
  <2>3. ASSUME NEW s PROVE Stays(s)
    BY <2>1 DEF Stays, There, Excused, Between, Written
  <2>4. AllStay
    BY <2>3 DEF AllStay
  <2>5. Good(rec)' /\ HalfOK'
    <3>1. PICK r : r = rec
      OBVIOUS
    <3>2. Good(r)'
      BY <2>1, <2>4, <3>1, GoodStays DEF Inv
    <3>3. Good(rec)'
      BY <2>1, <3>1, <3>2, RecGood
    <3>4. QED BY <2>1, <2>4, <3>3, TwoParts, PlanAssumption DEF Inv, HalfOK, AllStay, Stays, Written
  <2>6. ASSUME NEW v \in Workers PROVE WorkerOK(v)' /\ OwnerOK(v)'
    <3>1. WorkerOK(v) /\ OwnerOK(v)
      BY DEF Inv
    <3>2. \A s, n : There(s, n)' = There(s, n)
      BY <2>1 DEF There, Excused, Between, Written
    <3>3. \A s : Whole(s)' = Whole(s)
      BY <3>2 DEF Whole
    <3>4. \A s : Kept(s)' = Kept(s)
      BY <2>1, <3>3 DEF Kept
    <3>5. ASSUME Applying(v) PROVE Applying(v)'
      BY <2>1, <3>2, <3>4, <3>5 DEF Applying
    <3>6. WorkerOK(v)'
      BY <2>1, <3>1, <3>4, <3>5 DEF WorkerOK, Off
    <3>7. ASSUME Good(goal[v]) PROVE Good(goal[v])'
      <4>1. PICK r : r = goal[v]
        OBVIOUS
      <4>2. Good(r)'
        BY <2>1, <2>4, <3>7, <4>1, GoodStays
      <4>3. QED BY <2>1, <4>1, <4>2, GoalGood
    <3>8. OwnerOK(v)'
      BY <2>1, <3>1, <3>3, <3>7 DEF OwnerOK, Off, AfterFits
    <3>9. QED BY <3>6, <3>8
  <2>7. QED BY <2>2, <2>5, <2>6 DEF Inv
<1>4. ASSUME NEW f \in Touched, Change(f) PROVE Inv'
  BY <1>3, <1>4 DEF Change
<1>5. CASE UNCHANGED vars
  BY <1>3, <1>5 DEF vars, outside
<1>6. CASE Finished
  BY <1>5, <1>6 DEF Finished
<1>7. QED BY <1>1, <1>2, <1>4, <1>5, <1>6, OpenStep, AddFailsStep DEF Next

\* No group of any census gets a second summary, whatever faults and expired
\* owners there are (_summarize_durable, replay_pending, apply_snapshot).
THEOREM SummariesAreUnique == Spec => []SummaryOnce
<1>1. Init => Inv
  BY PlanAssumption, InitInv
<1>2. Inv /\ [Next]_vars => Inv'
  BY PlanAssumption, NextInv
<1>3. Inv => SummaryOnce
  BY DEF Inv
<1>4. QED BY <1>1, <1>2, <1>3, PTL DEF Spec

\* The cursor of the run record never passes a summary of which a row is
\* missing that a replay looks for. What it may pass is a neuron without its
\* state row, where a worker ended between the two inserts of add_neuron, and a
\* summary whose neuron add_neuron took back under another worker.
THEOREM SummariesAreWhole == Spec => []NoPartialSummary
<1>1. Init => Inv
  BY PlanAssumption, InitInv
<1>2. Inv /\ [Next]_vars => Inv'
  BY PlanAssumption, NextInv
<1>3. Inv => NoPartialSummary
  <2> SUFFICES ASSUME Inv, NEW b \in brain, Committed(b.root), NEW n \in 1 .. NParts
               PROVE  There([root |-> b.root, id |-> b.id], n)
    BY DEF NoPartialSummary, There
  <2>1. PICK s \in Snapshots : PartOf(s, b) /\ (s \in rec.pending \/ Whole(s))
    BY DEF Inv, Good, Covered
  <2>2. b.root = s.root /\ b.id = s.id
    BY <2>1, PartsTell
  <2>3. s \notin rec.pending
    <3>1. SUFFICES ASSUME s \in rec.pending PROVE FALSE
      OBVIOUS
    <3>2. rec.phase = "units" /\ rec.after < s.root /\ s.root <= rec.after
      BY <2>2, <3>1, PendingOnly DEF Committed
    <3>3. rec.after \in Nat /\ s.root \in Fibers
      BY DEF Inv, TypesOK, Records, Snapshots
    <3>4. QED BY <3>2, <3>3 DEF Fibers
  <2>4. There(s, n)
    BY <2>1, <2>3 DEF Whole
  <2>5. s = [root |-> b.root, id |-> b.id]
    BY <2>2 DEF Snapshots
  <2>6. QED BY <2>4, <2>5
<1>4. QED BY <1>1, <1>2, <1>3, PTL DEF Spec
=============================================================================
