------------------------- MODULE SummarizeGroupsProofs -------------------------
(***************************************************************************)
(* TLAPS proofs about the plan of SummarizePlan: its types, what the rows  *)
(* of the plan agree on, and the groups that come out of it. An invariant  *)
(* is added layer by layer, each resting on those before it.               *)
(***************************************************************************)
EXTENDS SummarizePlanProofs, SummarizePlanLemmas

-----------------------------------------------------------------------------
(* Kinds of steps *)

\* The run record, and what the workers have read of it or are about to save.
Recs == {rec} \cup {copy[w] : w \in Workers} \cup {goal[w] : w \in Workers}

Elsewhere(w) ==
    \A v \in Workers \ {w} :
        pc'[v] = pc[v] /\ copy'[v] = copy[v] /\ pos'[v] = pos[v] /\ page'[v] = page[v]
            /\ joining'[v] = joining[v] /\ goal'[v] = goal[v] /\ snap'[v] = snap[v]

\* A step after which w has nothing in its hands for the plan.
Quiet(w) ==
    /\ UNCHANGED <<live, plan>> /\ Elsewhere(w) /\ Recs' \subseteq Recs
    /\ pc'[w] \notin {"page", "union"} /\ (pc'[w] = "next" => pos'[w] = 0)
    /\ joining'[w] \in {joining[w], NoRows}

\* w is about to save r, which it did not have before.
Makes(w, r) ==
    /\ pc[w] \in {"next", "page", "apply"} /\ pc'[w] = "save" /\ goal'[w] = r
    /\ UNCHANGED <<live, rec, copy, joining>> /\ Elsewhere(w)

Busy == {"apply", "add"}
\* Units are made in the phase of units only, and under the name of the run.
UnitsPhase(w) ==
    /\ pc[w] \in Busy => copy[w].phase = "units"
    /\ pc[w] = "save" /\ snap[w] # {} => goal[w].phase = "units"

HandTypes ==
    /\ DOMAIN page = Workers /\ DOMAIN joining = Workers /\ DOMAIN census = 1 .. NFibers
    /\ \A w \in Workers : UnitsPhase(w)

\* a record of the units that comes behind q
UnitsGoOn(q, r) ==
    q.phase = "units" /\ r \in Records /\ r.phase \in {"units", "done"} /\ r.seq = q.seq

LEMMA MakesRecs ==
    ASSUME Inv, NEW w \in Workers, NEW r, Makes(w, r)
    PROVE  Recs' \subseteq Recs \cup {r}
BY DEF Recs, Makes, Elsewhere

LEMMA SaveMakes ==
    ASSUME Inv, HandTypes, NEW w \in Workers, NEW r, NEW s, Save(w, r, s),
           UNCHANGED <<live, rec, copy, pos, page, joining>>, pc[w] \in {"next", "page", "apply"}
    PROVE  Makes(w, r)
BY DEF Inv, TypesOK, HandTypes, Save, Goto, Makes, Elsewhere

LEMMA SaveCopyMakes ==
    ASSUME Inv, HandTypes, NEW w \in Workers, NEW r, SaveCopy(w, r),
           pc[w] \in {"next", "page", "apply"}
    PROVE  Makes(w, r)
BY SaveMakes DEF SaveCopy, outside

LEMMA OpenQuiet ==
    ASSUME Inv, HandTypes, NEW w \in Workers, Open(w)
    PROVE  Quiet(w)
<1>1. /\ UNCHANGED <<live, plan, rec>>
      /\ copy' = [copy EXCEPT ![w] = rec] /\ goal' = [goal EXCEPT ![w] = rec]
      /\ pos' = [pos EXCEPT ![w] = 0] /\ snap' = [snap EXCEPT ![w] = {}]
      /\ page' = [page EXCEPT ![w] = {}] /\ joining' = [joining EXCEPT ![w] = NoRows]
      /\ pc' = [pc EXCEPT ![w] = "next"]
  BY DEF Open, Goto
<1>2. Elsewhere(w) /\ pc'[w] = "next" /\ pos'[w] = 0 /\ copy'[w] = rec /\ goal'[w] = rec
  BY <1>1 DEF Inv, TypesOK, HandTypes, Elsewhere
<1>3. Recs' \subseteq Recs
  BY <1>1, <1>2 DEF Recs, Elsewhere
<1>4. QED BY <1>1, <1>2, <1>3 DEF Quiet

LEMMA CheckpointQuiet ==
    ASSUME Inv, HandTypes, NEW w \in Workers, Checkpoint(w)
    PROVE  Quiet(w)
<1>1. /\ UNCHANGED <<live, plan, page, joining, goal, snap>> /\ pos' = [pos EXCEPT ![w] = 0]
      /\ \E l \in {"off", "next", "apply"} : pc' = [pc EXCEPT ![w] = l]
      /\ \/ UNCHANGED <<rec, copy>>
         \/ rec' = goal[w] /\ copy' = [copy EXCEPT ![w] = goal[w]]
  BY DEF Checkpoint, Goto, hands
<1>2. /\ Elsewhere(w) /\ pc'[w] \in {"off", "next", "apply"} /\ pos'[w] = 0
      /\ rec' \in Recs /\ copy'[w] \in Recs /\ goal'[w] \in Recs
  BY <1>1 DEF Inv, TypesOK, HandTypes, Elsewhere, Recs
<1>3. Recs' \subseteq Recs
  BY <1>1, <1>2 DEF Recs, Elsewhere
<1>4. QED BY <1>1, <1>2, <1>3 DEF Quiet

\* Whatever leaves the plan, the records and the hands alone, and goes where
\* nothing in them counts.
LEMMA IdleQuiet ==
    ASSUME Inv, HandTypes, NEW w \in Workers, UNCHANGED <<live, plan, rec, copy, goal, page, joining>>,
           NEW l \in {"off", "refused", "conflict", "apply", "add"}, pc' = [pc EXCEPT ![w] = l],
           \/ pos' = pos
           \/ \E n : pos' = [pos EXCEPT ![w] = n],
           \/ snap' = snap
           \/ \E s : snap' = [snap EXCEPT ![w] = s]
    PROVE  Quiet(w)
BY DEF Inv, TypesOK, HandTypes, Elsewhere, Quiet, Recs

LEMMA UnitQuiet ==
    ASSUME Inv, HandTypes, NEW w \in Workers,
           Stop(w) \/ Replay(w) \/ Look(w) \/ Add(w) \/ AddFails(w) \/ Return(w)
    PROVE  Quiet(w)
<1>. pc \in [Workers -> Labels]
  BY DEF Inv, TypesOK
<1>1. CASE Stop(w)
  BY <1>1, IdleQuiet DEF Stop, Goto, hands
<1>2. CASE Replay(w)
  <2>1. UNCHANGED <<live, plan, rec, copy, goal, page, joining>>
    BY <1>2 DEF Replay, outside
  <2>2. /\ \E l \in {"refused", "apply"} : pc' = [pc EXCEPT ![w] = l]
        /\ pos' = pos \/ \E n : pos' = [pos EXCEPT ![w] = n]
        /\ snap' = snap \/ \E u : snap' = [snap EXCEPT ![w] = u]
    BY <1>2 DEF Replay, Goto
  <2>3. QED BY <2>1, <2>2, IdleQuiet
<1>3. CASE Look(w)
  <2>1. /\ UNCHANGED <<live, plan, rec, copy, goal, page, joining, snap>>
        /\ (\E l \in {"apply", "add"} : pc' = [pc EXCEPT ![w] = l])
        /\ (pos' = pos \/ \E n : pos' = [pos EXCEPT ![w] = n])
    <3>1. pc[w] = "apply" /\ (((\E n : pos' = [pos EXCEPT ![w] = n]) /\ pc' = pc)
                                \/ (Goto(w, "add") /\ pos' = pos))
      BY <1>3 DEF Look
    <3>2. QED BY <1>3, <3>1 DEF Look, Goto, outside, hands
  <2>2. QED BY <2>1, IdleQuiet
<1>4. CASE Add(w) \/ AddFails(w)
  <2>1. /\ UNCHANGED <<live, plan, rec, copy, goal, page, joining, snap>>
        /\ (\E l \in {"add", "apply", "off"} : pc' = [pc EXCEPT ![w] = l])
        /\ (pos' = pos \/ \E n : pos' = [pos EXCEPT ![w] = n])
    BY <1>4 DEF Add, AddFails, TakeBack, Goto, Advance, hands
  <2>2. QED BY <2>1, IdleQuiet
<1>5. CASE Return(w)
  BY <1>5, IdleQuiet DEF Return, Goto, outside, hands
<1>6. QED BY <1>1, <1>2, <1>3, <1>4, <1>5

\* What a unit saves comes behind what was saved before.
LEMMA UnitMakes ==
    ASSUME PlanAssumption, Inv, HandTypes, NEW w \in Workers, Collect(w) \/ Applied(w) \/ UnitsEnd(w)
    PROVE  Quiet(w) \/ \E r : Makes(w, r) /\ UNCHANGED plan /\ UnitsGoOn(copy[w], r)
<1>. copy[w] \in Records /\ UNCHANGED plan
  BY DEF Inv, TypesOK, Collect, Applied, UnitsEnd
<1>. Fibers \subseteq Nat
  BY DEF Fibers
<1>1. CASE Collect(w)
  <2>1. PICK root \in Fibers :
        /\ root > copy[w].after
        /\ \/ Goto(w, "refused") /\ UNCHANGED <<goal, snap>>
           \/ Save(w, [copy[w] EXCEPT !.after = root], {})
           \/ \E s \in Snapshots : Save(w, Pending(w, s), {s})
    BY <1>1 DEF Collect, Beyond, Roots, Snapshots, Fresh
  <2>2. /\ UNCHANGED <<live, rec, copy, pos, page, joining>>
        /\ copy[w].phase = "units" /\ pc[w] = "next"
    BY <1>1 DEF Collect, outside, InPhase
  <2>3. CASE Goto(w, "refused") /\ UNCHANGED <<goal, snap>>
    BY <2>2, <2>3, IdleQuiet DEF Goto
  <2>4. CASE Save(w, [copy[w] EXCEPT !.after = root], {})
    <3>1. UnitsGoOn(copy[w], [copy[w] EXCEPT !.after = root])
      BY <2>1, <2>2 DEF UnitsGoOn, Records
    <3>2. QED BY <2>2, <2>4, <3>1, SaveMakes
  <2>5. ASSUME NEW s \in Snapshots, Save(w, Pending(w, s), {s})
        PROVE  \E r : Makes(w, r) /\ UnitsGoOn(copy[w], r)
    <3>1. UnitsGoOn(copy[w], Pending(w, s))
      BY <2>2 DEF UnitsGoOn, Records, Pending, Inv, TypesOK
    <3>2. QED BY <2>2, <2>5, <3>1, SaveMakes
  <2>6. QED BY <2>1, <2>3, <2>4, <2>5
<1>2. CASE Applied(w)
  <2>1. PICK s \in snap[w] : SaveCopy(w, [copy[w] EXCEPT !.after = s.root, !.pending = {}])
    BY <1>2 DEF Applied
  <2>2. pc[w] = "apply" /\ copy[w].phase = "units"
    BY <1>2 DEF Applied, HandTypes, UnitsPhase, Busy
  <2>3. s.root \in Nat
    <3>1. s \in Snapshots
      BY <2>1 DEF Inv, TypesOK
    <3>2. QED BY <3>1 DEF Snapshots
  <2>4. UnitsGoOn(copy[w], [copy[w] EXCEPT !.after = s.root, !.pending = {}])
    BY <2>2, <2>3 DEF UnitsGoOn, Records
  <2>5. QED BY <2>1, <2>2, <2>4, SaveCopyMakes
<1>3. CASE UnitsEnd(w)
  <2>1. UnitsGoOn(copy[w], [copy[w] EXCEPT !.phase = "done"])
    BY <1>3 DEF UnitsGoOn, Records, UnitsEnd, InPhase
  <2>2. QED BY <1>3, <2>1, SaveCopyMakes DEF UnitsEnd, InPhase
<1>4. QED BY <1>1, <1>2, <1>3

LEMMA HandDomains ==
    ASSUME HandTypes, [Next]_vars
    PROVE  DOMAIN page' = Workers /\ DOMAIN joining' = Workers /\ DOMAIN census' = 1 .. NFibers
<1>1. ASSUME NEW w \in Workers, Step(w)
      PROVE  /\ page' = page \/ \E x : page' = [page EXCEPT ![w] = x]
             /\ joining' = joining \/ \E x : joining' = [joining EXCEPT ![w] = x]
             /\ census' = census \/ \E k, x : census' = [census EXCEPT ![k] = x]
  <2>1. CASE ReadPage(w) \/ StagePage(w) \/ ReadPair(w)
    BY <2>1 DEF ReadPage, StagePage, ReadPair, plan, hands, SaveCopy
  <2>2. CASE \/ Checkpoint(w) \/ CensusEnds(w) \/ StageFiber(w) \/ StageEnds(w)
             \/ WriteUnion(w) \/ PairsEnd(w) \/ AddMember(w) \/ MembersEnd(w)
    BY <2>2 DEF Checkpoint, CensusEnds, StageFiber, StageEnds, WriteUnion, PairsEnd, AddMember,
                MembersEnd, plan, hands, SaveCopy
  <2>3. CASE \/ Collect(w) \/ Replay(w) \/ Look(w) \/ Add(w) \/ Applied(w) \/ UnitsEnd(w) \/ Return(w)
    BY <2>3 DEF Collect, Replay, Look, Add, Applied, UnitsEnd, Return, plan, hands, SaveCopy
  <2>4. QED BY <1>1, <2>1, <2>2, <2>3 DEF Step
<1>2. ASSUME NEW w \in Workers, Open(w) \/ Stop(w) \/ AddFails(w)
      PROVE  /\ page' = page \/ \E x : page' = [page EXCEPT ![w] = x]
             /\ joining' = joining \/ \E x : joining' = [joining EXCEPT ![w] = x]
             /\ census' = census
  BY <1>2 DEF Open, Stop, AddFails, plan, hands
<1>3. CASE \/ \E w \in Workers : Open(w) \/ Step(w) \/ Stop(w) \/ AddFails(w)
  BY <1>1, <1>2, <1>3 DEF HandTypes
<1>4. CASE (\E f \in Touched : Change(f)) \/ Finished \/ UNCHANGED vars
  BY <1>4 DEF HandTypes, Change, Finished, vars, plan, worker, hands
<1>5. QED BY <1>3, <1>4 DEF Next

\* Nobody writes what another worker holds.
LEMMA StepElsewhere ==
    ASSUME Inv, HandTypes, NEW w \in Workers, Step(w) \/ Open(w) \/ Stop(w) \/ AddFails(w)
    PROVE  Elsewhere(w)
<1> DEFINE Only(f, g) == g = f \/ \E x : g = [f EXCEPT ![w] = x]
<1>. USE DEF SaveCopy, Save, Goto, Advance, TakeBack, hands, worker
<1>1. Only(pc, pc') /\ Only(goal, goal') /\ Only(snap, snap')
  <2>1. CASE ReadPage(w) \/ StagePage(w) \/ ReadPair(w)
    BY <2>1 DEF ReadPage, StagePage, ReadPair
  <2>2. CASE \/ Checkpoint(w) \/ CensusEnds(w) \/ StageFiber(w) \/ StageEnds(w)
    BY <2>2 DEF Checkpoint, CensusEnds, StageFiber, StageEnds
  <2>3. CASE \/ WriteUnion(w) \/ PairsEnd(w) \/ AddMember(w) \/ MembersEnd(w)
    BY <2>3 DEF WriteUnion, PairsEnd, AddMember, MembersEnd
  <2>4. CASE \/ Collect(w) \/ Replay(w) \/ Look(w) \/ Add(w) \/ AddFails(w)
    BY <2>4 DEF Collect, Replay, Look, Add, AddFails
  <2>5. CASE Applied(w) \/ UnitsEnd(w) \/ Return(w) \/ Open(w) \/ Stop(w)
    BY <2>5 DEF Applied, UnitsEnd, Return, Open, Stop
  <2>6. QED BY <2>1, <2>2, <2>3, <2>4, <2>5 DEF Step
<1>2. Only(copy, copy') /\ Only(pos, pos')
  <2>1. CASE ReadPage(w) \/ StagePage(w) \/ ReadPair(w)
    BY <2>1 DEF ReadPage, StagePage, ReadPair
  <2>2. CASE \/ Checkpoint(w) \/ CensusEnds(w) \/ StageFiber(w) \/ StageEnds(w)
    BY <2>2 DEF Checkpoint, CensusEnds, StageFiber, StageEnds
  <2>3. CASE \/ WriteUnion(w) \/ PairsEnd(w) \/ AddMember(w) \/ MembersEnd(w)
    BY <2>3 DEF WriteUnion, PairsEnd, AddMember, MembersEnd
  <2>4. CASE \/ Collect(w) \/ Replay(w) \/ Look(w) \/ Add(w) \/ AddFails(w)
    BY <2>4 DEF Collect, Replay, Look, Add, AddFails
  <2>5. CASE Applied(w) \/ UnitsEnd(w) \/ Return(w) \/ Open(w) \/ Stop(w)
    BY <2>5 DEF Applied, UnitsEnd, Return, Open, Stop
  <2>6. QED BY <2>1, <2>2, <2>3, <2>4, <2>5 DEF Step
<1>3. Only(page, page') /\ Only(joining, joining')
  <2>1. CASE ReadPage(w) \/ StagePage(w) \/ ReadPair(w)
    BY <2>1 DEF ReadPage, StagePage, ReadPair
  <2>2. CASE \/ Checkpoint(w) \/ CensusEnds(w) \/ StageFiber(w) \/ StageEnds(w)
    BY <2>2 DEF Checkpoint, CensusEnds, StageFiber, StageEnds
  <2>3. CASE \/ WriteUnion(w) \/ PairsEnd(w) \/ AddMember(w) \/ MembersEnd(w)
    BY <2>3 DEF WriteUnion, PairsEnd, AddMember, MembersEnd
  <2>4. CASE \/ Collect(w) \/ Replay(w) \/ Look(w) \/ Add(w) \/ AddFails(w)
    BY <2>4 DEF Collect, Replay, Look, Add, AddFails
  <2>5. CASE Applied(w) \/ UnitsEnd(w) \/ Return(w) \/ Open(w) \/ Stop(w)
    BY <2>5 DEF Applied, UnitsEnd, Return, Open, Stop
  <2>6. QED BY <2>1, <2>2, <2>3, <2>4, <2>5 DEF Step
<1>4. ASSUME NEW f, NEW g, Only(f, g), DOMAIN f = Workers, NEW v \in Workers \ {w}
      PROVE  g[v] = f[v]
  BY <1>4
<1>5. /\ DOMAIN pc = Workers /\ DOMAIN copy = Workers /\ DOMAIN pos = Workers
      /\ DOMAIN goal = Workers /\ DOMAIN snap = Workers
  BY DEF Inv, TypesOK
<1> HIDE DEF Only
<1>6. QED BY <1>1, <1>2, <1>3, <1>4, <1>5 DEF Elsewhere, HandTypes

LEMMA UnitsPhaseNext ==
    ASSUME Inv, HandTypes, [Next]_vars
    PROVE  \A v \in Workers : UnitsPhase(v)'
<1> SUFFICES ASSUME NEW v \in Workers PROVE UnitsPhase(v)'
  OBVIOUS
<1>. /\ UnitsPhase(v) /\ pc \in [Workers -> Labels] /\ copy \in [Workers -> Records]
     /\ goal \in [Workers -> Records] /\ snap \in [Workers -> SUBSET Snapshots]
  BY DEF Inv, TypesOK, HandTypes
<1>1. CASE UNCHANGED worker
  BY <1>1 DEF worker, hands, UnitsPhase
<1>2. ASSUME NEW w \in Workers, Step(w) \/ Open(w) \/ Stop(w) \/ AddFails(w) PROVE UnitsPhase(v)'
  <2>1. CASE v # w
    <3>1. pc'[v] = pc[v] /\ copy'[v] = copy[v] /\ goal'[v] = goal[v] /\ snap'[v] = snap[v]
      BY <1>2, <2>1, StepElsewhere DEF Elsewhere
    <3>2. QED BY <3>1 DEF UnitsPhase
  <2>2. CASE v = w
    <3>1. CASE Checkpoint(w)
      BY <2>2, <3>1 DEF Checkpoint, Goto, UnitsPhase, Busy, hands
    <3>2. ASSUME NEW r, SaveCopy(w, r) PROVE UnitsPhase(w)'
      BY <3>2 DEF SaveCopy, Save, Goto, UnitsPhase, Busy
    <3>3. CASE Replay(w) \/ Look(w) \/ Add(w)
      <4>1. pc[w] \in Busy \/ copy[w].phase = "units"
        BY <3>3 DEF Replay, Look, Add, InPhase, Busy
      <4>2. copy'[w] = copy[w] /\ pc'[w] # "save"
        BY <3>3 DEF Replay, Look, Add, TakeBack, Goto, hands
      <4>3. QED BY <2>2, <4>1, <4>2 DEF UnitsPhase
    <3>4. CASE Collect(w)
      <4>1. pc[w] = "next" /\ copy[w].phase = "units"
        BY <3>4 DEF Collect, InPhase
      <4>2. ASSUME NEW i, Save(w, Pending(w, i), {i}) PROVE UnitsPhase(w)'
        <5>1. Pending(w, i).phase = "units"
          BY <4>1 DEF Pending, Records
        <5>2. goal'[w] = Pending(w, i) /\ pc'[w] = "save"
          BY <4>2 DEF Save, Goto
        <5>3. QED BY <5>1, <5>2 DEF UnitsPhase, Busy
      <4>3. ASSUME NEW r, Save(w, r, {}) PROVE UnitsPhase(w)'
        BY <4>3 DEF Save, Goto, UnitsPhase, Busy
      <4>4. ASSUME Goto(w, "refused") PROVE UnitsPhase(w)'
        BY <4>4 DEF Goto, UnitsPhase, Busy
      <4>5. QED BY <2>2, <3>4, <4>2, <4>3, <4>4 DEF Collect
    <3>5. CASE Open(w)
      BY <2>2, <3>5 DEF Open, Goto, UnitsPhase, Busy
    <3>6. ASSUME pc'[w] \notin Busy \cup {"save"} PROVE UnitsPhase(w)'
      BY <3>6 DEF UnitsPhase, Busy
    <3>7. CASE Stop(w) \/ Return(w) \/ AddFails(w)
      BY <2>2, <3>6, <3>7 DEF Stop, Return, AddFails, TakeBack, Goto, Busy
    <3>8. CASE ReadPage(w) \/ StagePage(w) \/ CensusEnds(w)
      BY <2>2, <3>2, <3>6, <3>8 DEF ReadPage, StagePage, CensusEnds, Goto, Busy
    <3>9. CASE StageFiber(w) \/ ReadPair(w) \/ WriteUnion(w) \/ AddMember(w)
      <4>1. pc'[w] \in {"next", "conflict", "union"}
        BY <3>9 DEF StageFiber, ReadPair, WriteUnion, AddMember, InPhase, Goto
      <4>2. QED BY <2>2, <3>6, <4>1 DEF Busy
    <3>10. CASE StageEnds(w) \/ PairsEnd(w) \/ MembersEnd(w) \/ Applied(w) \/ UnitsEnd(w)
      BY <2>2, <3>2, <3>10 DEF StageEnds, PairsEnd, MembersEnd, Applied, UnitsEnd
    <3>11. QED BY <1>2, <2>2, <3>1, <3>3, <3>4, <3>5, <3>7, <3>8, <3>9, <3>10 DEF Step
  <2>3. QED BY <2>1, <2>2
<1>3. QED BY <1>1, <1>2 DEF Next, Change, Finished, vars

-----------------------------------------------------------------------------
(* The census, and the types of the plan *)

PlanTypes ==
    /\ live \in [Fibers -> [edits : Nat, recalls : Nat]]
    /\ \A k \in 1 .. NFibers : \A rows \in census[k] : IsPage(rows, k)
    /\ cands \subseteq [fiber : Fibers, sig : Nat] /\ markers \subseteq SUBSET Fibers
    /\ RootTypes
    /\ members \subseteq [root : Fibers, fiber : Fibers]

\* The pages that a record counts as staged are staged.
PagesStaged(r) ==
    \A k \in 1 .. NFibers :
        PageOf(k) # {} /\ (r.phase = "census" => k <= r.after) => census[k] # {}

HandsOK(w) ==
    /\ pc[w] = "page" =>
        /\ PageOf(copy[w].after + 1) # {}
        /\ \E rows : page[w] = {rows} /\ IsPage(rows, copy[w].after + 1)
    /\ joining[w] \in [parents : SUBSET ParentRows, ranks : SUBSET RankRows]

CensusInv ==
    /\ HandTypes /\ PlanTypes
    /\ \A r \in Recs : PagesStaged(r)
    /\ \A w \in Workers : HandsOK(w)

LEMMA HandTypesNext ==
    ASSUME Inv, HandTypes, [Next]_vars
    PROVE  HandTypes'
BY HandDomains, UnitsPhaseNext DEF HandTypes

LEMMA CensusFrame ==
    ASSUME CensusInv, NEW w \in Workers, HandTypes', PlanTypes', Elsewhere(w),
           \A k \in 1 .. NFibers : census[k] # {} => census'[k] # {},
           \A r \in Recs' \ Recs : PagesStaged(r)', HandsOK(w)'
    PROVE  CensusInv'
<1>1. \A r \in Recs : PagesStaged(r)'
  BY DEF CensusInv, PagesStaged
<1>2. ASSUME NEW v \in Workers PROVE HandsOK(v)'
  BY DEF CensusInv, HandsOK, Elsewhere, IsPage
<1>3. QED BY <1>1, <1>2 DEF CensusInv

LEMMA QuietCensus ==
    ASSUME CensusInv, NEW w \in Workers, HandTypes', Quiet(w)
    PROVE  CensusInv'
<1>1. PlanTypes'
  BY DEF CensusInv, PlanTypes, RootTypes, Quiet, plan, IsPage
<1>2. HandsOK(w)'
  BY DEF CensusInv, HandsOK, Quiet, NoRows
<1>3. QED BY <1>1, <1>2, CensusFrame DEF Quiet, plan

\* Behind the census any record may be made.
LEMMA CensusMakes ==
    ASSUME CensusInv, Inv, NEW w \in Workers, HandTypes', NEW r, Makes(w, r), UNCHANGED plan,
           NEW q \in Recs, q.phase # "census"
    PROVE  CensusInv'
<1>1. PlanTypes'
  BY DEF CensusInv, PlanTypes, RootTypes, Makes, plan, IsPage
<1>2. HandsOK(w)'
  BY DEF CensusInv, HandsOK, Makes
<1>3. PagesStaged(r)'
  BY DEF CensusInv, PagesStaged, plan
<1>4. QED BY <1>1, <1>2, <1>3, CensusFrame, MakesRecs DEF Makes, plan

LEMMA CensusCensusSteps ==
    ASSUME PlanAssumption, CensusInv, Inv, NEW w \in Workers, HandTypes',
           ReadPage(w) \/ StagePage(w) \/ CensusEnds(w)
    PROVE  CensusInv'
<1> DEFINE k == copy[w].after + 1
<1>. /\ HandTypes /\ PlanTypes /\ HandsOK(w) /\ PagesStaged(copy[w]) /\ copy[w] \in Records
     /\ pc \in [Workers -> Labels] /\ copy[w] \in Recs /\ WorkerOK(w)
  BY DEF CensusInv, Inv, TypesOK, Recs
<1>. k \in Nat \ {0} /\ copy[w].after \in Nat
  BY DEF Records
<1>. Elsewhere(w)
  BY StepElsewhere DEF Step, CensusInv
<1>1. CASE ReadPage(w)
  <2>1. /\ UNCHANGED <<live, plan, copy, rec, goal, joining>> /\ PageOf(k) # {}
        /\ page' = [page EXCEPT ![w] = {[f \in PageOf(k) |-> live[f]]}]
        /\ Recs' = Recs
    BY <1>1 DEF ReadPage, outside, Recs
  <2>2. PlanTypes'
    BY <2>1 DEF PlanTypes, RootTypes, plan, IsPage
  <2>3. IsPage([f \in PageOf(k) |-> live[f]], k)
    BY DEF IsPage, PlanTypes, PageOf
  <2>4. HandsOK(w)'
    BY <2>1, <2>3 DEF HandsOK, HandTypes, IsPage
  <2>5. QED BY <2>1, <2>2, <2>4, CensusFrame DEF plan
<1>2. CASE StagePage(w)
  <2>1. pc[w] = "page" /\ copy[w].phase = "census" /\ PageOf(k) # {} /\ k \in 1 .. NFibers
    BY <1>2, PageNumbers DEF StagePage, HandsOK, WorkerOK
  <2>2. PICK rows : page[w] = {rows} /\ IsPage(rows, k)
    BY <2>1 DEF HandsOK
  <2>3. CASE Agrees(census[k], page[w])
    <3>1. PICK r : r = [copy[w] EXCEPT !.after = k]
      OBVIOUS
    <3>2. census' = [census EXCEPT ![k] = page[w]] /\ SaveCopy(w, r)
      BY <1>2, <2>3, <3>1 DEF StagePage
    <3>3. Makes(w, r)
      BY <2>1, <3>2, SaveCopyMakes
    <3>4. /\ census'[k] = page[w] /\ \A j \in 1 .. NFibers : j # k => census'[j] = census[j]
      BY <2>1, <3>2 DEF HandTypes
    <3>5. PlanTypes'
      <4>1. \A j \in 1 .. NFibers : \A x \in census'[j] : IsPage(x, j)
        BY <2>2, <3>4 DEF PlanTypes
      <4>2. UNCHANGED <<live, cands, markers, parents, ranks, members>>
        BY <1>2, <3>3 DEF StagePage, Makes
      <4>3. QED BY <4>1, <4>2 DEF PlanTypes, RootTypes, IsPage
    <3>6. PagesStaged(r)'
      <4>1. SUFFICES ASSUME NEW j \in 1 .. NFibers, PageOf(j) # {}, j <= k PROVE census'[j] # {}
        BY <2>1, <3>1 DEF PagesStaged, Records
      <4>2. j = k \/ j <= copy[w].after
        BY <4>1
      <4>3. QED BY <2>1, <2>2, <3>4, <4>1, <4>2 DEF PagesStaged
    <3>7. HandsOK(w)'
      BY <3>3 DEF HandsOK, Makes
    <3>8. QED BY <2>2, <3>3, <3>4, <3>5, <3>6, <3>7, CensusFrame, MakesRecs
  <2>4. CASE ~Agrees(census[k], page[w])
    BY <1>2, <2>4, IdleQuiet, QuietCensus DEF StagePage, Goto, outside, hands, plan
  <2>5. QED BY <2>3, <2>4
<1>3. CASE CensusEnds(w)
  <2>1. PICK r : SaveCopy(w, r) /\ r.phase # "census"
    <3>1. PICK p \in {"done", "stage"} : SaveCopy(w, [copy[w] EXCEPT !.after = 0, !.phase = p])
      BY <1>3 DEF CensusEnds
    <3>2. [copy[w] EXCEPT !.after = 0, !.phase = p].phase = p
      BY DEF Records
    <3>3. QED BY <3>1, <3>2
  <2>2. Makes(w, r) /\ UNCHANGED plan
    BY <1>3, <2>1, SaveCopyMakes DEF CensusEnds, InPhase
  <2>3. PageOf(k) = {} /\ copy[w].phase = "census"
    BY <1>3 DEF CensusEnds, InPhase
  <2>4. PagesStaged(r)'
    <3>1. SUFFICES ASSUME NEW j \in 1 .. NFibers, PageOf(j) # {} PROVE census[j] # {}
      BY <2>2 DEF PagesStaged, plan
    <3>2. j < k
      BY <2>3, <3>1, PagesEnd
    <3>3. QED BY <2>3, <3>1, <3>2 DEF PagesStaged
  <2>5. PlanTypes'
    BY <2>2 DEF PlanTypes, RootTypes, Makes, plan, IsPage
  <2>6. HandsOK(w)'
    BY <2>2 DEF HandsOK, Makes
  <2>7. QED BY <2>2, <2>4, <2>5, <2>6, CensusFrame, MakesRecs DEF plan
<1>4. QED BY <1>1, <1>2, <1>3

LEMMA CensusStageSteps ==
    ASSUME PlanAssumption, CensusInv, Inv, NEW w \in Workers, HandTypes',
           StageFiber(w) \/ StageEnds(w)
    PROVE  CensusInv'
<1> DEFINE k == copy[w].after + 1
<1>. /\ HandTypes /\ PlanTypes /\ HandsOK(w) /\ PagesStaged(copy[w]) /\ copy[w] \in Records
     /\ pc \in [Workers -> Labels] /\ copy[w] \in Recs
  BY DEF CensusInv, Inv, TypesOK, Recs
<1>. k \in Nat \ {0} /\ copy[w].phase = "stage" /\ pc[w] = "next"
  BY DEF Records, StageFiber, StageEnds, InPhase
<1>1. CASE StageFiber(w)
  <2>1. PICK f \in PageOf(k) :
            /\ markers' = IF Covers[f] = {} THEN markers ELSE markers \cup {Covers[f]}
            /\ \/ cands' = cands
               \/ cands' = cands \cup {[fiber |-> f, sig |-> Staged(k)[f].edits]}
            /\ pc' = pc \/ Goto(w, "conflict")
    <3>1. PICK f \in PageOf(k) :
            LET row == [fiber |-> f, sig |-> Staged(k)[f].edits] IN
            /\ markers' = IF Covers[f] = {} THEN markers ELSE markers \cup {Covers[f]}
            /\ IF f \notin Sources
               THEN cands' = cands /\ Advance(w) /\ UNCHANGED pc
               ELSE IF \A c \in cands : c.fiber = f => c = row
               THEN cands' = cands \cup {row} /\ Advance(w) /\ UNCHANGED pc
               ELSE cands' = cands /\ Goto(w, "conflict") /\ UNCHANGED pos
      BY <1>1 DEF StageFiber
    <3>2. QED BY <3>1
  <2>2. k \in 1 .. NFibers /\ f \in Fibers
    BY <2>1, PageNumbers DEF PageOf
  <2>3. IsPage(Staged(k), k)
    BY <2>1, <2>2 DEF PagesStaged, Staged, PlanTypes
  <2>4. Staged(k)[f].edits \in Nat
    BY <2>1, <2>3 DEF IsPage
  <2>5. Covers[f] \subseteq Fibers
    BY <2>2 DEF PlanAssumption
  <2>6. UNCHANGED <<live, census, parents, ranks, members, rec, copy, goal, joining>> /\ Recs' = Recs
    BY <1>1 DEF StageFiber, outside, hands, Recs
  <2>7. PlanTypes'
    <3>1. cands' \subseteq [fiber : Fibers, sig : Nat] /\ markers' \subseteq SUBSET Fibers
      BY <2>1, <2>2, <2>4, <2>5 DEF PlanTypes
    <3>2. QED BY <2>6, <3>1 DEF PlanTypes, RootTypes, IsPage
  <2>8. HandsOK(w)'
    BY <2>1, <2>6 DEF HandsOK, Goto
  <2>9. QED BY <1>1, <2>6, <2>7, <2>8, CensusFrame, StepElsewhere DEF Step
<1>2. CASE StageEnds(w)
  <2>1. PICK r : SaveCopy(w, r)
    BY <1>2 DEF StageEnds
  <2>2. QED BY <1>2, <2>1, CensusMakes, SaveCopyMakes DEF StageEnds
<1>3. QED BY <1>1, <1>2

LEMMA CensusPairSteps ==
    ASSUME PlanAssumption, CensusInv, Inv, NEW w \in Workers, HandTypes',
           ReadPair(w) \/ WriteUnion(w) \/ PairsEnd(w)
    PROVE  CensusInv'
<1>. /\ HandTypes /\ PlanTypes /\ HandsOK(w) /\ copy[w] \in Records
     /\ pc \in [Workers -> Labels] /\ copy[w] \in Recs /\ RootTypes
  BY DEF CensusInv, Inv, TypesOK, Recs, PlanTypes
<1>. Elsewhere(w)
  BY StepElsewhere DEF Step
<1>1. CASE ReadPair(w)
  <2> DEFINE seq == copy[w].seq + pos[w]
  <2>1. PICK p \in Pairs(copy[w].after + 1) :
            \/ pc' = pc /\ joining' = joining
            \/ \E f \in {Joined(p[1], seq)}, g \in {Joined(p[2], seq)} :
                /\ joining' = [joining EXCEPT ![w] = IF f = g THEN NoRows ELSE Joining(f, g, seq)]
                /\ Goto(w, IF TooDeep(p[1], seq) \/ TooDeep(p[2], seq) THEN "conflict" ELSE "union")
    BY <1>1 DEF ReadPair
  <2>2. p[1] \in Fibers /\ p[2] \in Fibers
    BY <2>1 DEF Pairs, Posting, Inv, TypesOK
  <2>3. seq \in Nat
    BY DEF Inv, TypesOK, Records
  <2>4. \A f, g \in Fibers : Joining(f, g, seq) \in [parents : SUBSET ParentRows, ranks : SUBSET RankRows]
    <3> SUFFICES ASSUME NEW f \in Fibers, NEW g \in Fibers
                 PROVE  Joining(f, g, seq) \in [parents : SUBSET ParentRows, ranks : SUBSET RankRows]
      OBVIOUS
    <3>1. \A h \in Fibers : Rank(h, seq) + 1 \in Nat
      BY RankType
    <3>2. QED BY <2>3, <3>1 DEF Joining, ParentRows, RankRows
  <2>5. Joined(p[1], seq) \in Fibers /\ Joined(p[2], seq) \in Fibers
    BY <2>2, RootType DEF Joined
  <2>6. joining'[w] \in [parents : SUBSET ParentRows, ranks : SUBSET RankRows] /\ pc'[w] # "page"
    <3>1. pc[w] = "next"
      BY <1>1 DEF ReadPair, InPhase
    <3>2. joining' = joining => joining'[w] = joining[w]
      OBVIOUS
    <3>3. QED BY <2>1, <2>4, <2>5, <3>1, <3>2 DEF HandsOK, HandTypes, NoRows, Goto
  <2>7. UNCHANGED <<live, plan, rec, copy, goal>> /\ Recs' = Recs
    BY <1>1 DEF ReadPair, outside, Recs
  <2>8. PlanTypes'
    BY <2>7 DEF PlanTypes, RootTypes, plan, IsPage
  <2>9. HandsOK(w)'
    BY <2>6 DEF HandsOK
  <2>10. QED BY <2>7, <2>8, <2>9, CensusFrame DEF plan
<1>2. CASE WriteUnion(w)
  <2>1. /\ parents' \in {parents, parents \cup joining[w].parents}
        /\ ranks' \in {ranks, ranks \cup joining[w].ranks}
        /\ UNCHANGED <<live, census, cands, markers, members, rec, copy, goal, joining>> /\ Recs' = Recs
        /\ pc'[w] # "page"
    BY <1>2 DEF WriteUnion, outside, hands, Recs, Goto
  <2>2. PlanTypes'
    BY <2>1 DEF PlanTypes, RootTypes, HandsOK, IsPage
  <2>3. HandsOK(w)'
    BY <2>1 DEF HandsOK
  <2>4. QED BY <2>1, <2>2, <2>3, CensusFrame
<1>3. CASE PairsEnd(w)
  <2>1. PICK r : SaveCopy(w, r)
    BY <1>3 DEF PairsEnd
  <2>2. QED BY <1>3, <2>1, CensusMakes, SaveCopyMakes DEF PairsEnd, InPhase
<1>4. QED BY <1>1, <1>2, <1>3

LEMMA CensusMemberSteps ==
    ASSUME PlanAssumption, CensusInv, Inv, NEW w \in Workers, HandTypes',
           AddMember(w) \/ MembersEnd(w)
    PROVE  CensusInv'
<1>. /\ HandTypes /\ PlanTypes /\ HandsOK(w) /\ copy[w] \in Records
     /\ pc \in [Workers -> Labels] /\ copy[w] \in Recs /\ RootTypes
  BY DEF CensusInv, Inv, TypesOK, Recs, PlanTypes
<1>1. CASE AddMember(w)
  <2>1. PICK f \in Candidates :
            /\ members' = members \/ members' = members \cup {[root |-> Root(f, copy[w].seq), fiber |-> f]}
            /\ pc' = pc \/ Goto(w, "conflict")
    BY <1>1 DEF AddMember, Beyond
  <2>2. f \in Fibers /\ Root(f, copy[w].seq) \in Fibers
    BY <2>1, RootType DEF Inv, TypesOK
  <2>3. /\ UNCHANGED <<live, census, cands, markers, parents, ranks, rec, copy, goal, joining>>
        /\ Recs' = Recs /\ pc[w] = "next"
    BY <1>1 DEF AddMember, outside, hands, Recs, InPhase
  <2>4. PlanTypes'
    <3>1. members' \subseteq [root : Fibers, fiber : Fibers]
      BY <2>1, <2>2 DEF PlanTypes
    <3>2. QED BY <2>3, <3>1 DEF PlanTypes, RootTypes, IsPage
  <2>5. HandsOK(w)'
    BY <2>1, <2>3 DEF HandsOK, Goto
  <2>6. QED BY <1>1, <2>3, <2>4, <2>5, CensusFrame, StepElsewhere DEF Step
<1>2. CASE MembersEnd(w)
  <2>1. PICK r : SaveCopy(w, r)
    BY <1>2 DEF MembersEnd
  <2>2. QED BY <1>2, <2>1, CensusMakes, SaveCopyMakes DEF MembersEnd, InPhase
<1>3. QED BY <1>1, <1>2

\* The steps of the units, of the lease and of the users keep whatever the plan
\* and the hands say.
LEMMA OtherSteps ==
    ASSUME PlanAssumption, Inv, HandTypes, [Next]_vars
    PROVE  \/ \E w \in Workers :
                \/ ReadPage(w) \/ StagePage(w) \/ CensusEnds(w) \/ StageFiber(w) \/ StageEnds(w)
                \/ ReadPair(w) \/ WriteUnion(w) \/ PairsEnd(w) \/ AddMember(w) \/ MembersEnd(w)
           \/ \E w \in Workers :
                \/ Quiet(w)
                \/ \E r : Makes(w, r) /\ UNCHANGED plan /\ UnitsGoOn(copy[w], r)
           \/ /\ UNCHANGED <<owner, rec, plan, brain, worker>>
              /\ live' = live \/ \E f \in Fibers : \E n \in Nat :
                    \/ live' = [live EXCEPT ![f].edits = @ + 1]
                    \/ live' = [live EXCEPT ![f].recalls = @ + 1]
<1>1. ASSUME NEW w \in Workers, Open(w) \/ Checkpoint(w) \/ Stop(w) \/ AddFails(w) PROVE Quiet(w)
  BY <1>1, OpenQuiet, CheckpointQuiet, UnitQuiet
<1>2. ASSUME NEW f \in Touched, Change(f)
      PROVE  /\ UNCHANGED <<owner, rec, plan, brain, worker>> /\ f \in Fibers
             /\ \/ live' = [live EXCEPT ![f].edits = @ + 1]
                \/ live' = [live EXCEPT ![f].recalls = @ + 1]
  BY <1>2 DEF Change, PlanAssumption
<1>3. CASE Finished \/ UNCHANGED vars
  BY <1>3 DEF Finished, vars, outside
<1>4. ASSUME NEW w \in Workers, Replay(w) \/ Look(w) \/ Add(w) \/ Return(w) PROVE Quiet(w)
  BY <1>4, UnitQuiet
<1>5. QED BY <1>1, <1>2, <1>3, <1>4, UnitMakes DEF Next, Step

LEMMA CensusNext ==
    ASSUME PlanAssumption, CensusInv, Inv, [Next]_vars
    PROVE  CensusInv'
<1>. HandTypes /\ HandTypes'
  BY HandTypesNext DEF CensusInv
<1>1. ASSUME NEW w \in Workers, NEW r, Makes(w, r), UNCHANGED plan, UnitsGoOn(copy[w], r)
      PROVE CensusInv'
  BY <1>1, CensusMakes DEF UnitsGoOn, Recs
<1>2. CASE /\ UNCHANGED <<owner, rec, plan, brain, worker>>
           /\ live' = live \/ \E f \in Fibers :
                 \/ live' = [live EXCEPT ![f].edits = @ + 1]
                 \/ live' = [live EXCEPT ![f].recalls = @ + 1]
  <2>1. live' \in [Fibers -> [edits : Nat, recalls : Nat]]
    BY <1>2 DEF CensusInv, PlanTypes
  <2>2. /\ UNCHANGED <<rec, census, cands, markers, parents, ranks, members, pc, copy, page, joining, goal>>
        /\ Recs' = Recs
    BY <1>2 DEF plan, worker, hands, Recs
  <2>3. QED BY <2>1, <2>2 DEF CensusInv, PlanTypes, RootTypes, PagesStaged, HandsOK, IsPage
<1>3. QED BY <1>1, <1>2, OtherSteps, QuietCensus, CensusCensusSteps, CensusStageSteps,
             CensusPairSteps, CensusMemberSteps

LEMMA CensusInit ==
    ASSUME PlanAssumption, Init
    PROVE  CensusInv
<1>1. HandTypes /\ PlanTypes
  BY DEF Init, HandTypes, PlanTypes, RootTypes, UnitsPhase, Busy, IsPage
<1>2. Recs = {rec} \/ Workers = {}
  BY DEF Init, Recs
<1>3. \A r \in Recs : PagesStaged(r)
  BY DEF Init, Recs, PagesStaged
<1>4. \A w \in Workers : HandsOK(w)
  BY DEF Init, HandsOK, NoRows
<1>5. QED BY <1>1, <1>3, <1>4 DEF CensusInv

\* The run record, the plan and what each worker holds have their types, for
\* every census and any number of workers: the paths that find walks stay among
\* the fibers, and a page that is staged from is there.
THEOREM TypeCorrect == Spec => []TypeOK
<1>1. Init => Inv /\ CensusInv
  BY PlanAssumption, InitInv, CensusInit
<1>2. Inv /\ CensusInv /\ [Next]_vars => (Inv /\ CensusInv)'
  BY PlanAssumption, NextInv, CensusNext
<1>3. Inv /\ CensusInv => TypeOK
  <2> SUFFICES ASSUME Inv, CensusInv PROVE TypeOK
    OBVIOUS
  <2>1. brain \subseteq [root : Fibers, id : SnapshotIds, part : 1 .. NParts]
    <3>1. SUFFICES ASSUME NEW b \in brain
                   PROVE  b \in [root : Fibers, id : SnapshotIds, part : 1 .. NParts]
      OBVIOUS
    <3>2. PICK s \in Snapshots, n \in 1 .. NParts : b = Written(s, n)
      BY DEF Inv, Good, Covered, PartOf
    <3>3. QED BY <3>2 DEF Written, Snapshots
  <2>2. ASSUME NEW w \in Workers
        PROVE  /\ goal[w] \in Records
               /\ pc[w] = "page" => \A rows \in page[w] : IsPage(rows, copy[w].after + 1)
               /\ joining[w] \in [parents : SUBSET ParentRows, ranks : SUBSET RankRows]
               /\ pc[w] \in {"apply", "add"} => Cardinality(snap[w]) = 1 /\ pos[w] <= NParts
    <3>1. pc[w] \in {"apply", "add"} => Cardinality(snap[w]) = 1 /\ pos[w] <= NParts
      <4>1. \A s : Cardinality({s}) = 1
        BY FS_Singleton
      <4>2. QED BY <4>1 DEF Inv, WorkerOK, Applying
    <3>2. QED BY <3>1 DEF Inv, TypesOK, CensusInv, HandsOK
  <2>3. QED BY <2>1, <2>2 DEF TypeOK, Inv, TypesOK, CensusInv, PlanTypes, RootTypes, Labels
<1>4. QED BY <1>1, <1>2, <1>3, PTL DEF Spec

-----------------------------------------------------------------------------
(* The candidates *)

\* Rows of the plan are never taken back.
Grows ==
    /\ \A k \in 1 .. NFibers : census[k] # {} => census'[k] = census[k]
    /\ cands \subseteq cands' /\ markers \subseteq markers'
    /\ parents \subseteq parents' /\ ranks \subseteq ranks' /\ members \subseteq members'

FiberStaged(f) ==
    /\ f \in Sources => f \in Candidates
    /\ Covers[f] # {} => Covers[f] \in markers

Enough == Cardinality(Sources) >= MinSize

\* a candidate is a source, with the signature it has in its page
CandsOK ==
    \A c \in cands :
        /\ c.fiber \in Sources
        /\ \E k \in 1 .. NFibers :
            c.fiber \in PageOf(k) /\ census[k] # {} /\ c.sig = Staged(k)[c.fiber].edits

MarkersOK == \A m \in markers : \E f \in Fibers : m = Covers[f] /\ m # {}

AfterStage(r) == r.phase \in {"pairs", "members", "units"} \/ (r.phase = "done" /\ Enough)

StageRec(r) ==
    /\ r.phase = "stage" => \A k \in 1 .. NFibers : k <= r.after => \A f \in PageOf(k) : FiberStaged(f)
    /\ AfterStage(r) => \A f \in Fibers : FiberStaged(f)
    /\ r.phase \in {"stage", "pairs", "members", "units"} => Enough

StageHand(w) ==
    /\ pc[w] = "union" => copy[w].phase = "pairs"
    /\ pc[w] = "next" /\ copy[w].phase = "stage" =>
        LET fibers == PageOf(copy[w].after + 1) IN
        \A f \in fibers : Cardinality(Before(fibers, f)) < pos[w] => FiberStaged(f)

StageInv ==
    /\ CandsOK /\ MarkersOK
    /\ \A r \in Recs : StageRec(r)
    /\ \A w \in Workers : StageHand(w)

LEMMA SourcesFinite ==
    ASSUME PlanAssumption
    PROVE  IsFiniteSet(Sources) /\ Cardinality(Sources) \in Nat /\ Sources \subseteq Fibers
<1>1. IsFiniteSet(Fibers)
  BY FS_Interval DEF Fibers, PlanAssumption
<1>2. Sources \subseteq Fibers
  BY DEF Sources
<1>3. IsFiniteSet(Sources)
  BY <1>1, <1>2, FS_Subset
<1>4. QED BY <1>2, <1>3, FS_CardinalityType

LEMMA GrowsNext ==
    ASSUME PlanAssumption, CensusInv, Inv, [Next]_vars
    PROVE  Grows
<1>1. CASE UNCHANGED plan
  BY <1>1 DEF plan, Grows
<1>2. ASSUME NEW w \in Workers, StagePage(w) PROVE Grows
  <2> DEFINE k == copy[w].after + 1
  <2>1. /\ UNCHANGED <<cands, markers, parents, ranks, members>>
        /\ \/ census' = census
           \/ Agrees(census[k], page[w]) /\ census' = [census EXCEPT ![k] = page[w]]
    BY <1>2 DEF StagePage
  <2>2. DOMAIN census = 1 .. NFibers
    BY DEF CensusInv, HandTypes
  <2>3. QED BY <2>1, <2>2 DEF Grows, Agrees
<1>3. ASSUME NEW w \in Workers,
             \/ ReadPage(w) \/ CensusEnds(w) \/ StageFiber(w) \/ StageEnds(w)
             \/ ReadPair(w) \/ WriteUnion(w) \/ PairsEnd(w) \/ AddMember(w) \/ MembersEnd(w)
      PROVE  Grows
  <2>1. CASE ReadPage(w) \/ CensusEnds(w) \/ StageEnds(w) \/ ReadPair(w) \/ PairsEnd(w) \/ MembersEnd(w)
    BY <1>1, <2>1 DEF ReadPage, CensusEnds, StageEnds, ReadPair, PairsEnd, MembersEnd
  <2>2. CASE StageFiber(w)
    BY <2>2 DEF StageFiber, Grows
  <2>3. CASE WriteUnion(w)
    BY <2>3 DEF WriteUnion, Grows
  <2>4. CASE AddMember(w)
    BY <2>4 DEF AddMember, Grows
  <2>5. QED BY <1>3, <2>1, <2>2, <2>3, <2>4
<1>4. HandTypes
  BY DEF CensusInv
<1>5. \A w \in Workers : Quiet(w) => UNCHANGED plan
  BY DEF Quiet
<1>6. QED BY <1>1, <1>2, <1>3, <1>4, <1>5, OtherSteps

LEMMA StagedStays ==
    ASSUME Grows, NEW f, FiberStaged(f)
    PROVE  FiberStaged(f)'
BY DEF Grows, FiberStaged, Candidates

LEMMA StageRecStays ==
    ASSUME Grows, NEW r, StageRec(r)
    PROVE  StageRec(r)'
BY StagedStays DEF StageRec, AfterStage

\* A record that comes behind one of the later phases.
LEMMA StageRecAfter ==
    ASSUME Grows, NEW q, NEW r, StageRec(q), q.phase \in {"pairs", "members", "units"},
           r.phase \in {"pairs", "members", "units", "done"}
    PROVE  StageRec(r)'
<1>1. StageRec(r)
  BY DEF StageRec, AfterStage
<1>2. QED BY <1>1, StageRecStays

LEMMA CandsStay ==
    ASSUME Grows, CandsOK, UNCHANGED cands
    PROVE  CandsOK'
<1>1. ASSUME NEW k \in 1 .. NFibers, census[k] # {} PROVE census'[k] # {} /\ Staged(k)' = Staged(k)
  BY <1>1 DEF Grows, Staged
<1>2. QED BY <1>1 DEF CandsOK

LEMMA StageFrame ==
    ASSUME StageInv, Grows, NEW w \in Workers, Elsewhere(w), CandsOK', MarkersOK',
           \A r \in Recs' \ Recs : StageRec(r)', StageHand(w)'
    PROVE  StageInv'
<1>1. \A r \in Recs : StageRec(r)'
  BY StageRecStays DEF StageInv
<1>2. ASSUME NEW v \in Workers, v # w PROVE StageHand(v)'
  <2>1. StageHand(v) /\ pc'[v] = pc[v] /\ copy'[v] = copy[v] /\ pos'[v] = pos[v]
    BY <1>2 DEF StageInv, Elsewhere
  <2>2. QED BY <2>1, StagedStays DEF StageHand
<1>3. QED BY <1>1, <1>2 DEF StageInv

\* A step that makes a record, and leaves the candidates alone.
LEMMA StageMakes ==
    ASSUME StageInv, Grows, NEW w \in Workers, NEW r, Makes(w, r), UNCHANGED <<cands, markers>>,
           StageRec(r)', Inv
    PROVE  StageInv'
<1>1. StageHand(w)'
  BY DEF StageHand, Makes
<1>2. CandsOK' /\ MarkersOK'
  BY CandsStay DEF StageInv, MarkersOK
<1>3. QED BY <1>1, <1>2, StageFrame, MakesRecs DEF Makes

LEMMA QuietStage ==
    ASSUME PlanAssumption, StageInv, Grows, NEW w \in Workers, Quiet(w)
    PROVE  StageInv'
<1>1. StageHand(w)'
  <2>1. \A k : \A f \in PageOf(k) : ~(Cardinality(Before(PageOf(k), f)) < 0)
    BY PageFinite, PositionBelow
  <2>2. QED BY <2>1 DEF Quiet, StageHand
<1>2. CandsOK' /\ MarkersOK'
  BY CandsStay DEF StageInv, MarkersOK, Quiet, plan
<1>3. QED BY <1>1, <1>2, StageFrame DEF Quiet

LEMMA StageCensusSteps ==
    ASSUME PlanAssumption, StageInv, CensusInv, Inv, Grows, NEW w \in Workers,
           ReadPage(w) \/ StagePage(w) \/ CensusEnds(w)
    PROVE  StageInv'
<1>. HandTypes /\ copy[w] \in Records /\ pc \in [Workers -> Labels]
  BY DEF CensusInv, Inv, TypesOK
<1>1. CASE ReadPage(w)
  <2>1. /\ UNCHANGED <<plan, copy, rec, goal>> /\ Recs' = Recs /\ pc' = [pc EXCEPT ![w] = "page"]
    BY <1>1 DEF ReadPage, outside, Recs, Goto
  <2>2. StageHand(w)'
    BY <2>1 DEF StageHand
  <2>3. CandsOK' /\ MarkersOK'
    BY <2>1, CandsStay DEF StageInv, MarkersOK, plan
  <2>4. QED BY <1>1, <2>1, <2>2, <2>3, StageFrame, StepElsewhere DEF Step
<1>2. CASE StagePage(w)
  <2>1. pc[w] = "page" /\ copy[w].phase = "census" /\ UNCHANGED <<cands, markers>>
    BY <1>2 DEF StagePage, Inv, WorkerOK
  <2>2. ASSUME NEW r, r = [copy[w] EXCEPT !.after = @ + 1], SaveCopy(w, r) PROVE StageInv'
    <3>1. r.phase = "census"
      BY <2>1, <2>2 DEF Records
    <3>2. StageRec(r)'
      BY <3>1 DEF StageRec, AfterStage
    <3>3. QED BY <2>1, <2>2, <3>2, StageMakes, SaveCopyMakes
  <2>3. CASE ~Agrees(census[copy[w].after + 1], page[w])
    BY <1>2, <2>3, IdleQuiet, QuietStage DEF StagePage, Goto, outside, hands, plan
  <2>4. [copy[w] EXCEPT !.after = copy[w].after + 1] = [copy[w] EXCEPT !.after = @ + 1]
    OBVIOUS
  <2>5. QED BY <1>2, <2>2, <2>3, <2>4 DEF StagePage
<1>3. CASE CensusEnds(w)
  <2>1. PICK r : /\ SaveCopy(w, r) /\ r.after = 0 /\ r.phase \in {"done", "stage"}
                 /\ r.phase = "done" <=> Cardinality(Sources) < MinSize
    <3>1. SaveCopy(w, [copy[w] EXCEPT !.after = 0,
                       !.phase = IF Cardinality(Sources) < MinSize THEN "done" ELSE "stage"])
      BY <1>3 DEF CensusEnds
    <3>2. PICK p \in {"done", "stage"} : p = IF Cardinality(Sources) < MinSize THEN "done" ELSE "stage"
      OBVIOUS
    <3>3. PICK r : r = [copy[w] EXCEPT !.after = 0, !.phase = p]
      OBVIOUS
    <3>4. r.after = 0 /\ r.phase = p
      BY <3>3 DEF Records
    <3>5. SaveCopy(w, r)
      BY <3>1, <3>2, <3>3
    <3>6. QED BY <3>2, <3>4, <3>5
  <2>2. Makes(w, r) /\ UNCHANGED plan
    BY <1>3, <2>1, SaveCopyMakes DEF CensusEnds, InPhase
  <2>3. r.phase = "stage" <=> Enough
    BY <2>1, SourcesFinite DEF Enough, PlanAssumption
  <2>4. StageRec(r)'
    BY <2>1, <2>3 DEF StageRec, AfterStage
  <2>5. QED BY <2>2, <2>4, StageMakes DEF plan
<1>4. QED BY <1>1, <1>2, <1>3

LEMMA StageFiberStep ==
    ASSUME PlanAssumption, StageInv, CensusInv, Inv, Grows, NEW w \in Workers, StageFiber(w)
    PROVE  StageInv'
<1> DEFINE k == copy[w].after + 1
<1>. /\ HandTypes /\ copy[w] \in Records /\ pc \in [Workers -> Labels] /\ pos \in [Workers -> Nat]
     /\ PagesStaged(copy[w]) /\ StageHand(w) /\ copy[w] \in Recs
  BY DEF CensusInv, Inv, TypesOK, StageInv, Recs
<1>1. /\ UNCHANGED <<census, rec, copy, goal>> /\ Recs' = Recs
      /\ pc[w] = "next" /\ copy[w].phase = "stage" /\ k \in Nat \ {0}
  BY DEF StageFiber, outside, hands, Recs, InPhase, Records
<1>2. PICK f \in PageOf(k) :
        LET row == [fiber |-> f, sig |-> Staged(k)[f].edits] IN
        /\ Cardinality(Before(PageOf(k), f)) = pos[w]
        /\ markers' = IF Covers[f] = {} THEN markers ELSE markers \cup {Covers[f]}
        /\ IF f \notin Sources
           THEN cands' = cands /\ Advance(w) /\ UNCHANGED pc
           ELSE IF \A c \in cands : c.fiber = f => c = row
           THEN cands' = cands \cup {row} /\ Advance(w) /\ UNCHANGED pc
           ELSE cands' = cands /\ Goto(w, "conflict") /\ UNCHANGED pos
  BY DEF StageFiber
<1>3. k \in 1 .. NFibers /\ f \in Fibers /\ census[k] # {}
  BY <1>1, <1>2, PageNumbers DEF PageOf, PagesStaged
<1>4. MarkersOK'
  BY <1>2, <1>3 DEF StageInv, MarkersOK
<1>5. CandsOK'
  <2>1. CASE cands' = cands
    BY <2>1, CandsStay DEF StageInv
  <2>2. CASE f \in Sources /\ cands' = cands \cup {[fiber |-> f, sig |-> Staged(k)[f].edits]}
    <3>1. Staged(k)' = Staged(k) /\ \A j : Staged(j)' = Staged(j)
      BY <1>1 DEF Staged
    <3>2. QED BY <1>1, <1>2, <1>3, <2>2, <3>1 DEF StageInv, CandsOK
  <2>3. QED BY <1>2, <2>1, <2>2
<1>6. StageHand(w)'
  <2>1. CASE Goto(w, "conflict")
    BY <2>1 DEF StageHand, Goto
  <2>2. CASE UNCHANGED pc /\ Advance(w)
    <3>1. FiberStaged(f)'
      <4>1. Covers[f] # {} => Covers[f] \in markers'
        BY <1>2
      <4>2. f \in Sources => \E c \in cands' : c.fiber = f
        <5>1. [fiber |-> f, sig |-> Staged(k)[f].edits].fiber = f
          OBVIOUS
        <5>2. QED BY <1>2, <5>1
      <4>3. QED BY <4>1, <4>2 DEF FiberStaged, Candidates
    <3>2. pos'[w] = pos[w] + 1 /\ pos[w] \in Nat
      BY <2>2 DEF Advance
    <3>3. ASSUME NEW g \in PageOf(k), Cardinality(Before(PageOf(k), g)) < pos[w] + 1
          PROVE  FiberStaged(g)'
      <4>1. Cardinality(Before(PageOf(k), g)) \in Nat
        BY PageFinite, PositionBelow
      <4>2. CASE Cardinality(Before(PageOf(k), g)) = pos[w]
        BY <1>2, <3>1, <4>2, PageFinite, PositionTells
      <4>3. CASE Cardinality(Before(PageOf(k), g)) < pos[w]
        BY <1>1, <4>3, StagedStays DEF StageHand
      <4>4. QED BY <3>2, <3>3, <4>1, <4>2, <4>3
    <3>4. QED BY <1>1, <2>2, <3>2, <3>3 DEF StageHand
  <2>3. QED BY <1>2, <2>1, <2>2
<1>7. QED BY <1>1, <1>4, <1>5, <1>6, StageFrame, StepElsewhere DEF Step

LEMMA StageEndsStep ==
    ASSUME PlanAssumption, StageInv, CensusInv, Inv, Grows, NEW w \in Workers, StageEnds(w)
    PROVE  StageInv'
<1> DEFINE k == copy[w].after + 1
<1>. /\ HandTypes /\ copy[w] \in Records /\ pc \in [Workers -> Labels]
     /\ StageRec(copy[w]) /\ StageHand(w) /\ copy[w] \in Recs
  BY DEF CensusInv, Inv, TypesOK, StageInv, Recs
<1>1. /\ UNCHANGED plan /\ pc[w] = "next" /\ copy[w].phase = "stage" /\ k \in Nat \ {0}
      /\ copy[w].after \in Nat /\ pos[w] = Cardinality(PageOf(k))
  BY DEF StageEnds, InPhase, Records
<1>2. \A f \in PageOf(k) : FiberStaged(f)
  <2>1. \A f \in PageOf(k) : Cardinality(Before(PageOf(k), f)) < pos[w]
    BY <1>1, PageFinite, PositionBelow
  <2>2. QED BY <1>1, <2>1 DEF StageHand
<1>3. PICK r : /\ SaveCopy(w, r)
               /\ \/ PageOf(k) # {} /\ r = [copy[w] EXCEPT !.after = @ + 1]
                  \/ PageOf(k) = {} /\ r = [copy[w] EXCEPT !.phase = "pairs", !.after = 0]
  BY DEF StageEnds
<1>4. StageRec(r)
  <2>1. CASE PageOf(k) # {} /\ r = [copy[w] EXCEPT !.after = @ + 1]
    <3>1. r.phase = "stage" /\ r.after = k
      BY <1>1, <2>1 DEF Records
    <3>2. ASSUME NEW j \in 1 .. NFibers, j <= k, NEW f \in PageOf(j) PROVE FiberStaged(f)
      <4>1. j = k \/ j <= copy[w].after
        BY <1>1, <3>2
      <4>2. QED BY <1>1, <1>2, <3>2, <4>1 DEF StageRec
    <3>3. QED BY <1>1, <3>1, <3>2 DEF StageRec, AfterStage
  <2>2. CASE PageOf(k) = {} /\ r = [copy[w] EXCEPT !.phase = "pairs", !.after = 0]
    <3>1. r.phase = "pairs"
      BY <2>2 DEF Records
    <3>2. ASSUME NEW f \in Fibers PROVE FiberStaged(f)
      <4>1. PICK j \in 1 .. NFibers : f \in PageOf(j)
        BY PageExists
      <4>2. ~(j >= k)
        BY <1>1, <2>2, <4>1, PagesEnd
      <4>3. j <= copy[w].after
        BY <1>1, <4>2
      <4>4. QED BY <1>1, <4>1, <4>3 DEF StageRec
    <3>3. QED BY <1>1, <3>1, <3>2 DEF StageRec
  <2>3. QED BY <1>3, <2>1, <2>2
<1>5. QED BY <1>1, <1>3, <1>4, StageRecStays, StageMakes, SaveCopyMakes DEF plan

LEMMA StageLaterSteps ==
    ASSUME PlanAssumption, StageInv, CensusInv, Inv, Grows, NEW w \in Workers,
           ReadPair(w) \/ WriteUnion(w) \/ PairsEnd(w) \/ AddMember(w) \/ MembersEnd(w)
    PROVE  StageInv'
<1>. /\ HandTypes /\ copy[w] \in Records /\ pc \in [Workers -> Labels]
     /\ StageRec(copy[w]) /\ StageHand(w) /\ copy[w] \in Recs
  BY DEF CensusInv, Inv, TypesOK, StageInv, Recs
<1>1. copy[w].phase \in {"pairs", "members"}
  BY DEF ReadPair, WriteUnion, PairsEnd, AddMember, MembersEnd, InPhase, StageHand
<1>2. CASE ReadPair(w) \/ WriteUnion(w) \/ AddMember(w)
  <2>1. UNCHANGED <<census, cands, markers, rec, copy, goal>> /\ Recs' = Recs
    BY <1>2 DEF ReadPair, WriteUnion, AddMember, outside, hands, plan, Recs
  <2>2. pc'[w] = "union" => copy'[w].phase = "pairs"
    BY <1>2, <2>1 DEF ReadPair, WriteUnion, AddMember, Goto, InPhase
  <2>3. StageHand(w)'
    BY <1>1, <2>1, <2>2 DEF StageHand
  <2>4. CandsOK' /\ MarkersOK'
    BY <2>1, CandsStay DEF StageInv, MarkersOK
  <2>5. QED BY <1>2, <2>1, <2>3, <2>4, StageFrame, StepElsewhere DEF Step
<1>3. ASSUME NEW r, SaveCopy(w, r), r.phase \in {"pairs", "members", "units", "done"},
             pc[w] = "next", UNCHANGED plan
      PROVE  StageInv'
  <2>1. StageRec(r)'
    BY <1>1, <1>3, StageRecAfter
  <2>2. QED BY <1>3, <2>1, StageMakes, SaveCopyMakes DEF plan
<1>4. CASE PairsEnd(w)
  <2>1. PICK r : SaveCopy(w, r) /\ r.phase \in {"pairs", "members"}
    <3>1. \/ SaveCopy(w, [copy[w] EXCEPT !.phase = "members", !.after = 0])
          \/ \E n : SaveCopy(w, NextTag(copy[w], n))
      BY <1>4 DEF PairsEnd
    <3>2. /\ [copy[w] EXCEPT !.phase = "members", !.after = 0].phase = "members"
          /\ \A n : NextTag(copy[w], n).phase = copy[w].phase
      BY DEF Records, NextTag
    <3>3. QED BY <1>1, <3>1, <3>2
  <2>2. QED BY <1>3, <1>4, <2>1 DEF PairsEnd, InPhase
<1>5. CASE MembersEnd(w)
  <2>1. PICK r : SaveCopy(w, r) /\ r.phase \in {"pairs", "members", "units"}
    <3>1. \/ \E f : SaveCopy(w, [copy[w] EXCEPT !.after = f])
          \/ SaveCopy(w, [copy[w] EXCEPT !.phase = "units", !.after = 0])
      BY <1>5 DEF MembersEnd
    <3>2. /\ [copy[w] EXCEPT !.phase = "units", !.after = 0].phase = "units"
          /\ \A f : [copy[w] EXCEPT !.after = f].phase = copy[w].phase
      BY DEF Records
    <3>3. QED BY <1>1, <3>1, <3>2
  <2>2. QED BY <1>3, <1>5, <2>1 DEF MembersEnd, InPhase
<1>6. QED BY <1>2, <1>4, <1>5

LEMMA StageNext ==
    ASSUME PlanAssumption, StageInv, CensusInv, Inv, [Next]_vars
    PROVE  StageInv'
<1>. HandTypes /\ Grows
  BY GrowsNext DEF CensusInv
<1>1. ASSUME NEW w \in Workers, NEW r, Makes(w, r), UNCHANGED plan, UnitsGoOn(copy[w], r)
      PROVE StageInv'
  <2>1. StageRec(copy[w])
    BY DEF StageInv, Recs
  <2>2. StageRec(r)'
    BY <1>1, <2>1, StageRecAfter DEF UnitsGoOn
  <2>3. QED BY <1>1, <2>2, StageMakes DEF plan
<1>2. CASE UNCHANGED <<owner, rec, plan, brain, worker>>
  <2>1. UNCHANGED <<pc, copy, pos, goal, markers>> /\ Recs' = Recs /\ CandsOK'
    BY <1>2, CandsStay DEF worker, hands, plan, Recs, StageInv
  <2>2. \A v \in Workers : StageHand(v)'
    BY <2>1, StagedStays DEF StageInv, StageHand
  <2>3. QED BY <2>1, <2>2, StageRecStays DEF StageInv, MarkersOK
<1>3. QED BY <1>1, <1>2, OtherSteps, QuietStage, StageCensusSteps, StageFiberStep, StageEndsStep,
             StageLaterSteps

LEMMA StageInit ==
    ASSUME PlanAssumption, Init
    PROVE  StageInv
<1>1. CandsOK /\ MarkersOK
  BY DEF Init, CandsOK, MarkersOK
<1>2. \A r \in Recs : StageRec(r)
  BY DEF Init, Recs, StageRec, AfterStage
<1>3. \A w \in Workers : StageHand(w)
  BY DEF Init, StageHand
<1>4. QED BY <1>1, <1>2, <1>3 DEF StageInv

-----------------------------------------------------------------------------
(* The trees *)

AfterPairs(r) == r.phase \in {"members", "units"} \/ (r.phase = "done" /\ Enough)

\* How far a record has come in the order in which the pairs are read, of which
\* those before F are joined.
SeqRec(r, F) ==
    /\ r.phase \in {"census", "stage"} => r.seq = 0
    /\ r.phase = "pairs" => r.after \in 0 .. NTags /\ r.seq = First(r.after) /\ r.seq <= F
    /\ AfterPairs(r) => r.seq = Number /\ Number <= F

\* a pair and its rows, as a worker is about to write them
Holds(w, q) ==
    \E p \in Sources \X Sources : AtSimilar(p, q) /\ joining[w] = JoinAt(p, q) /\ Shallow(p, q)

PairHand(w, F) ==
    /\ pc[w] \in {"next", "union"} /\ copy[w].phase = "pairs" => copy[w].seq + pos[w] <= F
    /\ pc[w] = "union" => Holds(w, copy[w].seq + pos[w])

PairInv(F) ==
    /\ JoinedBefore(F)
    /\ \A r \in Recs : SeqRec(r, F)
    /\ \A w \in Workers : PairHand(w, F)

\* What the rows say of the positions up to F is what they said before.
RowsKept(F) ==
    \A q \in Nat : q <= F => Up(q)' = Up(q) /\ \A h : Rank(h, q)' = Rank(h, q)

LEMMA KeepsRows ==
    ASSUME RootTypes, RootTypes', NEW F \in Nat, parents \subseteq parents', ranks \subseteq ranks',
           \A r \in parents' \ parents : r.seq >= F, \A r \in ranks' \ ranks : r.seq >= F
    PROVE  RowsKept(F)
<1> SUFFICES ASSUME NEW q \in Nat, q <= F
             PROVE  Up(q)' = Up(q) /\ \A h : Rank(h, q)' = Rank(h, q)
  BY DEF RowsKept
<1>1. ASSUME NEW h PROVE {r \in parents' : r.child = h /\ r.seq < q} = {r \in parents : r.child = h /\ r.seq < q}
  <2>1. \A r \in parents' : r.seq \in Nat
    BY DEF RootTypes, ParentRows
  <2>2. QED BY <2>1
<1>2. ASSUME NEW h PROVE {r \in ranks' : r.of = h /\ r.seq < q} = {r \in ranks : r.of = h /\ r.seq < q}
  <2>1. \A r \in ranks' : r.seq \in Nat
    BY DEF RootTypes, RankRows
  <2>2. QED BY <2>1
<1> DEFINE Last(S, h) == IF Newest(S) = {} THEN h ELSE (CHOOSE r \in Newest(S) : TRUE).up
<1> DEFINE LastRank(S) == IF Newest(S) = {} THEN 0 ELSE (CHOOSE r \in Newest(S) : TRUE).rank
<1>3. /\ Up(q)' = [h \in Fibers |-> Last({r \in parents' : r.child = h /\ r.seq < q}, h)]
      /\ Up(q) = [h \in Fibers |-> Last({r \in parents : r.child = h /\ r.seq < q}, h)]
  BY DEF Up
<1>4. ASSUME NEW h
      PROVE  /\ Rank(h, q)' = LastRank({r \in ranks' : r.of = h /\ r.seq < q})
             /\ Rank(h, q) = LastRank({r \in ranks : r.of = h /\ r.seq < q})
  BY DEF Rank
<1> HIDE DEF Last, LastRank
<1>5. Up(q)' = Up(q)
  <2>1. ASSUME NEW h \in Fibers
        PROVE  Last({r \in parents' : r.child = h /\ r.seq < q}, h) = Last({r \in parents : r.child = h /\ r.seq < q}, h)
    BY <1>1
  <2>2. QED BY <1>3, <2>1
<1>6. ASSUME NEW h PROVE Rank(h, q)' = Rank(h, q)
  BY <1>2, <1>4
<1>7. QED BY <1>5, <1>6

LEMMA RootsKept ==
    ASSUME NEW F \in Nat, RowsKept(F), NEW q \in Nat, q <= F, NEW h
    PROVE  Root(h, q)' = Root(h, q) /\ (TooDeep(h, q)' <=> TooDeep(h, q))
<1>1. Up(q)' = Up(q)
  BY DEF RowsKept
<1> DEFINE Found(u) ==
        LET path[n \in 0 .. MaxDepth - 1] == IF n = 0 THEN h ELSE u[path[n - 1]]
        IN path[MaxDepth - 1]
<1>2. Root(h, q)' = Found(Up(q)') /\ Root(h, q) = Found(Up(q))
  BY DEF Root
<1> HIDE DEF Found
<1>3. Root(h, q)' = Root(h, q)
  BY <1>1, <1>2
<1>4. QED BY <1>1, <1>3 DEF TooDeep

LEMMA JoinAtKept ==
    ASSUME NEW F \in Nat, RowsKept(F), NEW q \in Nat, q <= F, NEW p
    PROVE  JoinAt(p, q)' = JoinAt(p, q) /\ (Shallow(p, q)' <=> Shallow(p, q))
<1>1. \A h : Root(h, q)' = Root(h, q) /\ (TooDeep(h, q)' <=> TooDeep(h, q)) /\ Rank(h, q)' = Rank(h, q)
  BY RootsKept DEF RowsKept
<1>2. \A f, g : GoesBelow(f, g, q)' <=> GoesBelow(f, g, q)
  BY <1>1 DEF GoesBelow
<1>3. ASSUME NEW f, NEW g PROVE Joining(f, g, q)' = Joining(f, g, q)
  <2>1. PICK child, root : /\ child = IF GoesBelow(f, g, q) THEN f ELSE g
                           /\ root = IF GoesBelow(f, g, q) THEN g ELSE f
    OBVIOUS
  <2>2. Rank(f, q)' = Rank(f, q) /\ Rank(g, q)' = Rank(g, q) /\ Rank(root, q)' = Rank(root, q)
    BY <1>1
  <2>3. QED BY <1>2, <2>1, <2>2 DEF Joining
<1>4. JoinAt(p, q)' = JoinAt(p, q)
  BY <1>1, <1>3 DEF JoinAt, NoRows
<1>5. QED BY <1>1, <1>4 DEF Shallow

LEMMA JoinAtRows ==
    ASSUME NEW p, NEW q
    PROVE  /\ \A r \in JoinAt(p, q).parents : r.seq = q
           /\ \A r \in JoinAt(p, q).ranks : r.seq = q
BY DEF JoinAt, Joining, NoRows

\* What was joined before F still is, whatever rows came in at F or behind it.
LEMMA JoinedStays ==
    ASSUME NEW F \in Nat, JoinedBefore(F), RowsKept(F), RootTypes,
           parents \subseteq parents', ranks \subseteq ranks'
    PROVE  /\ \A r \in parents : r.seq < F /\ \E p \in Sources \X Sources :
                AtSimilar(p, r.seq) /\ r \in JoinAt(p, r.seq)'.parents
           /\ \A r \in ranks : r.seq < F /\ \E p \in Sources \X Sources :
                AtSimilar(p, r.seq) /\ r \in JoinAt(p, r.seq)'.ranks
           /\ \A q \in 0 .. F - 1, p \in Sources \X Sources : AtSimilar(p, q) =>
                /\ JoinAt(p, q)'.parents \subseteq parents' /\ JoinAt(p, q)'.ranks \subseteq ranks'
                /\ Shallow(p, q)'
<1>1. ASSUME NEW q \in Nat, q < F, NEW p
      PROVE  JoinAt(p, q)' = JoinAt(p, q) /\ (Shallow(p, q)' <=> Shallow(p, q))
  BY <1>1, JoinAtKept
<1>2. (\A r \in parents : r.seq \in Nat) /\ (\A r \in ranks : r.seq \in Nat)
  BY DEF RootTypes, ParentRows, RankRows
<1>3. ASSUME NEW r \in parents
      PROVE  r.seq < F /\ \E p \in Sources \X Sources : AtSimilar(p, r.seq) /\ r \in JoinAt(p, r.seq)'.parents
  <2>1. PICK p \in Sources \X Sources : r.seq < F /\ AtSimilar(p, r.seq) /\ r \in JoinAt(p, r.seq).parents
    BY DEF JoinedBefore
  <2>2. QED BY <1>1, <1>2, <2>1
<1>4. ASSUME NEW r \in ranks
      PROVE  r.seq < F /\ \E p \in Sources \X Sources : AtSimilar(p, r.seq) /\ r \in JoinAt(p, r.seq)'.ranks
  <2>1. PICK p \in Sources \X Sources : r.seq < F /\ AtSimilar(p, r.seq) /\ r \in JoinAt(p, r.seq).ranks
    BY DEF JoinedBefore
  <2>2. QED BY <1>1, <1>2, <2>1
<1>5. ASSUME NEW q \in 0 .. F - 1, NEW p \in Sources \X Sources, AtSimilar(p, q)
      PROVE  /\ JoinAt(p, q)'.parents \subseteq parents' /\ JoinAt(p, q)'.ranks \subseteq ranks'
             /\ Shallow(p, q)'
  <2>1. q \in Nat /\ q < F
    OBVIOUS
  <2>2. JoinAt(p, q).parents \subseteq parents /\ JoinAt(p, q).ranks \subseteq ranks /\ Shallow(p, q)
    BY <1>5 DEF JoinedBefore
  <2>3. QED BY <1>1, <2>1, <2>2
<1>6. QED BY <1>3, <1>4, <1>5

LEMMA SeqRecLater ==
    ASSUME NEW F \in Nat, NEW G \in Nat, F <= G, NEW r, PlanAssumption, SeqRec(r, F)
    PROVE  SeqRec(r, G)
<1>1. Number \in Nat /\ First(r.after) \in Nat
  BY FirstType DEF Number
<1>2. QED BY <1>1 DEF SeqRec

\* A worker keeps what it holds, if rows come in at F or behind it only.
LEMMA HoldsStays ==
    ASSUME NEW F \in Nat, RowsKept(F), NEW v \in Workers, NEW q \in Nat, q <= F, Holds(v, q),
           joining'[v] = joining[v]
    PROVE  Holds(v, q)'
<1>1. PICK p \in Sources \X Sources : AtSimilar(p, q) /\ joining[v] = JoinAt(p, q) /\ Shallow(p, q)
  BY DEF Holds
<1>2. JoinAt(p, q)' = JoinAt(p, q) /\ (Shallow(p, q)' <=> Shallow(p, q))
  BY JoinAtKept
<1>3. QED BY <1>1, <1>2 DEF Holds

LEMMA PairHandStays ==
    ASSUME NEW F \in Nat, NEW G \in Nat, F <= G, RowsKept(F), NEW v \in Workers, PairHand(v, F),
           copy[v] \in Records, pos[v] \in Nat, pc[v] = "union" => copy[v].phase = "pairs",
           pc'[v] = pc[v], copy'[v] = copy[v], pos'[v] = pos[v], joining'[v] = joining[v]
    PROVE  PairHand(v, G)'
<1>1. PICK q \in Nat : q = copy[v].seq + pos[v]
  BY DEF Records
<1>2. copy'[v].seq + pos'[v] = q
  BY <1>1
<1>3. pc[v] \in {"next", "union"} /\ copy[v].phase = "pairs" => q <= F
  BY <1>1 DEF PairHand
<1>4. ASSUME pc[v] = "union" PROVE Holds(v, q)'
  BY <1>1, <1>3, <1>4, HoldsStays DEF PairHand
<1>5. QED BY <1>2, <1>3, <1>4 DEF PairHand

LEMMA PairFrame ==
    ASSUME PlanAssumption, NEW F \in Nat, PairInv(F), NEW G \in Nat, F <= G, RowsKept(F),
           Inv, StageInv, NEW w \in Workers, Elsewhere(w), JoinedBefore(G)',
           \A r \in Recs' \ Recs : SeqRec(r, G), PairHand(w, G)'
    PROVE  PairInv(G)'
<1>1. \A r \in Recs : SeqRec(r, G)
  BY SeqRecLater DEF PairInv
<1>2. ASSUME NEW v \in Workers, v # w PROVE PairHand(v, G)'
  <2>1. /\ PairHand(v, F) /\ copy[v] \in Records /\ pos[v] \in Nat
        /\ pc[v] = "union" => copy[v].phase = "pairs"
    BY DEF PairInv, Inv, TypesOK, StageInv, StageHand
  <2>2. pc'[v] = pc[v] /\ copy'[v] = copy[v] /\ pos'[v] = pos[v] /\ joining'[v] = joining[v]
    BY <1>2 DEF Elsewhere
  <2>3. QED BY <2>1, <2>2, PairHandStays
<1>3. \A r \in Recs' : SeqRec(r, G)'
  BY <1>1 DEF SeqRec, AfterPairs
<1>4. QED BY <1>2, <1>3 DEF PairInv

\* A step that adds no row.
LEMMA NoRowAdded ==
    ASSUME NEW F \in Nat, RootTypes, UNCHANGED <<parents, ranks>>
    PROVE  RowsKept(F) /\ (JoinedBefore(F) => JoinedBefore(F)')
<1>1. RootTypes'
  BY DEF RootTypes
<1>2. RowsKept(F)
  BY <1>1, KeepsRows
<1>3. ASSUME JoinedBefore(F) PROVE JoinedBefore(F)'
  <2>1. JoinedBefore(F)' <=>
            /\ \A r \in parents' : r.seq < F /\ \E p \in Sources \X Sources :
                    AtSimilar(p, r.seq) /\ r \in JoinAt(p, r.seq)'.parents
            /\ \A r \in ranks' : r.seq < F /\ \E p \in Sources \X Sources :
                    AtSimilar(p, r.seq) /\ r \in JoinAt(p, r.seq)'.ranks
            /\ \A q \in 0 .. F - 1, p \in Sources \X Sources : AtSimilar(p, q) =>
                    /\ JoinAt(p, q)'.parents \subseteq parents' /\ JoinAt(p, q)'.ranks \subseteq ranks'
                    /\ Shallow(p, q)'
    BY DEF JoinedBefore, AtSimilar, At, Ahead, Entries, Similar
  <2>2. QED BY <1>2, <1>3, <2>1, JoinedStays
<1>4. QED BY <1>2, <1>3

\* What each step does to the trees.
PairsGoOn(F) == RowsKept(F) /\ \E G \in Nat : F <= G /\ PairInv(G)'

PlanInv == Inv /\ CensusInv /\ StageInv

LEMMA PlanInvFacts ==
    ASSUME PlanAssumption, PlanInv, NEW w \in Workers
    PROVE  /\ Inv /\ CensusInv /\ StageInv /\ HandTypes /\ RootTypes
           /\ copy[w] \in Records /\ copy[w] \in Recs /\ pos[w] \in Nat
           /\ pc \in [Workers -> Labels] /\ pos \in [Workers -> Nat]
           /\ pc[w] = "union" => copy[w].phase = "pairs"
           /\ copy[w].after \in Nat /\ copy[w].seq \in Nat
           /\ \A r \in Recs : r \in Records
BY DEF PlanInv, CensusInv, PlanTypes, Inv, TypesOK, StageInv, StageHand, Recs, Records

\* A step that adds no row, and none of whose records is new to the trees.
LEMMA PairSame ==
    ASSUME PlanAssumption, PlanInv, NEW F \in Nat, PairInv(F), NEW w \in Workers, Elsewhere(w),
           UNCHANGED <<parents, ranks>>, \A r \in Recs' \ Recs : SeqRec(r, F), PairHand(w, F)'
    PROVE  PairsGoOn(F)
<1>1. RowsKept(F) /\ JoinedBefore(F)'
  BY NoRowAdded, PlanInvFacts DEF PairInv
<1>2. PairInv(F)'
  BY <1>1, PairFrame, PlanInvFacts
<1>3. QED BY <1>1, <1>2 DEF PairsGoOn

LEMMA PairMakes ==
    ASSUME PlanAssumption, PlanInv, NEW F \in Nat, PairInv(F), NEW w \in Workers, NEW r,
           Makes(w, r), UNCHANGED <<parents, ranks>>, SeqRec(r, F)
    PROVE  PairsGoOn(F)
<1>1. PairHand(w, F)'
  BY DEF PairHand, Makes
<1>2. QED BY <1>1, PairSame, PlanInvFacts, MakesRecs DEF Makes

LEMMA QuietPairs ==
    ASSUME PlanAssumption, PlanInv, Inv', NEW F \in Nat, PairInv(F), NEW w \in Workers, Quiet(w)
    PROVE  PairsGoOn(F)
<1>1. PairHand(w, F)'
  <2>1. copy'[w] \in Recs /\ copy'[w] \in Records
    BY DEF Quiet, Recs, Inv, TypesOK
  <2>2. copy'[w].phase = "pairs" => copy'[w].seq <= F /\ copy'[w].seq \in Nat
    BY <2>1 DEF PairInv, SeqRec, Records
  <2>3. QED BY <2>2 DEF Quiet, PairHand
<1>2. QED BY <1>1, PairSame DEF Quiet, plan

\* Steps of the phases before, that hold no rows.
LEMMA PairCensusSteps ==
    ASSUME PlanAssumption, PlanInv, Inv', NEW F \in Nat, PairInv(F), NEW w \in Workers,
           ReadPage(w) \/ StagePage(w) \/ CensusEnds(w) \/ StageFiber(w) \/ StageEnds(w)
    PROVE  PairsGoOn(F)
<1>. /\ Inv /\ CensusInv /\ StageInv /\ HandTypes /\ copy[w] \in Records /\ copy[w] \in Recs
     /\ pc \in [Workers -> Labels] /\ copy[w].after \in Nat /\ SeqRec(copy[w], F)
  BY PlanInvFacts DEF PairInv
<1>1. UNCHANGED <<parents, ranks>> /\ Elsewhere(w)
  BY StepElsewhere DEF ReadPage, StagePage, CensusEnds, StageFiber, StageEnds, plan, Step
<1>2. copy[w].phase \in {"census", "stage"} /\ copy[w].seq = 0
  BY DEF ReadPage, StagePage, CensusEnds, StageFiber, StageEnds, InPhase, Inv, WorkerOK, SeqRec
<1>3. ASSUME NEW r, SaveCopy(w, r), pc[w] \in {"next", "page"}, SeqRec(r, F) PROVE PairsGoOn(F)
  BY <1>1, <1>3, SaveCopyMakes, PairMakes
<1>4. CASE ReadPage(w) \/ StageFiber(w)
  <2>1. UNCHANGED <<rec, copy, goal>> /\ Recs' = Recs /\ pc'[w] \in {"next", "page", "conflict"}
    BY <1>4 DEF ReadPage, StageFiber, outside, hands, Recs, Goto, InPhase
  <2>2. PairHand(w, F)'
    BY <1>2, <2>1 DEF PairHand
  <2>3. QED BY <1>1, <2>1, <2>2, PairSame
<1>5. CASE StagePage(w)
  <2>1. CASE ~Agrees(census[copy[w].after + 1], page[w])
    BY <1>5, <2>1, IdleQuiet, QuietPairs DEF StagePage, Goto, outside, hands, plan
  <2>2. ASSUME NEW r, r = [copy[w] EXCEPT !.after = copy[w].after + 1], SaveCopy(w, r)
        PROVE PairsGoOn(F)
    <3>1. pc[w] = "page" /\ copy[w].phase = "census"
      BY <1>5 DEF StagePage, Inv, WorkerOK
    <3>2. r.phase = "census" /\ r.seq = 0
      BY <1>2, <2>2, <3>1 DEF Records
    <3>3. SeqRec(r, F)
      BY <3>2 DEF SeqRec, AfterPairs
    <3>4. QED BY <1>3, <2>2, <3>1, <3>3
  <2>3. QED BY <1>5, <2>1, <2>2 DEF StagePage
<1>6. CASE CensusEnds(w)
  <2>1. PICK p : p = IF Cardinality(Sources) < MinSize THEN "done" ELSE "stage"
    OBVIOUS
  <2>2. PICK r : r = [copy[w] EXCEPT !.after = 0, !.phase = p]
    OBVIOUS
  <2>3. SaveCopy(w, r)
    BY <1>6, <2>1, <2>2 DEF CensusEnds
  <2>4. r.phase = p /\ r.seq = 0
    BY <1>2, <2>2 DEF Records
  <2>5. p = "done" => ~Enough
    BY <2>1, SourcesFinite DEF Enough, PlanAssumption
  <2>6. SeqRec(r, F)
    BY <2>1, <2>4, <2>5 DEF SeqRec, AfterPairs
  <2>7. QED BY <1>3, <1>6, <2>3, <2>6 DEF CensusEnds, InPhase
<1>7. CASE StageEnds(w)
  <2>1. PICK r : /\ SaveCopy(w, r)
                 /\ \/ r = [copy[w] EXCEPT !.after = @ + 1]
                    \/ r = [copy[w] EXCEPT !.phase = "pairs", !.after = 0]
    BY <1>7 DEF StageEnds
  <2>2. CASE r = [copy[w] EXCEPT !.after = @ + 1]
    <3>1. r.phase = "stage" /\ r.seq = 0
      BY <1>2, <1>7, <2>2 DEF Records, StageEnds, InPhase
    <3>2. SeqRec(r, F)
      BY <3>1 DEF SeqRec, AfterPairs
    <3>3. QED BY <1>3, <1>7, <2>1, <3>2 DEF StageEnds, InPhase
  <2>3. CASE r = [copy[w] EXCEPT !.phase = "pairs", !.after = 0]
    <3>1. r.phase = "pairs" /\ r.seq = 0 /\ r.after = 0
      BY <1>2, <2>3 DEF Records
    <3>2. SeqRec(r, F)
      BY <3>1, FirstZero DEF SeqRec, AfterPairs, PlanAssumption
    <3>3. QED BY <1>3, <1>7, <2>1, <3>2 DEF StageEnds, InPhase
  <2>4. QED BY <2>1, <2>2, <2>3
<1>8. QED BY <1>4, <1>5, <1>6, <1>7

LEMMA CandidatesAre ==
    ASSUME PlanAssumption, StageInv, NEW r \in Recs, r.phase \in {"pairs", "members", "units"}
    PROVE  Candidates = Sources /\ \A tag : Pairs(tag) = SPairs(tag)
<1>1. Sources \subseteq Candidates
  BY DEF StageInv, StageRec, AfterStage, FiberStaged, Sources
<1>2. Candidates \subseteq Sources
  BY DEF StageInv, CandsOK, Candidates
<1>3. Candidates = Sources
  BY <1>1, <1>2
<1>4. QED BY <1>3 DEF Pairs, SPairs, Posting, SPosting

LEMMA ReadPairStep ==
    ASSUME PlanAssumption, PlanInv, NEW F \in Nat, PairInv(F), NEW w \in Workers, ReadPair(w)
    PROVE  PairsGoOn(F)
<1> DEFINE tag == copy[w].after + 1
<1>. /\ Inv /\ CensusInv /\ StageInv /\ HandTypes /\ copy[w] \in Records /\ copy[w] \in Recs
     /\ pc \in [Workers -> Labels] /\ pos \in [Workers -> Nat] /\ copy[w].after \in Nat
     /\ SeqRec(copy[w], F) /\ PairHand(w, F) /\ copy[w].seq \in Nat /\ RootTypes
  BY PlanInvFacts DEF PairInv
<1>1. /\ copy[w].phase = "pairs" /\ pc[w] = "next" /\ copy[w].after < NTags
      /\ UNCHANGED <<plan, rec, copy, goal>> /\ Recs' = Recs
  BY DEF ReadPair, InPhase, outside, Recs
<1>2. PICK q \in Nat : q = copy[w].seq + pos[w]
  OBVIOUS
<1>3. tag \in 1 .. NTags /\ tag - 1 = copy[w].after /\ copy[w].seq = First(tag - 1)
  BY <1>1 DEF SeqRec, PlanAssumption
<1>4. PICK p \in SPairs(tag) :
        /\ Cardinality({o \in SPairs(tag) : Earlier(o, p)}) = pos[w]
        /\ IF ~Similar(p[1], p[2])
           THEN Advance(w) /\ UNCHANGED <<pc, joining>>
           ELSE \E f \in {Joined(p[1], q)}, g \in {Joined(p[2], q)} :
            /\ UNCHANGED pos
            /\ joining' = [joining EXCEPT ![w] = IF f = g THEN NoRows ELSE Joining(f, g, q)]
            /\ Goto(w, IF TooDeep(p[1], q) \/ TooDeep(p[2], q) THEN "conflict" ELSE "union")
  <2>1. Pairs(tag) = SPairs(tag)
    BY <1>1, CandidatesAre
  <2>2. QED BY <1>2, <2>1 DEF ReadPair
<1>5. At(<<tag, p>>, q)
  BY <1>2, <1>3, <1>4, AtPair
<1>6. Elsewhere(w) /\ q <= F
  BY <1>1, <1>2, StepElsewhere DEF Step, PairHand
<1>7. CASE ~Similar(p[1], p[2])
  <2>1. /\ pc'[w] = "next" /\ copy'[w].phase = "pairs" /\ copy'[w].seq + pos'[w] = q + 1
    BY <1>1, <1>2, <1>4, <1>7 DEF Advance
  <2>2. CASE q < F
    <3>1. PairHand(w, F)'
      BY <2>1, <2>2 DEF PairHand
    <3>2. QED BY <1>1, <1>6, <3>1, PairSame DEF plan
  <2>3. CASE q = F
    <3>1. ~ \E o : AtSimilar(o, F)
      <4>1. SUFFICES ASSUME NEW o, NEW t \in 1 .. NTags, At(<<t, o>>, q), Similar(o[1], o[2]) PROVE FALSE
        BY <2>3 DEF AtSimilar
      <4>2. <<t, o>> = <<tag, p>>
        BY <1>5, <4>1, AtTells
      <4>3. QED BY <1>7, <4>1, <4>2
    <3>2. JoinedBefore(F + 1)
      <4>1. (\A r \in parents : r.seq \in Nat) /\ (\A r \in ranks : r.seq \in Nat)
        BY DEF RootTypes, ParentRows, RankRows
      <4>2. \A o \in 0 .. (F + 1) - 1 : o # F => o \in 0 .. F - 1
        OBVIOUS
      <4>3. JoinedBefore(F)
        BY DEF PairInv
      <4>4. QED BY <3>1, <4>1, <4>2, <4>3 DEF JoinedBefore
    <3>3. RowsKept(F) /\ JoinedBefore(F + 1)'
      BY <1>1, <3>2, NoRowAdded DEF plan
    <3>4. PairHand(w, F + 1)'
      BY <2>1, <2>3 DEF PairHand
    <3>5. PairInv(F + 1)'
      BY <1>1, <1>6, <3>3, <3>4, PairFrame
    <3>6. QED BY <3>3, <3>5 DEF PairsGoOn
  <2>4. QED BY <1>6, <2>2, <2>3
<1>8. CASE Similar(p[1], p[2])
  <2>1. /\ UNCHANGED pos /\ joining'[w] = JoinAt(p, q)
        /\ pc'[w] = IF TooDeep(p[1], q) \/ TooDeep(p[2], q) THEN "conflict" ELSE "union"
    BY <1>4, <1>8 DEF HandTypes, Goto, Joined, JoinAt
  <2>2. copy'[w].seq + pos'[w] = q /\ copy'[w].phase = "pairs"
    BY <1>1, <1>2, <2>1
  <2>3. p \in Sources \X Sources /\ AtSimilar(p, q)
    <3>1. p \in Sources \X Sources
      BY <1>3, <1>4, SPairsFinite
    <3>2. QED BY <1>3, <1>5, <1>8, <3>1 DEF AtSimilar
  <2>4. ASSUME pc'[w] = "union" PROVE Holds(w, q)'
    <3>1. Shallow(p, q)
      BY <2>1, <2>4 DEF Shallow
    <3>2. RowsKept(F)
      BY <1>1, NoRowAdded DEF plan
    <3>3. JoinAt(p, q)' = JoinAt(p, q) /\ (Shallow(p, q)' <=> Shallow(p, q))
      BY <1>6, <3>2, JoinAtKept
    <3>4. QED BY <2>1, <2>3, <3>1, <3>3 DEF Holds
  <2>5. PairHand(w, F)'
    BY <1>6, <2>2, <2>4 DEF PairHand
  <2>6. QED BY <1>1, <1>6, <2>5, PairSame DEF plan
<1>9. QED BY <1>7, <1>8

\* The rows of the next pair come in.
LEMMA JoinedNext ==
    ASSUME PlanAssumption, RootTypes, RootTypes', NEW F \in Nat, JoinedBefore(F),
           NEW p \in Sources \X Sources, AtSimilar(p, F), Shallow(p, F),
           parents' = parents \cup JoinAt(p, F).parents, ranks' = ranks \cup JoinAt(p, F).ranks
    PROVE  RowsKept(F) /\ JoinedBefore(F + 1)'
<1>1. RowsKept(F)
  BY JoinAtRows, KeepsRows
<1>2. JoinAt(p, F)' = JoinAt(p, F) /\ Shallow(p, F)'
  BY <1>1, JoinAtKept
<1>3. ASSUME NEW r \in parents'
      PROVE  r.seq < F + 1 /\ \E o \in Sources \X Sources : AtSimilar(o, r.seq) /\ r \in JoinAt(o, r.seq)'.parents
  <2>1. CASE r \in parents
    <3>1. r.seq < F /\ \E o \in Sources \X Sources : AtSimilar(o, r.seq) /\ r \in JoinAt(o, r.seq)'.parents
      BY <1>1, <2>1, JoinedStays
    <3>2. r.seq \in Nat
      BY <2>1 DEF RootTypes, ParentRows
    <3>3. QED BY <3>1, <3>2
  <2>2. CASE r \in JoinAt(p, F).parents
    <3>1. r.seq = F
      BY <2>2, JoinAtRows
    <3>2. QED BY <1>2, <2>2, <3>1
  <2>3. QED BY <2>1, <2>2
<1>4. ASSUME NEW r \in ranks'
      PROVE  r.seq < F + 1 /\ \E o \in Sources \X Sources : AtSimilar(o, r.seq) /\ r \in JoinAt(o, r.seq)'.ranks
  <2>1. CASE r \in ranks
    <3>1. r.seq < F /\ \E o \in Sources \X Sources : AtSimilar(o, r.seq) /\ r \in JoinAt(o, r.seq)'.ranks
      BY <1>1, <2>1, JoinedStays
    <3>2. r.seq \in Nat
      BY <2>1 DEF RootTypes, RankRows
    <3>3. QED BY <3>1, <3>2
  <2>2. CASE r \in JoinAt(p, F).ranks
    <3>1. r.seq = F
      BY <2>2, JoinAtRows
    <3>2. QED BY <1>2, <2>2, <3>1
  <2>3. QED BY <2>1, <2>2
<1>5. ASSUME NEW q \in 0 .. (F + 1) - 1, NEW o \in Sources \X Sources, AtSimilar(o, q)
      PROVE  /\ JoinAt(o, q)'.parents \subseteq parents' /\ JoinAt(o, q)'.ranks \subseteq ranks'
             /\ Shallow(o, q)'
  <2>1. CASE q = F
    <3>1. o = p
      BY <1>5, <2>1, AtSimilarFacts
    <3>2. QED BY <1>2, <2>1, <3>1
  <2>2. CASE q \in 0 .. F - 1
    BY <1>1, <1>5, <2>2, JoinedStays
  <2>3. QED BY <2>1, <2>2
<1>6. QED BY <1>1, <1>3, <1>4, <1>5 DEF JoinedBefore, AtSimilar, At, Ahead, Entries, Similar

LEMMA WriteUnionStep ==
    ASSUME PlanAssumption, PlanInv, RootTypes', NEW F \in Nat, PairInv(F), NEW w \in Workers,
           WriteUnion(w)
    PROVE  PairsGoOn(F)
<1>. /\ Inv /\ CensusInv /\ StageInv /\ HandTypes /\ copy[w] \in Records
     /\ pc \in [Workers -> Labels] /\ pos \in [Workers -> Nat]
     /\ PairHand(w, F) /\ copy[w].seq \in Nat /\ RootTypes /\ JoinedBefore(F)
  BY PlanInvFacts DEF PairInv
<1>1. /\ pc[w] = "union" /\ copy[w].phase = "pairs"
      /\ UNCHANGED <<rec, copy, goal, joining>> /\ Recs' = Recs
  BY PlanInvFacts DEF WriteUnion, outside, hands, Recs
<1>2. PICK q \in Nat : q = copy[w].seq + pos[w]
  OBVIOUS
<1>3. q <= F /\ Elsewhere(w)
  BY <1>1, <1>2, StepElsewhere DEF PairHand, Step
<1>4. PICK p \in Sources \X Sources : AtSimilar(p, q) /\ joining[w] = JoinAt(p, q) /\ Shallow(p, q)
  BY <1>1, <1>2 DEF PairHand, Holds
<1>5. CASE /\ UNCHANGED <<parents, ranks>>
           /\ Goto(w, "conflict")
  <2>1. PairHand(w, F)'
    BY <1>5 DEF PairHand, Goto
  <2>2. QED BY <1>1, <1>3, <1>5, <2>1, PairSame
<1>6. CASE /\ parents' = parents \cup JoinAt(p, q).parents /\ ranks' = ranks \cup JoinAt(p, q).ranks
           /\ Advance(w) /\ Goto(w, "next")
  <2>1. copy'[w].seq + pos'[w] = q + 1 /\ pc'[w] = "next"
    BY <1>1, <1>2, <1>6 DEF Advance, Goto
  <2>2. CASE q < F
    <3>1. JoinAt(p, q).parents \subseteq parents /\ JoinAt(p, q).ranks \subseteq ranks
      BY <1>4, <2>2 DEF JoinedBefore
    <3>2. PairHand(w, F)'
      BY <2>1, <2>2 DEF PairHand
    <3>3. UNCHANGED <<parents, ranks>>
      BY <1>6, <3>1
    <3>4. QED BY <1>1, <1>3, <3>2, <3>3, PairSame
  <2>3. CASE q = F
    <3>1. RowsKept(F) /\ JoinedBefore(F + 1)'
      BY <1>4, <1>6, <2>3, JoinedNext
    <3>2. PairHand(w, F + 1)'
      BY <2>1, <2>3 DEF PairHand
    <3>3. PairInv(F + 1)'
      BY <1>1, <1>3, <3>1, <3>2, PairFrame
    <3>4. QED BY <3>1, <3>3 DEF PairsGoOn
  <2>4. QED BY <1>3, <2>2, <2>3
<1>7. QED BY <1>4, <1>5, <1>6 DEF WriteUnion

LEMMA PairsEndStep ==
    ASSUME PlanAssumption, PlanInv, NEW F \in Nat, PairInv(F), NEW w \in Workers, PairsEnd(w)
    PROVE  PairsGoOn(F)
<1> DEFINE tag == copy[w].after + 1
<1>. /\ Inv /\ CensusInv /\ StageInv /\ HandTypes /\ copy[w] \in Records /\ copy[w] \in Recs
     /\ pc \in [Workers -> Labels] /\ copy[w].after \in Nat
     /\ SeqRec(copy[w], F) /\ PairHand(w, F) /\ copy[w].seq \in Nat
  BY PlanInvFacts DEF PairInv
<1>1. copy[w].phase = "pairs" /\ pc[w] = "next" /\ UNCHANGED plan
  BY DEF PairsEnd, InPhase
<1>2. copy[w].after \in 0 .. NTags /\ copy[w].seq = First(copy[w].after) /\ copy[w].seq <= F
  BY <1>1 DEF SeqRec
<1>3. ASSUME NEW r, SaveCopy(w, r), SeqRec(r, F) PROVE PairsGoOn(F)
  BY <1>1, <1>3, SaveCopyMakes, PairMakes DEF plan
<1>4. CASE copy[w].after = NTags
  <2>1. PICK r : r = [copy[w] EXCEPT !.phase = "members", !.after = 0]
    OBVIOUS
  <2>2. r.phase = "members" /\ r.seq = copy[w].seq
    BY <2>1 DEF Records
  <2>3. SeqRec(r, F)
    BY <1>2, <1>4, <2>2 DEF SeqRec, Number
  <2>4. QED BY <1>3, <1>4, <2>1, <2>3 DEF PairsEnd
<1>5. CASE copy[w].after # NTags
  <2>1. Pairs(tag) = SPairs(tag) /\ tag \in 1 .. NTags /\ tag - 1 = copy[w].after
    BY <1>1, <1>2, <1>5, CandidatesAre DEF PlanAssumption
  <2>2. PICK n : n = Cardinality(SPairs(tag))
    OBVIOUS
  <2>3. n \in Nat /\ First(tag) = First(tag - 1) + n
    BY <2>1, <2>2, FirstNext, SPairsFinite
  <2>4. pos[w] = n /\ SaveCopy(w, NextTag(copy[w], n))
    BY <1>5, <2>1, <2>2 DEF PairsEnd
  <2>5. PICK r : r = NextTag(copy[w], n)
    OBVIOUS
  <2>6. r.phase = "pairs" /\ r.after = tag /\ r.seq = copy[w].seq + n
    BY <1>1, <2>5 DEF NextTag, Records
  <2>7. r.seq = First(tag) /\ r.seq <= F
    BY <1>1, <1>2, <2>1, <2>3, <2>4, <2>6 DEF PairHand
  <2>8. SeqRec(r, F)
    BY <2>1, <2>6, <2>7 DEF SeqRec, AfterPairs
  <2>9. QED BY <1>3, <2>4, <2>5, <2>8
<1>6. QED BY <1>4, <1>5

LEMMA PairMemberSteps ==
    ASSUME PlanAssumption, PlanInv, NEW F \in Nat, PairInv(F), NEW w \in Workers,
           AddMember(w) \/ MembersEnd(w)
    PROVE  PairsGoOn(F)
<1>. /\ Inv /\ CensusInv /\ StageInv /\ HandTypes /\ copy[w] \in Records
     /\ pc \in [Workers -> Labels] /\ SeqRec(copy[w], F)
  BY PlanInvFacts DEF PairInv
<1>1. copy[w].phase = "members" /\ pc[w] = "next" /\ UNCHANGED <<parents, ranks>>
  BY DEF AddMember, MembersEnd, InPhase, plan
<1>2. copy[w].seq = Number /\ Number <= F
  BY <1>1 DEF SeqRec, AfterPairs
<1>3. CASE AddMember(w)
  <2>1. UNCHANGED <<rec, copy, goal>> /\ Recs' = Recs /\ pc'[w] # "union"
    BY <1>1, <1>3 DEF AddMember, outside, hands, Recs, Goto
  <2>2. PairHand(w, F)'
    BY <1>1, <2>1 DEF PairHand
  <2>3. QED BY <1>1, <1>3, <2>1, <2>2, PairSame, StepElsewhere DEF Step
<1>4. CASE MembersEnd(w)
  <2>1. PICK r : /\ SaveCopy(w, r)
                 /\ \/ \E f : r = [copy[w] EXCEPT !.after = f]
                    \/ r = [copy[w] EXCEPT !.phase = "units", !.after = 0]
    BY <1>4 DEF MembersEnd
  <2>2. r.phase \in {"members", "units"} /\ r.seq = copy[w].seq
    BY <1>1, <2>1 DEF Records
  <2>3. SeqRec(r, F)
    BY <1>2, <2>2 DEF SeqRec, AfterPairs
  <2>4. QED BY <1>1, <2>1, <2>3, SaveCopyMakes, PairMakes
<1>5. QED BY <1>3, <1>4

LEMMA PairNext ==
    ASSUME PlanAssumption, PlanInv, PlanInv', NEW F \in Nat, PairInv(F), [Next]_vars
    PROVE  PairsGoOn(F)
<1>. Inv /\ Inv' /\ HandTypes /\ RootTypes' /\ RootTypes
  BY DEF PlanInv, CensusInv, PlanTypes
<1>1. ASSUME NEW w \in Workers, NEW r, Makes(w, r), UNCHANGED plan, UnitsGoOn(copy[w], r)
      PROVE PairsGoOn(F)
  <2>1. SeqRec(copy[w], F)
    BY PlanInvFacts DEF PairInv
  <2>2. SeqRec(r, F)
    BY <1>1, <2>1 DEF UnitsGoOn, SeqRec, AfterPairs
  <2>3. QED BY <1>1, <2>2, PairMakes DEF plan
<1>2. CASE UNCHANGED <<owner, rec, plan, brain, worker>>
  <2>1. UNCHANGED <<pc, copy, pos, goal, joining, parents, ranks>> /\ Recs' = Recs
    BY <1>2 DEF worker, hands, plan, Recs
  <2>2. RowsKept(F) /\ JoinedBefore(F)'
    BY <2>1, NoRowAdded DEF PairInv
  <2>3. ASSUME NEW v \in Workers PROVE PairHand(v, F)'
    <3>1. PairHand(v, F) /\ copy[v] \in Records /\ pos[v] \in Nat /\ (pc[v] = "union" => copy[v].phase = "pairs")
      BY PlanInvFacts DEF PairInv
    <3>2. QED BY <2>1, <2>2, <3>1, PairHandStays
  <2>4. \A r \in Recs' : SeqRec(r, F)'
    BY <2>1 DEF PairInv, SeqRec, AfterPairs
  <2>5. QED BY <2>2, <2>3, <2>4 DEF PairInv, PairsGoOn
<1>3. QED BY <1>1, <1>2, OtherSteps, QuietPairs, PairCensusSteps, ReadPairStep, WriteUnionStep,
             PairsEndStep, PairMemberSteps

LEMMA PairInit ==
    ASSUME PlanAssumption, Init
    PROVE  PairInv(0)
<1>1. JoinedBefore(0)
  BY DEF Init, JoinedBefore
<1>2. \A r \in Recs : SeqRec(r, 0)
  BY DEF Init, Recs, SeqRec, AfterPairs
<1>3. \A w \in Workers : PairHand(w, 0)
  BY DEF Init, PairHand
<1>4. QED BY <1>1, <1>2, <1>3 DEF PairInv

-----------------------------------------------------------------------------
(* The members *)

Listed(f) == \E m \in members : m.fiber = f

MemberRec(r) ==
    /\ r.phase = "members" => \A f \in Sources : f <= r.after => Listed(f)
    /\ r.phase = "units" \/ (r.phase = "done" /\ Enough) => \A f \in Sources : Listed(f)

MemberHand(w) ==
    pc[w] = "next" /\ copy[w].phase = "members" =>
        LET rest == Beyond(Sources, copy[w].after) IN
        \A f \in rest : Cardinality(Before(rest, f)) < pos[w] => Listed(f)

ListInv ==
    /\ \A r \in Recs : MemberRec(r)
    /\ \A w \in Workers : MemberHand(w)

LEMMA ListedStays ==
    ASSUME Grows, NEW f, Listed(f)
    PROVE  Listed(f)'
BY DEF Grows, Listed

LEMMA MemberRecStays ==
    ASSUME Grows, NEW r, MemberRec(r)
    PROVE  MemberRec(r)'
BY ListedStays DEF MemberRec

LEMMA ListFrame ==
    ASSUME ListInv, Grows, NEW w \in Workers, Elsewhere(w),
           \A r \in Recs' \ Recs : MemberRec(r)', MemberHand(w)'
    PROVE  ListInv'
<1>1. \A r \in Recs : MemberRec(r)'
  BY MemberRecStays DEF ListInv
<1>2. ASSUME NEW v \in Workers, v # w PROVE MemberHand(v)'
  <2>1. MemberHand(v) /\ pc'[v] = pc[v] /\ copy'[v] = copy[v] /\ pos'[v] = pos[v]
    BY <1>2 DEF ListInv, Elsewhere
  <2>2. QED BY <2>1, ListedStays DEF MemberHand
<1>3. QED BY <1>1, <1>2 DEF ListInv

LEMMA ListMakes ==
    ASSUME Inv, ListInv, Grows, NEW w \in Workers, NEW r, Makes(w, r), MemberRec(r)
    PROVE  ListInv'
<1>1. MemberHand(w)'
  BY DEF MemberHand, Makes
<1>2. MemberRec(r)'
  BY MemberRecStays
<1>3. QED BY <1>1, <1>2, ListFrame, MakesRecs DEF Makes

LEMMA QuietList ==
    ASSUME PlanAssumption, ListInv, Grows, NEW w \in Workers, Quiet(w)
    PROVE  ListInv'
<1>1. MemberHand(w)'
  <2>1. \A a : \A f \in Beyond(Sources, a) : ~(Cardinality(Before(Beyond(Sources, a), f)) < 0)
    BY SourcesFinite, BeyondFinite, PositionBelow
  <2>2. QED BY <2>1 DEF Quiet, MemberHand
<1>2. QED BY <1>1, ListFrame DEF Quiet

\* Steps of the phases before, whose records say nothing of the members.
LEMMA ListEarlierSteps ==
    ASSUME PlanAssumption, PlanInv, ListInv, Grows, NEW w \in Workers,
           \/ ReadPage(w) \/ StagePage(w) \/ CensusEnds(w) \/ StageFiber(w) \/ StageEnds(w)
           \/ ReadPair(w) \/ WriteUnion(w) \/ PairsEnd(w)
    PROVE  ListInv'
<1>. /\ Inv /\ CensusInv /\ StageInv /\ HandTypes /\ copy[w] \in Records
     /\ pc \in [Workers -> Labels] /\ copy[w].after \in Nat
  BY PlanInvFacts
<1>1. Elsewhere(w) /\ copy[w].phase \in {"census", "stage", "pairs"}
  <2>1. Elsewhere(w)
    BY StepElsewhere DEF Step
  <2>2. pc[w] = "union" => copy[w].phase = "pairs"
    BY PlanInvFacts
  <2>3. QED BY <2>1, <2>2 DEF ReadPage, StagePage, CensusEnds, StageFiber, StageEnds, ReadPair,
                WriteUnion, PairsEnd, InPhase, Inv, WorkerOK
<1>2. ASSUME NEW r, SaveCopy(w, r), pc[w] \in {"next", "page"},
             \/ r.phase \in {"census", "stage", "pairs"}
             \/ r.phase = "done" /\ ~Enough
             \/ r.phase = "members" /\ r.after = 0
      PROVE  ListInv'
  <2>1. \A f \in Sources : ~(f <= 0)
    BY DEF Sources, Fibers
  <2>2. MemberRec(r)
    BY <1>2, <2>1 DEF MemberRec
  <2>3. QED BY <1>2, <2>2, SaveCopyMakes, ListMakes
<1>3. CASE ReadPage(w) \/ StageFiber(w) \/ ReadPair(w) \/ WriteUnion(w)
  <2>1. UNCHANGED <<rec, copy, goal>> /\ Recs' = Recs
    BY <1>3 DEF ReadPage, StageFiber, ReadPair, WriteUnion, outside, hands, Recs
  <2>2. MemberHand(w)'
    BY <1>1, <2>1 DEF MemberHand
  <2>3. QED BY <1>1, <2>1, <2>2, ListFrame
<1>4. CASE StagePage(w)
  <2>1. CASE ~Agrees(census[copy[w].after + 1], page[w])
    BY <1>4, <2>1, IdleQuiet, QuietList DEF StagePage, Goto, outside, hands, plan
  <2>2. CASE SaveCopy(w, [copy[w] EXCEPT !.after = copy[w].after + 1])
    <3>1. pc[w] = "page" /\ [copy[w] EXCEPT !.after = copy[w].after + 1].phase \in {"census", "stage", "pairs"}
      BY <1>1, <1>4 DEF StagePage, Records
    <3>2. QED BY <1>2, <2>2, <3>1
  <2>3. QED BY <1>4, <2>1, <2>2 DEF StagePage
<1>5. CASE CensusEnds(w)
  <2>1. PICK p : p = IF Cardinality(Sources) < MinSize THEN "done" ELSE "stage"
    OBVIOUS
  <2>2. PICK r : r = [copy[w] EXCEPT !.after = 0, !.phase = p]
    OBVIOUS
  <2>3. SaveCopy(w, r) /\ r.phase = p
    BY <1>5, <2>1, <2>2 DEF CensusEnds, Records
  <2>4. p = "stage" \/ (p = "done" /\ ~Enough)
    BY <2>1, SourcesFinite DEF Enough, PlanAssumption
  <2>5. QED BY <1>2, <1>5, <2>3, <2>4 DEF CensusEnds, InPhase
<1>6. CASE StageEnds(w)
  <2>1. PICK r : /\ SaveCopy(w, r)
                 /\ \/ r = [copy[w] EXCEPT !.after = @ + 1]
                    \/ r = [copy[w] EXCEPT !.phase = "pairs", !.after = 0]
    BY <1>6 DEF StageEnds
  <2>2. r.phase \in {"census", "stage", "pairs"}
    BY <1>1, <2>1 DEF Records
  <2>3. QED BY <1>2, <1>6, <2>1, <2>2 DEF StageEnds, InPhase
<1>7. CASE PairsEnd(w)
  <2>1. PICK r : /\ SaveCopy(w, r)
                 /\ \/ r = [copy[w] EXCEPT !.phase = "members", !.after = 0]
                    \/ \E n : r = NextTag(copy[w], n)
    BY <1>7 DEF PairsEnd
  <2>2. r.phase \in {"census", "stage", "pairs"} \/ (r.phase = "members" /\ r.after = 0)
    BY <1>1, <2>1 DEF Records, NextTag
  <2>3. QED BY <1>2, <1>7, <2>1, <2>2 DEF PairsEnd, InPhase
<1>8. QED BY <1>3, <1>4, <1>5, <1>6, <1>7

LEMMA ListAddStep ==
    ASSUME PlanAssumption, PlanInv, ListInv, Grows, NEW w \in Workers, AddMember(w)
    PROVE  ListInv'
<1> DEFINE rest == Beyond(Sources, copy[w].after)
<1>. /\ Inv /\ CensusInv /\ StageInv /\ HandTypes /\ copy[w] \in Records /\ copy[w] \in Recs
     /\ pc \in [Workers -> Labels] /\ pos \in [Workers -> Nat] /\ MemberHand(w)
  BY PlanInvFacts DEF ListInv
<1>1. /\ pc[w] = "next" /\ copy[w].phase = "members"
      /\ UNCHANGED <<rec, copy, goal>> /\ Recs' = Recs
  BY DEF AddMember, InPhase, outside, hands, Recs
<1>2. PICK f \in rest :
        /\ Cardinality(Before(rest, f)) = pos[w]
        /\ \/ Goto(w, "conflict")
           \/ /\ members' = members \cup {[root |-> Root(f, copy[w].seq), fiber |-> f]}
              /\ Advance(w) /\ UNCHANGED pc
  <2>1. Candidates = Sources
    BY <1>1, CandidatesAre
  <2>2. QED BY <2>1 DEF AddMember
<1>3. MemberHand(w)'
  <2>1. CASE Goto(w, "conflict")
    BY <2>1 DEF MemberHand, Goto
  <2>2. CASE /\ members' = members \cup {[root |-> Root(f, copy[w].seq), fiber |-> f]}
             /\ Advance(w) /\ UNCHANGED pc
    <3>1. Listed(f)'
      <4>1. [root |-> Root(f, copy[w].seq), fiber |-> f].fiber = f
        OBVIOUS
      <4>2. QED BY <2>2, <4>1 DEF Listed
    <3>2. pos'[w] = pos[w] + 1 /\ pos[w] \in Nat
      BY <2>2 DEF Advance
    <3>3. IsFiniteSet(rest) /\ rest \subseteq Int
      BY SourcesFinite, BeyondFinite
    <3>4. ASSUME NEW g \in rest, Cardinality(Before(rest, g)) < pos[w] + 1
          PROVE  Listed(g)'
      <4>1. Cardinality(Before(rest, g)) \in Nat
        BY <3>3, PositionBelow
      <4>2. CASE Cardinality(Before(rest, g)) = pos[w]
        BY <1>2, <3>1, <3>3, <4>2, PositionTells
      <4>3. CASE Cardinality(Before(rest, g)) < pos[w]
        BY <1>1, <4>3, ListedStays DEF MemberHand
      <4>4. QED BY <3>2, <3>4, <4>1, <4>2, <4>3
    <3>5. QED BY <1>1, <2>2, <3>2, <3>4 DEF MemberHand
  <2>3. QED BY <1>2, <2>1, <2>2
<1>4. QED BY <1>1, <1>3, ListFrame, StepElsewhere DEF Step

LEMMA ListEndStep ==
    ASSUME PlanAssumption, PlanInv, ListInv, Grows, NEW w \in Workers, MembersEnd(w)
    PROVE  ListInv'
<1> DEFINE rest == Beyond(Sources, copy[w].after)
<1>. /\ Inv /\ CensusInv /\ StageInv /\ HandTypes /\ copy[w] \in Records /\ copy[w] \in Recs
     /\ pc \in [Workers -> Labels] /\ pos[w] \in Nat /\ MemberHand(w) /\ MemberRec(copy[w])
     /\ copy[w].after \in Nat
  BY PlanInvFacts DEF ListInv
<1>1. pc[w] = "next" /\ copy[w].phase = "members" /\ Candidates = Sources
  <2>1. pc[w] = "next" /\ copy[w].phase = "members"
    BY DEF MembersEnd, InPhase
  <2>2. QED BY <2>1, CandidatesAre
<1>2. IsFiniteSet(rest) /\ rest \subseteq Int /\ Sources \subseteq Int
  BY SourcesFinite, BeyondFinite
<1>3. \A f \in rest : Cardinality(Before(rest, f)) < pos[w] => Listed(f)
  BY <1>1 DEF MemberHand
<1>4. \A f \in Sources : f \notin rest => Listed(f)
  <2>1. ASSUME NEW f \in Sources, f \notin rest PROVE f <= copy[w].after
    <3>1. ~(f > copy[w].after) /\ f \in Int
      BY <1>2, <2>1 DEF Beyond
    <3>2. QED BY <3>1
  <2>2. QED BY <1>1, <2>1 DEF MemberRec
<1>5. ASSUME NEW f \in rest, pos[w] = PageSize, Cardinality(Before(rest, f)) = PageSize - 1,
             NEW r, SaveCopy(w, r), r = [copy[w] EXCEPT !.after = f]
      PROVE  ListInv'
  <2>1. r.phase = "members" /\ r.after = f
    BY <1>1, <1>5 DEF Records
  <2>2. ASSUME NEW g \in rest, g <= f PROVE Listed(g)
    <3>1. Before(rest, g) \subseteq Before(rest, f)
      BY <1>2, <2>2 DEF Before
    <3>2. Before(rest, f) \subseteq rest
      BY DEF Before
    <3>3. IsFiniteSet(Before(rest, f))
      BY <1>2, <3>2, FS_Subset
    <3>4. Cardinality(Before(rest, g)) <= Cardinality(Before(rest, f))
      BY <3>1, <3>3, FS_Subset
    <3>5. Cardinality(Before(rest, g)) \in Nat
      BY <1>2, PositionBelow
    <3>6. Cardinality(Before(rest, g)) < pos[w]
      BY <1>5, <3>4, <3>5
    <3>7. QED BY <1>3, <3>6
  <2>3. MemberRec(r)
    BY <1>4, <2>1, <2>2 DEF MemberRec
  <2>4. QED BY <1>1, <1>5, <2>3, SaveCopyMakes, ListMakes
<1>6. ASSUME pos[w] = Cardinality(rest), NEW r, SaveCopy(w, r),
             r = [copy[w] EXCEPT !.phase = "units", !.after = 0]
      PROVE  ListInv'
  <2>1. r.phase = "units"
    BY <1>6 DEF Records
  <2>2. \A f \in rest : Listed(f)
    BY <1>2, <1>3, <1>6, PositionBelow
  <2>3. MemberRec(r)
    BY <1>4, <2>1, <2>2 DEF MemberRec
  <2>4. QED BY <1>1, <1>6, <2>3, SaveCopyMakes, ListMakes
<1>7. QED BY <1>1, <1>5, <1>6 DEF MembersEnd

LEMMA ListNext ==
    ASSUME PlanAssumption, PlanInv, ListInv, Grows, [Next]_vars
    PROVE  ListInv'
<1>. Inv /\ HandTypes
  BY DEF PlanInv, CensusInv
<1>1. ASSUME NEW w \in Workers, NEW r, Makes(w, r), UNCHANGED plan, UnitsGoOn(copy[w], r)
      PROVE ListInv'
  <2>1. MemberRec(copy[w])
    BY PlanInvFacts DEF ListInv
  <2>2. MemberRec(r)
    BY <1>1, <2>1 DEF UnitsGoOn, MemberRec
  <2>3. QED BY <1>1, <2>2, ListMakes
<1>2. CASE UNCHANGED <<owner, rec, plan, brain, worker>>
  <2>1. UNCHANGED <<pc, copy, pos, goal>> /\ Recs' = Recs
    BY <1>2 DEF worker, hands, Recs
  <2>2. \A v \in Workers : MemberHand(v)'
    BY <2>1, ListedStays DEF ListInv, MemberHand
  <2>3. QED BY <2>1, <2>2, MemberRecStays DEF ListInv
<1>3. QED BY <1>1, <1>2, OtherSteps, QuietList, ListEarlierSteps, ListAddStep, ListEndStep

-----------------------------------------------------------------------------
(* The groups *)

MembersOK(F) ==
    \A m \in members :
        /\ Number <= F /\ Enough /\ m.fiber \in Sources
        /\ m.root = Root(m.fiber, Number) /\ ~TooDeep(m.fiber, Number)

GroupInv == ListInv /\ \E F \in Nat : PairInv(F) /\ MembersOK(F)

LEMMA MembersStay ==
    ASSUME PlanAssumption, NEW F \in Nat, NEW G \in Nat, F <= G, RowsKept(F), MembersOK(F),
           NEW m \in members
    PROVE  /\ Number <= G /\ Enough /\ m.fiber \in Sources
           /\ m.root = Root(m.fiber, Number)' /\ ~TooDeep(m.fiber, Number)'
<1>1. /\ Number <= F /\ Enough /\ m.fiber \in Sources /\ Number \in Nat
      /\ m.root = Root(m.fiber, Number) /\ ~TooDeep(m.fiber, Number)
  BY FirstType DEF MembersOK, Number
<1>2. PICK q, f : q = Number /\ f = m.fiber
  OBVIOUS
<1>3. Root(f, q)' = Root(f, q) /\ (TooDeep(f, q)' <=> TooDeep(f, q))
  BY <1>1, <1>2, RootsKept
<1>4. QED BY <1>1, <1>2, <1>3

LEMMA MembersNext ==
    ASSUME PlanAssumption, PlanInv, NEW F \in Nat, NEW G \in Nat, F <= G, RowsKept(F),
           PairInv(F), MembersOK(F), [Next]_vars
    PROVE  MembersOK(G)'
<1>. Inv /\ HandTypes
  BY DEF PlanInv, CensusInv
<1>1. CASE UNCHANGED members
  BY <1>1, MembersStay DEF MembersOK
<1>2. ASSUME NEW w \in Workers, AddMember(w) PROVE MembersOK(G)'
  <2>1. copy[w].phase = "members" /\ copy[w] \in Recs
    BY <1>2, PlanInvFacts DEF AddMember, InPhase
  <2>2. Candidates = Sources /\ copy[w].seq = Number /\ Number <= F /\ Enough
    BY <2>1, CandidatesAre DEF PlanInv, PairInv, SeqRec, AfterPairs, StageInv, StageRec
  <2>3. PICK f \in Sources :
            \/ members' = members
            \/ /\ members' = members \cup {[root |-> Root(f, Number), fiber |-> f]}
               /\ ~TooDeep(f, Number)
    BY <1>2, <2>2 DEF AddMember, Beyond
  <2>4. CASE /\ members' = members \cup {[root |-> Root(f, Number), fiber |-> f]}
             /\ ~TooDeep(f, Number)
    <3>1. PICK m : m = [root |-> Root(f, Number), fiber |-> f]
      OBVIOUS
    <3>2. PICK q \in Nat : q = Number
      BY FirstType DEF Number
    <3>3. m.fiber \in Sources /\ m.root = Root(m.fiber, q)' /\ ~TooDeep(m.fiber, q)'
      <4>1. Root(f, q)' = Root(f, q) /\ (TooDeep(f, q)' <=> TooDeep(f, q))
        BY <2>2, <3>2, RootsKept
      <4>2. m.fiber = f /\ m.root = Root(f, q) /\ ~TooDeep(f, q)
        BY <2>4, <3>1, <3>2
      <4>3. QED BY <4>1, <4>2
    <3>4. \A n \in members' : n \in members \/ n = m
      BY <2>4, <3>1
    <3>5. Number <= G
      BY <2>2, <3>2
    <3>6. QED BY <2>2, <3>2, <3>3, <3>4, <3>5, MembersStay DEF MembersOK
  <2>5. QED BY <1>1, <2>3, <2>4
<1>3. ASSUME NEW w \in Workers,
             \/ ReadPage(w) \/ StagePage(w) \/ CensusEnds(w) \/ StageFiber(w) \/ StageEnds(w)
             \/ ReadPair(w) \/ WriteUnion(w) \/ PairsEnd(w) \/ MembersEnd(w)
      PROVE  UNCHANGED members
  BY <1>3 DEF ReadPage, StagePage, CensusEnds, StageFiber, StageEnds, ReadPair, WriteUnion, PairsEnd,
              MembersEnd, plan
<1>4. UNCHANGED plan => UNCHANGED members
  BY DEF plan
<1>5. \A w \in Workers : Quiet(w) => UNCHANGED plan
  BY DEF Quiet
<1>6. QED BY <1>1, <1>2, <1>3, <1>4, <1>5, OtherSteps

LEMMA GroupNext ==
    ASSUME PlanAssumption, PlanInv, PlanInv', GroupInv, [Next]_vars
    PROVE  GroupInv'
<1>1. PICK F \in Nat : PairInv(F) /\ MembersOK(F)
  BY DEF GroupInv
<1>2. RowsKept(F) /\ \E G \in Nat : F <= G /\ PairInv(G)'
  BY <1>1, PairNext DEF PairsGoOn
<1>3. PICK G \in Nat : F <= G /\ PairInv(G)'
  BY <1>2
<1>4. MembersOK(G)'
  BY <1>1, <1>2, <1>3, MembersNext
<1>5. ListInv'
  BY GrowsNext, ListNext DEF PlanInv, GroupInv
<1>6. QED BY <1>3, <1>4, <1>5 DEF GroupInv

LEMMA GroupInit ==
    ASSUME PlanAssumption, Init
    PROVE  GroupInv
<1>1. MembersOK(0)
  BY DEF Init, MembersOK
<1>2. \A r \in Recs : MemberRec(r)
  BY DEF Init, Recs, MemberRec
<1>3. \A w \in Workers : MemberHand(w)
  BY DEF Init, MemberHand
<1>4. QED BY <1>1, <1>2, <1>3, PairInit DEF GroupInv, ListInv

LEMMA PlanInit ==
    ASSUME PlanAssumption, Init
    PROVE  PlanInv
BY InitInv, CensusInit, StageInit DEF PlanInv

LEMMA PlanNext ==
    ASSUME PlanAssumption, PlanInv, [Next]_vars
    PROVE  PlanInv'
BY NextInv, CensusNext, StageNext DEF PlanInv

\* Each member has the root of its tree, when the pairs are behind.
LEMMA MembersAre ==
    ASSUME PlanAssumption, PlanInv, GroupInv, members # {}
    PROVE  \E rho : IsForest(rho, Number) /\ \A m \in members : m.fiber \in Sources /\ m.root = rho[m.fiber]
<1>1. PICK F \in Nat : PairInv(F) /\ MembersOK(F)
  BY DEF GroupInv
<1>2. Number <= F /\ Number \in Nat /\ RootTypes /\ JoinedBefore(F)
  BY <1>1, FirstType DEF MembersOK, Number, PlanInv, CensusInv, PlanTypes, PairInv
<1>3. PICK rho : IsForest(rho, Number)
  BY <1>2, ForestExists
<1>4. ASSUME NEW m \in members PROVE m.fiber \in Sources /\ m.root = rho[m.fiber]
  <2>1. m.fiber \in Sources /\ m.root = Root(m.fiber, Number) /\ ~TooDeep(m.fiber, Number)
    BY <1>1 DEF MembersOK
  <2>2. QED BY <1>2, <1>3, <2>1, FoundIsRoot, SourcesFinite
<1>5. QED BY <1>3, <1>4

\* When every source is listed, the group of a root is its tree.
LEMMA GroupIs ==
    ASSUME PlanAssumption, PlanInv, GroupInv, \A g \in Sources : Listed(g),
           NEW rho, IsForest(rho, Number),
           \A m \in members : m.fiber \in Sources /\ m.root = rho[m.fiber], NEW f \in Sources
    PROVE  /\ rho[f] \in Sources /\ Group(rho[f]) = Component[f]
           /\ {m \in members : m.fiber = f} = {[root |-> rho[f], fiber |-> f]}
<1>1. rho[f] \in Sources /\ Component[f] = {g \in Sources : rho[g] = rho[f]}
  BY TreesAreComponents DEF PlanInv, CensusInv, PlanTypes
<1>2. \A m \in members : m = [root |-> m.root, fiber |-> m.fiber]
  BY DEF PlanInv, CensusInv, PlanTypes
<1>3. \A g \in Sources : [root |-> rho[g], fiber |-> g] \in members
  BY <1>2 DEF Listed
<1>4. {m \in members : m.fiber = f} = {[root |-> rho[f], fiber |-> f]}
  BY <1>2, <1>3
<1>5. ASSUME NEW g \in Group(rho[f]) PROVE g \in Sources /\ rho[g] = rho[f]
  BY DEF Group
<1>6. ASSUME NEW g \in Sources, rho[g] = rho[f] PROVE g \in Group(rho[f])
  <2>1. PICK m \in members : m = [root |-> rho[g], fiber |-> g]
    BY <1>3
  <2>2. m.root = rho[f] /\ m.fiber = g
    BY <1>6, <2>1
  <2>3. QED BY <2>2 DEF Group
<1>7. Group(rho[f]) = {g \in Sources : rho[g] = rho[f]}
  BY <1>5, <1>6
<1>8. QED BY <1>1, <1>4, <1>7

LEMMA GroupsThen ==
    ASSUME PlanAssumption, PlanInv, GroupInv
    PROVE  GroupsAreComponents
<1> SUFFICES ASSUME rec.phase = "units", NEW f \in Sources
             PROVE  \E root \in Sources :
                        /\ {m \in members : m.fiber = f} = {[root |-> root, fiber |-> f]}
                        /\ Group(root) = Component[f]
  BY DEF GroupsAreComponents
<1>1. \A g \in Sources : Listed(g)
  BY DEF GroupInv, ListInv, MemberRec, Recs
<1>2. PICK rho : IsForest(rho, Number) /\ \A m \in members : m.fiber \in Sources /\ m.root = rho[m.fiber]
  BY <1>1, MembersAre DEF Listed
<1>3. QED BY <1>1, <1>2, GroupIs

\* However often the run was resumed, and whatever expired owners wrote beside
\* it, the groups that units are made of are the connected components of the
\* frozen census, for every census, posting limit, threshold and depth: a path
\* that is too long stops the run and leaves no wrong group.
THEOREM GroupsCorrect == Spec => []GroupsAreComponents
<1>1. Init => PlanInv /\ GroupInv
  BY PlanAssumption, PlanInit, GroupInit
<1>2. PlanInv /\ GroupInv /\ [Next]_vars => (PlanInv /\ GroupInv)'
  BY PlanAssumption, PlanNext, GroupNext
<1>3. PlanInv /\ GroupInv => GroupsAreComponents
  BY PlanAssumption, GroupsThen
<1>4. QED BY <1>1, <1>2, <1>3, PTL DEF Spec

-----------------------------------------------------------------------------
(* The rows of two workers *)

\* No group is too large for the depth that find goes to: joined by rank, a tree
\* of that depth has 2 ^ MaxDepth fibers.
GroupsFit == \A f \in Sources : Cardinality(Component[f]) < 2 ^ MaxDepth

LEMMA ShallowTrees ==
    ASSUME PlanAssumption, GroupsFit, RootTypes, NEW F \in Nat, JoinedBefore(F),
           NEW q \in Nat, q <= F, NEW f \in Sources
    PROVE  ~TooDeep(f, q)
<1>1. PICK rho : IsForest(rho, q)
  BY ForestExists
<1>. f \in Fibers /\ Sources \subseteq Fibers
  BY SourcesFinite
<1>2. ASSUME NEW g \in Class(rho, f) PROVE g \in Component[f]
  <2>1. g \in Fibers /\ rho[g] = rho[f]
    BY <1>2 DEF Class
  <2>2. rho[f] \in Component[f]
    BY <1>1 DEF IsForest
  <2>3. rho[f] \in Sources /\ Component[rho[f]] = Component[f]
    BY <2>2, ComponentSame
  <2>4. CASE g \in Sources
    <3>1. rho[g] \in Component[g]
      BY <1>1, <2>1, <2>4 DEF IsForest
    <3>2. Component[rho[g]] = Component[g]
      BY <2>4, <3>1, ComponentSame
    <3>3. g \in Component[g]
      BY <2>4, ComponentClosed
    <3>4. QED BY <2>1, <2>3, <3>2, <3>3
  <2>5. CASE g \notin Sources
    BY <1>1, <2>1, <2>3, <2>5 DEF IsForest
  <2>6. QED BY <2>4, <2>5
<1>3. IsFiniteSet(Component[f])
  <2>1. Component[f] \subseteq Sources
    BY ComponentClosed
  <2>2. QED BY <2>1, SourcesFinite, FS_Subset
<1>4. Class(rho, f) \subseteq Component[f]
  BY <1>2
<1>5. Cardinality(Class(rho, f)) <= Cardinality(Component[f])
  BY <1>3, <1>4, FS_Subset
<1>6. Cardinality(Class(rho, f)) \in Nat /\ Cardinality(Component[f]) \in Nat
  BY <1>3, ClassFinite, FS_CardinalityType
<1>7. Cardinality(Component[f]) < Pow2(MaxDepth) /\ Pow2(MaxDepth) \in Nat
  BY Pow2Equation DEF GroupsFit, PlanAssumption
<1>8. Cardinality(Class(rho, f)) < Pow2(MaxDepth)
  BY <1>5, <1>6, <1>7
<1>9. QED BY <1>1, <1>8, NotTooDeep

LEMMA JoinAtOne ==
    ASSUME NEW p, NEW q
    PROVE  /\ \A r, s \in JoinAt(p, q).parents : r = s
           /\ \A r, s \in JoinAt(p, q).ranks : r = s
BY DEF JoinAt, Joining, NoRows

\* A row that is there already is the one a worker is about to write.
LEMMA RowsAgree ==
    ASSUME PlanAssumption, RootTypes, NEW F \in Nat, JoinedBefore(F), NEW q \in Nat,
           NEW p \in Sources \X Sources, AtSimilar(p, q)
    PROVE  /\ \A r \in JoinAt(p, q).parents, s \in parents : s.seq = r.seq => s = r
           /\ \A r \in JoinAt(p, q).ranks, s \in ranks : s.seq = r.seq => s = r
<1>1. CASE q < F
  BY <1>1, RowsAt, JoinAtOne, JoinAtRows
<1>2. CASE q >= F
  <2>1. {r \in parents : r.seq = q} = {} /\ {r \in ranks : r.seq = q} = {}
    BY <1>2, RowsAt
  <2>2. QED BY <2>1, JoinAtRows
<1>3. QED BY <1>1, <1>2

LEMMA StageAgrees ==
    ASSUME PlanAssumption, PlanInv, NEW w \in Workers, PlanRowsAgree, StageFiber(w)
    PROVE  pc'[w] # "conflict"
<1> DEFINE k == copy[w].after + 1
<1>. /\ Inv /\ CensusInv /\ StageInv /\ pc \in [Workers -> Labels] /\ copy[w].after \in Nat
     /\ cands \subseteq [fiber : Fibers, sig : Nat]
  BY PlanInvFacts DEF CensusInv, PlanTypes
<1>. k \in Nat \ {0}
  OBVIOUS
<1>1. PICK f \in PageOf(k) :
        IF f \notin Sources THEN UNCHANGED pc
        ELSE (\A c \in cands : c.fiber = f => c = [fiber |-> f, sig |-> Staged(k)[f].edits]) => UNCHANGED pc
  BY DEF StageFiber
<1>2. ASSUME NEW c \in cands, c.fiber = f PROVE c = [fiber |-> f, sig |-> Staged(k)[f].edits]
  <2>1. PICK j \in 1 .. NFibers : f \in PageOf(j) /\ c.sig = Staged(j)[f].edits
    BY <1>2 DEF StageInv, CandsOK
  <2>2. j = k
    BY <2>1, PageOnly
  <2>3. c = [fiber |-> c.fiber, sig |-> c.sig]
    OBVIOUS
  <2>4. QED BY <1>2, <2>1, <2>2, <2>3
<1>3. QED BY <1>1, <1>2 DEF PlanRowsAgree

LEMMA PairsAgree ==
    ASSUME PlanAssumption, GroupsFit, PlanInv, GroupInv, NEW w \in Workers, PlanRowsAgree,
           ReadPair(w) \/ WriteUnion(w) \/ AddMember(w)
    PROVE  pc'[w] # "conflict"
<1>1. PICK F \in Nat : PairInv(F)
  BY DEF GroupInv
<1>. /\ Inv /\ CensusInv /\ StageInv /\ copy[w] \in Records /\ copy[w] \in Recs
     /\ pc \in [Workers -> Labels] /\ pos[w] \in Nat /\ copy[w].seq \in Nat
     /\ SeqRec(copy[w], F) /\ PairHand(w, F) /\ RootTypes /\ JoinedBefore(F)
  BY <1>1, PlanInvFacts DEF PairInv
<1>2. PICK q \in Nat : q = copy[w].seq + pos[w]
  OBVIOUS
<1>3. CASE ReadPair(w)
  <2>1. copy[w].phase = "pairs" /\ pc[w] = "next"
    BY <1>3 DEF ReadPair, InPhase
  <2>2. q <= F /\ Pairs(copy[w].after + 1) = SPairs(copy[w].after + 1)
    BY <1>2, <2>1, CandidatesAre DEF PairHand
  <2>3. PICK p \in SPairs(copy[w].after + 1) :
            pc' = pc \/ Goto(w, IF TooDeep(p[1], q) \/ TooDeep(p[2], q) THEN "conflict" ELSE "union")
    BY <1>2, <1>3, <2>2 DEF ReadPair
  <2>4. ~TooDeep(p[1], q) /\ ~TooDeep(p[2], q)
    BY <2>2, SPairsFinite, ShallowTrees
  <2>5. QED BY <2>1, <2>3, <2>4 DEF Goto
<1>4. CASE WriteUnion(w)
  <2>1. pc[w] = "union"
    BY <1>4 DEF WriteUnion
  <2>2. PICK p \in Sources \X Sources : AtSimilar(p, q) /\ joining[w] = JoinAt(p, q)
    BY <1>2, <2>1 DEF PairHand, Holds
  <2>3. /\ \A r \in joining[w].parents, s \in parents : s.seq = r.seq => s = r
        /\ \A r \in joining[w].ranks, s \in ranks : s.seq = r.seq => s = r
    BY <2>2, RowsAgree
  <2>4. Goto(w, "next")
    BY <1>4, <2>3 DEF WriteUnion
  <2>5. QED BY <2>4 DEF Goto
<1>5. CASE AddMember(w)
  <2>1. copy[w].phase = "members" /\ pc[w] = "next"
    BY <1>5 DEF AddMember, InPhase
  <2>2. copy[w].seq = Number /\ Number <= F /\ Candidates = Sources
    BY <2>1, CandidatesAre DEF SeqRec, AfterPairs
  <2>3. PICK f \in Sources : TooDeep(f, copy[w].seq) \/ pc' = pc
    BY <1>5, <2>2 DEF AddMember, Beyond
  <2>4. ~TooDeep(f, copy[w].seq)
    BY <2>2, ShallowTrees
  <2>5. QED BY <2>1, <2>3, <2>4
<1>6. QED BY <1>3, <1>4, <1>5

LEMMA AgreeNext ==
    ASSUME PlanAssumption, GroupsFit, PlanInv, GroupInv, PlanRowsAgree, [Next]_vars
    PROVE  PlanRowsAgree'
<1>. Inv /\ HandTypes /\ pc \in [Workers -> Labels]
  BY DEF PlanInv, CensusInv, Inv, TypesOK
<1>1. CASE UNCHANGED pc
  BY <1>1 DEF PlanRowsAgree
<1>2. ASSUME NEW w \in Workers, Step(w) \/ Open(w) \/ Stop(w) \/ AddFails(w), pc'[w] # "conflict"
      PROVE  PlanRowsAgree'
  BY <1>2, StepElsewhere DEF PlanRowsAgree, Elsewhere
<1>3. ASSUME NEW w \in Workers, StageFiber(w) \/ ReadPair(w) \/ WriteUnion(w) \/ AddMember(w)
      PROVE  PlanRowsAgree'
  BY <1>2, <1>3, StageAgrees, PairsAgree DEF Step
<1>4. ASSUME NEW w \in Workers,
             \/ Checkpoint(w) \/ ReadPage(w) \/ StagePage(w) \/ CensusEnds(w) \/ StageEnds(w)
             \/ PairsEnd(w) \/ MembersEnd(w)
             \/ Collect(w) \/ Replay(w) \/ Look(w) \/ Add(w) \/ Applied(w) \/ UnitsEnd(w) \/ Return(w)
             \/ Open(w) \/ Stop(w) \/ AddFails(w)
      PROVE  PlanRowsAgree'
  <2>1. pc' = pc \/ \E l \in Labels \ {"conflict"} : Goto(w, l)
    <3>. USE DEF SaveCopy, Save, Labels
    <3>1. CASE Checkpoint(w) \/ ReadPage(w) \/ StagePage(w) \/ CensusEnds(w)
      BY <3>1 DEF Checkpoint, ReadPage, StagePage, CensusEnds
    <3>2. CASE StageEnds(w) \/ PairsEnd(w) \/ MembersEnd(w)
      BY <3>2 DEF StageEnds, PairsEnd, MembersEnd
    <3>3. CASE Collect(w) \/ Replay(w)
      BY <3>3 DEF Collect, Replay
    <3>4. CASE Look(w) \/ Add(w) \/ Applied(w) \/ UnitsEnd(w)
      BY <3>4 DEF Look, Add, TakeBack, Applied, UnitsEnd
    <3>5. CASE Return(w) \/ Open(w) \/ Stop(w) \/ AddFails(w)
      BY <3>5 DEF Return, Open, Stop, AddFails, TakeBack
    <3>6. QED BY <1>4, <3>1, <3>2, <3>3, <3>4, <3>5
  <2>2. pc' = pc \/ pc'[w] # "conflict"
    BY <2>1 DEF Goto
  <2>3. QED BY <1>1, <1>2, <1>4, <2>2 DEF Step
<1>5. ASSUME Finished \/ (\E f \in Touched : Change(f)) \/ UNCHANGED vars
      PROVE  UNCHANGED pc
  BY <1>5 DEF Finished, Change, vars, worker
<1>6. QED BY <1>1, <1>3, <1>4, <1>5 DEF Next, Step

\* No worker ever finds a row of the plan that differs from its own, be it left
\* by a crashed worker or written by an expired owner beside it, nor a tree that
\* is deeper than find goes, as long as no group has 2 ^ MaxDepth fibers.
THEOREM RowsAlwaysAgree ==
    ASSUME GroupsFit
    PROVE  Spec => []PlanRowsAgree
<1>1. Init => PlanInv /\ GroupInv /\ PlanRowsAgree
  BY PlanAssumption, PlanInit, GroupInit DEF Init, PlanRowsAgree
<1>2. PlanInv /\ GroupInv /\ PlanRowsAgree /\ [Next]_vars => (PlanInv /\ GroupInv /\ PlanRowsAgree)'
  BY GroupsFit, PlanAssumption, PlanNext, GroupNext, AgreeNext
<1>3. QED BY <1>1, <1>2, PTL DEF Spec

-----------------------------------------------------------------------------
(* What the cursor of the units passes *)

Due(root) ==
    /\ Cardinality(Component[root]) >= MinSize
    /\ \A f \in Fibers : Covers[f] # Component[root]

DueRoot(root) == root \in Roots /\ Due(root)

\* every unit that is pending, being applied or written is due
SnapsOK ==
    /\ \A r \in Recs : \A s \in r.pending : DueRoot(s.root)
    /\ \A w \in Workers : \A s \in snap[w] : DueRoot(s.root)
    /\ \A b \in brain : DueRoot(b.root)

\* the last row of a summary, which nobody takes back
HasFiber(root) == \E s \in Snapshots : s.root = root /\ Written(s, NParts) \in brain

\* and whatever is due is written before the cursor passes it
CursorOK(r) == \A root \in Roots : Due(root) /\ Behind(r, root) => HasFiber(root)

DueInv ==
    /\ SnapsOK /\ CursorOK(rec)
    /\ \A w \in Workers : owner = w /\ pc[w] = "save" => CursorOK(goal[w])

LEMMA RootsGrow ==
    ASSUME Grows
    PROVE  Roots \subseteq Roots'
BY DEF Grows, Roots

LEMMA DueRootStays ==
    ASSUME Grows, NEW root, DueRoot(root)
    PROVE  DueRoot(root)'
BY RootsGrow DEF DueRoot, Due

\* Where some record is in the units, the groups are what they will be.
LEMMA RootsSame ==
    ASSUME PlanAssumption, PlanInv', GroupInv, GroupInv', Grows,
           NEW r \in Recs, r.phase = "units" \/ r.phase = "done"
    PROVE  Roots' = Roots
<1>1. CASE ~Enough
  <2>1. members' = {}
    BY <1>1 DEF GroupInv, MembersOK, Enough
  <2>2. QED BY <2>1, RootsGrow DEF Roots
<1>2. CASE Enough
  <2>1. \A f \in Sources : Listed(f)
    BY <1>2 DEF GroupInv, ListInv, MemberRec
  <2>2. SUFFICES ASSUME NEW m \in members' PROVE \E n \in members : n.root = m.root
    BY <2>2, RootsGrow DEF Roots
  <2>3. \A n \in members' : n.fiber \in Sources /\ n.root = Root(n.fiber, Number)'
    BY DEF GroupInv, MembersOK
  <2>4. PICK n \in members : n.fiber = m.fiber
    BY <2>1, <2>3 DEF Listed
  <2>5. n \in members'
    BY DEF Grows
  <2>6. QED BY <2>3, <2>4, <2>5
<1>3. QED BY <1>1, <1>2

\* No fiber of a summary is taken back.
FibersStay == \A root : HasFiber(root) => HasFiber(root)'

LEMMA FibersStayIf ==
    ASSUME brain \subseteq brain'
    PROVE  FibersStay
BY DEF FibersStay, HasFiber, Written

LEMMA CursorStays ==
    ASSUME PlanAssumption, PlanInv', GroupInv, GroupInv', Grows, FibersStay,
           NEW q \in Recs, NEW r, r = q, CursorOK(q)
    PROVE  CursorOK(r)'
<1>1. CASE q.phase = "units" \/ q.phase = "done"
  BY <1>1, RootsSame DEF CursorOK, Behind, Due, FibersStay
<1>2. CASE ~(q.phase = "units" \/ q.phase = "done")
  BY <1>2 DEF CursorOK, Behind
<1>3. QED BY <1>1, <1>2

\* The invariants that the units rest on, before and after a step.
Settled ==
    /\ PlanInv /\ PlanInv' /\ GroupInv /\ GroupInv' /\ Grows /\ DueInv

LEMMA DueFrame ==
    ASSUME PlanAssumption, Settled, NEW w \in Workers, Elsewhere(w),
           owner' \in {owner, w}, FibersStay,
           \A b \in brain' \ brain : DueRoot(b.root)',
           \A r \in Recs' \ Recs : \A s \in r.pending : DueRoot(s.root)',
           \A s \in snap'[w] : DueRoot(s.root)',
           rec' = rec \/ CursorOK(rec)',
           owner' = w /\ pc'[w] = "save" => CursorOK(goal[w])'
    PROVE  DueInv'
<1>1. SnapsOK'
  <2>1. ASSUME NEW v \in Workers, NEW s \in snap'[v] PROVE DueRoot(s.root)'
    <3>1. CASE v # w
      <4>1. DueRoot(s.root)
        BY <3>1 DEF Settled, DueInv, SnapsOK, Elsewhere
      <4>2. QED BY <4>1, DueRootStays DEF Settled
    <3>2. QED BY <3>1
  <2>2. ASSUME NEW r \in Recs', NEW s \in r.pending PROVE DueRoot(s.root)'
    BY DueRootStays DEF Settled, DueInv, SnapsOK
  <2>3. ASSUME NEW b \in brain' PROVE DueRoot(b.root)'
    BY DueRootStays DEF Settled, DueInv, SnapsOK
  <2>4. QED BY <2>1, <2>2, <2>3 DEF SnapsOK
<1>2. CursorOK(rec)'
  <2>1. CASE rec' = rec
    <3>1. PICK r : r = rec
      OBVIOUS
    <3>2. rec \in Recs /\ CursorOK(rec)
      BY DEF Settled, DueInv, Recs
    <3>3. CursorOK(r)'
      BY <3>1, <3>2, CursorStays DEF Settled
    <3>4. QED BY <2>1, <3>1, <3>3
  <2>2. QED BY <2>1
<1>3. ASSUME NEW v \in Workers, owner' = v, pc'[v] = "save" PROVE CursorOK(goal[v])'
  <2>1. CASE v # w
    <3>1. owner = v /\ pc[v] = "save" /\ goal'[v] = goal[v]
      BY <1>3, <2>1 DEF Elsewhere
    <3>2. PICK r : r = goal[v]
      OBVIOUS
    <3>3. goal[v] \in Recs /\ CursorOK(goal[v])
      BY <3>1 DEF Settled, DueInv, Recs
    <3>4. CursorOK(r)'
      BY <3>2, <3>3, CursorStays DEF Settled
    <3>5. QED BY <3>1, <3>2, <3>4
  <2>2. QED BY <1>3, <2>1
<1>4. QED BY <1>1, <1>2, <1>3 DEF DueInv

LEMMA SettledFacts ==
    ASSUME PlanAssumption, Settled, NEW w \in Workers
    PROVE  /\ Inv /\ Inv' /\ PlanInv /\ HandTypes
           /\ copy[w] \in Records /\ copy[w] \in Recs /\ pc \in [Workers -> Labels]
           /\ \A s \in copy[w].pending : DueRoot(s.root)
           /\ \A s \in snap[w] : DueRoot(s.root)
           /\ CursorOK(rec) /\ Good(rec)
           /\ OwnerOK(w) /\ WorkerOK(w)
BY PlanInvFacts DEF Settled, PlanInv, DueInv, SnapsOK, Inv

\* A step that leaves the records and the summaries alone.
LEMMA DueSame ==
    ASSUME PlanAssumption, Settled, NEW w \in Workers, Elsewhere(w),
           UNCHANGED <<owner, rec, brain, copy, goal, snap>>, pc'[w] # "save"
    PROVE  DueInv'
<1>1. Recs' = Recs
  BY DEF Recs
<1>2. \A s \in snap'[w] : DueRoot(s.root)'
  BY SettledFacts, DueRootStays DEF Settled
<1>3. QED BY <1>1, <1>2, FibersStayIf, DueFrame

\* The records that the phases before the units make.
LEMMA DueMakes ==
    ASSUME PlanAssumption, Settled, NEW w \in Workers, NEW r, SaveCopy(w, r),
           pc[w] \in {"next", "page"}, r.pending = copy[w].pending,
           copy[w].phase \notin {"units", "done"},
           r.phase = "done" => ~Enough, r.phase = "units" => r.after = 0
    PROVE  DueInv'
<1>. Inv /\ HandTypes /\ Good(rec) /\ OwnerOK(w)
  BY SettledFacts
<1>1. Makes(w, r) /\ UNCHANGED <<owner, rec, brain>> /\ snap' = [snap EXCEPT ![w] = {}]
  BY SaveCopyMakes DEF SaveCopy, Save, outside
<1>2. \A q \in Recs' \ Recs : q = r
  BY <1>1, MakesRecs
<1>3. \A s \in r.pending : DueRoot(s.root)'
  BY SettledFacts, DueRootStays DEF Settled
<1>4. snap'[w] = {} /\ goal'[w] = r
  BY <1>1 DEF Inv, TypesOK, Makes
<1>5. ASSUME owner' = w PROVE CursorOK(r)'
  <2>1. copy[w] = rec
    BY <1>1, <1>5 DEF OwnerOK, Off
  <2>2. r.pending = {}
    BY <2>1 DEF Good, PendingOK
  <2>3. r.phase = "done" => Roots' = {}
    <3>1. ~Enough => members' = {}
      BY DEF Settled, GroupInv, MembersOK, Enough
    <3>2. QED BY <3>1 DEF Roots
  <2>4. \A root \in Roots' : ~(root <= 0)
    BY DEF Roots, Fibers
  <2>5. QED BY <2>2, <2>3, <2>4 DEF CursorOK, Behind
<1>6. CursorOK(r)' /\ goal'[w] = r => CursorOK(goal[w])'
  BY DEF CursorOK, Behind, Due
<1>7. QED BY <1>1, <1>2, <1>3, <1>4, <1>5, <1>6, FibersStayIf, DueFrame DEF Makes

LEMMA DuePlanSteps ==
    ASSUME PlanAssumption, Settled, NEW w \in Workers,
           \/ ReadPage(w) \/ StagePage(w) \/ CensusEnds(w) \/ StageFiber(w) \/ StageEnds(w)
           \/ ReadPair(w) \/ WriteUnion(w) \/ PairsEnd(w) \/ AddMember(w) \/ MembersEnd(w)
    PROVE  DueInv'
<1>. Inv /\ HandTypes /\ copy[w] \in Records /\ pc \in [Workers -> Labels] /\ WorkerOK(w) /\ Elsewhere(w)
  BY SettledFacts, StepElsewhere DEF Step
<1>1. CASE ReadPage(w) \/ StageFiber(w) \/ ReadPair(w) \/ WriteUnion(w) \/ AddMember(w)
  <2>1. UNCHANGED <<owner, rec, brain, copy, goal, snap>>
    BY <1>1 DEF ReadPage, StageFiber, ReadPair, WriteUnion, AddMember, outside, hands
  <2>2. pc'[w] # "save"
    BY <1>1 DEF ReadPage, StageFiber, ReadPair, WriteUnion, AddMember, Goto, InPhase
  <2>3. QED BY <2>1, <2>2, DueSame
<1>2. CASE StagePage(w)
  <2>1. pc[w] = "page" /\ copy[w].phase = "census"
    BY <1>2 DEF StagePage, WorkerOK
  <2>2. CASE Goto(w, "refused") /\ UNCHANGED <<outside, brain, copy, hands>>
    <3>1. UNCHANGED <<owner, rec, brain, copy, goal, snap>> /\ pc'[w] # "save"
      BY <2>2 DEF outside, hands, Goto
    <3>2. QED BY <3>1, DueSame
  <2>3. ASSUME NEW r, r = [copy[w] EXCEPT !.after = copy[w].after + 1], SaveCopy(w, r) PROVE DueInv'
    <3>1. r.phase = "census" /\ r.pending = copy[w].pending
      BY <2>1, <2>3 DEF Records
    <3>2. QED BY <2>1, <2>3, <3>1, DueMakes
  <2>4. QED BY <1>2, <2>2, <2>3 DEF StagePage
<1>3. CASE CensusEnds(w)
  <2>1. PICK p : p = IF Cardinality(Sources) < MinSize THEN "done" ELSE "stage"
    OBVIOUS
  <2>2. PICK r : r = [copy[w] EXCEPT !.after = 0, !.phase = p]
    OBVIOUS
  <2>3. SaveCopy(w, r) /\ r.phase = p /\ r.pending = copy[w].pending
    BY <1>3, <2>1, <2>2 DEF CensusEnds, Records
  <2>4. p = "stage" \/ (p = "done" /\ ~Enough)
    BY <2>1, SourcesFinite DEF Enough, PlanAssumption
  <2>5. QED BY <1>3, <2>3, <2>4, DueMakes DEF CensusEnds, InPhase
<1>4. ASSUME NEW r, SaveCopy(w, r), InPhase(w, "stage") \/ InPhase(w, "pairs") \/ InPhase(w, "members"),
             r.pending = copy[w].pending,
             r.phase \in {"stage", "pairs", "members"} \/ (r.phase = "units" /\ r.after = 0)
      PROVE  DueInv'
  BY <1>4, DueMakes DEF InPhase
<1>5. CASE StageEnds(w)
  <2>1. PICK r : /\ SaveCopy(w, r)
                 /\ \/ r = [copy[w] EXCEPT !.after = @ + 1]
                    \/ r = [copy[w] EXCEPT !.phase = "pairs", !.after = 0]
    BY <1>5 DEF StageEnds
  <2>2. r.phase \in {"stage", "pairs"} /\ r.pending = copy[w].pending
    BY <1>5, <2>1 DEF Records, StageEnds, InPhase
  <2>3. QED BY <1>4, <1>5, <2>1, <2>2 DEF StageEnds
<1>6. CASE PairsEnd(w)
  <2>1. PICK r : /\ SaveCopy(w, r)
                 /\ \/ r = [copy[w] EXCEPT !.phase = "members", !.after = 0]
                    \/ \E n : r = NextTag(copy[w], n)
    BY <1>6 DEF PairsEnd
  <2>2. r.phase \in {"pairs", "members"} /\ r.pending = copy[w].pending
    BY <1>6, <2>1 DEF Records, NextTag, PairsEnd, InPhase
  <2>3. QED BY <1>4, <1>6, <2>1, <2>2 DEF PairsEnd
<1>7. CASE MembersEnd(w)
  <2>1. PICK r : /\ SaveCopy(w, r)
                 /\ \/ \E f : r = [copy[w] EXCEPT !.after = f]
                    \/ r = [copy[w] EXCEPT !.phase = "units", !.after = 0]
    BY <1>7 DEF MembersEnd
  <2>2. /\ r.pending = copy[w].pending
        /\ r.phase = "members" \/ (r.phase = "units" /\ r.after = 0)
    BY <1>7, <2>1 DEF Records, MembersEnd, InPhase
  <2>3. QED BY <1>4, <1>7, <2>1, <2>2 DEF MembersEnd
<1>8. QED BY <1>1, <1>2, <1>3, <1>5, <1>6, <1>7

\* In the units a group is worth a summary exactly if it is due.
LEMMA WorthwhileIsDue ==
    ASSUME PlanAssumption, PlanInv, GroupInv, NEW r \in Recs, r.phase = "units", NEW root \in Roots
    PROVE  Worthwhile(root) <=> Due(root)
<1>1. \A g \in Sources : Listed(g)
  BY DEF GroupInv, ListInv, MemberRec
<1>2. PICK m \in members : m.root = root
  BY DEF Roots
<1>3. PICK rho : IsForest(rho, Number) /\ \A n \in members : n.fiber \in Sources /\ n.root = rho[n.fiber]
  BY <1>2, MembersAre
<1>4. PICK f \in Sources : root = rho[f]
  BY <1>2, <1>3
<1>5. Group(root) = Component[root] /\ root \in Component[root]
  <2>1. rho[f] \in Sources /\ Group(rho[f]) = Component[f]
    BY <1>1, <1>3, GroupIs
  <2>2. rho[f] \in Component[f]
    BY <1>3, SourcesFinite DEF IsForest
  <2>3. Component[rho[f]] = Component[f]
    BY <2>2, ComponentSame
  <2>4. QED BY <1>4, <2>1, <2>2, <2>3
<1>6. ASSUME NEW f2 \in Fibers, Covers[f2] = Component[root] PROVE Component[root] \in markers
  <2>1. FiberStaged(f2)
    BY DEF PlanInv, StageInv, StageRec, AfterStage
  <2>2. QED BY <1>5, <1>6, <2>1 DEF FiberStaged
<1>7. Component[root] \in markers => \E f2 \in Fibers : Covers[f2] = Component[root]
  BY DEF PlanInv, StageInv, MarkersOK
<1>8. QED BY <1>5, <1>6, <1>7 DEF Worthwhile, Due

LEMMA DueCollect ==
    ASSUME PlanAssumption, Settled, NEW w \in Workers, Collect(w)
    PROVE  DueInv'
<1>. /\ Inv /\ PlanInv /\ HandTypes /\ copy[w] \in Records /\ copy[w] \in Recs /\ pc \in [Workers -> Labels]
     /\ OwnerOK(w) /\ CursorOK(rec) /\ Elsewhere(w) /\ GroupInv
  BY SettledFacts, StepElsewhere DEF Step, Settled
<1>1. /\ pc[w] = "next" /\ copy[w].phase = "units" /\ copy[w].pending = {}
      /\ UNCHANGED <<live, owner, rec, plan, brain, copy, pos, page, joining>>
  BY DEF Collect, InPhase, outside
<1>2. Roots' = Roots /\ Roots \subseteq Nat /\ copy[w].after \in Nat
  BY <1>1 DEF Roots, plan, Fibers, Records
<1>3. PICK root \in Roots :
        /\ root > copy[w].after /\ \A t \in Roots : t > copy[w].after => root <= t
        /\ \/ Goto(w, "refused") /\ UNCHANGED <<goal, snap>>
           \/ ~Worthwhile(root) /\ Save(w, [copy[w] EXCEPT !.after = root], {})
           \/ Worthwhile(root) /\ \E s : s.root = root /\ Save(w, Pending(w, s), {s})
  <2>1. PICK root \in Roots :
        /\ root > copy[w].after /\ \A t \in Roots : t > copy[w].after => root <= t
        /\ \/ Goto(w, "refused") /\ UNCHANGED <<goal, snap>>
           \/ ~Worthwhile(root) /\ Save(w, [copy[w] EXCEPT !.after = root], {})
           \/ Worthwhile(root) /\ \E i \in Fresh :
                Save(w, Pending(w, [root |-> root, id |-> i]), {[root |-> root, id |-> i]})
    BY DEF Collect, Beyond
  <2>2. \A i : [root |-> root, id |-> i].root = root
    OBVIOUS
  <2>3. QED BY <2>1, <2>2
<1>4. Worthwhile(root) <=> Due(root)
  BY <1>1, WorthwhileIsDue
<1>5. owner = w => copy[w] = rec
  BY <1>1 DEF OwnerOK, Off
<1>6. ASSUME NEW r, NEW u, Save(w, r, u), CursorOK(r) \/ owner # w,
             \A s \in r.pending : DueRoot(s.root), \A s \in u : DueRoot(s.root)
      PROVE  DueInv'
  <2>1. Makes(w, r)
    BY <1>1, <1>6, SaveMakes
  <2>2. snap'[w] = u /\ goal'[w] = r /\ \A q \in Recs' \ Recs : q = r
    BY <1>6, <2>1, MakesRecs DEF Save, Makes, Inv, TypesOK
  <2>3. CursorOK(r) => CursorOK(goal[w])'
    BY <1>1, <1>2, <2>2 DEF CursorOK, Behind, Due, HasFiber, Written
  <2>4. (\A s \in r.pending : DueRoot(s.root)') /\ (\A s \in u : DueRoot(s.root)')
    BY <1>6, DueRootStays DEF Settled
  <2>5. QED BY <1>1, <1>6, <2>2, <2>3, <2>4, FibersStayIf, DueFrame
<1>7. CASE Goto(w, "refused") /\ UNCHANGED <<goal, snap>>
  <2>1. pc'[w] # "save"
    BY <1>7 DEF Goto
  <2>2. QED BY <1>1, <1>7, <2>1, DueSame
<1>8. CASE ~Worthwhile(root) /\ Save(w, [copy[w] EXCEPT !.after = root], {})
  <2>1. PICK r : r = [copy[w] EXCEPT !.after = root]
    OBVIOUS
  <2>2. r.phase = "units" /\ r.after = root /\ r.pending = {}
    BY <1>1, <2>1 DEF Records
  <2>3. ASSUME owner = w PROVE CursorOK(r)
    <3>1. SUFFICES ASSUME NEW t \in Roots, Due(t), t <= root PROVE HasFiber(t)
      BY <2>2 DEF CursorOK, Behind
    <3>2. t # root
      BY <1>4, <1>8, <3>1
    <3>3. t <= copy[w].after
      BY <1>2, <1>3, <3>1, <3>2
    <3>4. QED BY <1>1, <1>5, <2>3, <3>1, <3>3 DEF CursorOK, Behind
  <2>4. QED BY <1>6, <1>8, <2>1, <2>2, <2>3
<1>9. ASSUME Worthwhile(root), NEW s, s.root = root, Save(w, Pending(w, s), {s}) PROVE DueInv'
  <2>1. PICK r : r = Pending(w, s)
    OBVIOUS
  <2>2. r.phase = "units" /\ r.after = afterGroup[w] /\ r.pending = {s}
    BY <1>1, <2>1 DEF Records, Pending
  <2>3. DueRoot(s.root)
    BY <1>4, <1>9 DEF DueRoot
  <2>4. ASSUME owner = w PROVE CursorOK(r)
    <3>1. afterGroup[w] \in Nat /\ afterGroup[w] <= copy[w].after
      BY <1>1, <1>5, <2>4 DEF OwnerOK, Off, AfterFits, Inv, TypesOK
    <3>2. SUFFICES ASSUME NEW t \in Roots, Due(t), Behind(r, t) PROVE HasFiber(t)
      BY DEF CursorOK
    <3>3. t <= afterGroup[w] \/ t < root
      BY <1>9, <2>2, <3>2 DEF Behind
    <3>4. t <= copy[w].after
      BY <1>2, <1>3, <3>1, <3>3
    <3>5. QED BY <1>1, <1>5, <2>4, <3>2, <3>4 DEF CursorOK, Behind
  <2>5. QED BY <1>6, <1>9, <2>1, <2>2, <2>3, <2>4
<1>10. QED BY <1>3, <1>7, <1>8, <1>9

LEMMA DueApplied ==
    ASSUME PlanAssumption, Settled, NEW w \in Workers, Applied(w)
    PROVE  DueInv'
<1>. /\ Inv /\ HandTypes /\ copy[w] \in Records /\ pc \in [Workers -> Labels]
     /\ OwnerOK(w) /\ WorkerOK(w) /\ CursorOK(rec) /\ Good(rec) /\ Elsewhere(w)
  BY SettledFacts, StepElsewhere DEF Step
<1>1. PICK s \in snap[w] : SaveCopy(w, [copy[w] EXCEPT !.after = s.root, !.pending = {}])
  BY DEF Applied
<1>2. PICK r : r = [copy[w] EXCEPT !.after = s.root, !.pending = {}]
  OBVIOUS
<1>3. r.phase = copy[w].phase /\ r.after = s.root /\ r.pending = {}
  BY <1>2 DEF Records
<1>4. /\ pc[w] = "apply" /\ pos[w] = NParts
      /\ Makes(w, r) /\ UNCHANGED <<owner, rec, brain, plan>> /\ snap' = [snap EXCEPT ![w] = {}]
  BY <1>1, <1>2, SaveCopyMakes DEF Applied, SaveCopy, Save, outside
<1>5. Roots' = Roots /\ Roots \subseteq Nat
  BY <1>4 DEF Roots, plan, Fibers
<1>6. ASSUME owner = w PROVE CursorOK(r)
  <2>1. copy[w] = rec /\ s \in rec.pending
    BY <1>1, <1>4, <1>6 DEF OwnerOK, Off
  <2>2. rec.phase = "units"
    BY <2>1 DEF Good, PendingOK
  <2>3. HasFiber(s.root)
    <3>1. NParts \in Nat /\ NParts >= 3
      BY NPartsType
    <3>2. s \in Snapshots /\ There(s, NParts)
      BY <1>1, <1>4, <3>1 DEF WorkerOK, Applying
    <3>3. ~Excused(s, NParts)
      BY <3>1 DEF Excused
    <3>4. QED BY <3>2, <3>3 DEF There, HasFiber
  <2>4. ASSUME NEW t \in Roots, Due(t), t <= s.root PROVE HasFiber(t)
    <3>1. s.root \in Nat
      BY <1>1 DEF Inv, TypesOK, Snapshots, Fibers
    <3>2. CASE t < s.root
      BY <2>1, <2>2, <2>4, <3>2 DEF CursorOK, Behind
    <3>3. CASE t = s.root
      BY <2>3, <3>3
    <3>4. QED BY <1>5, <2>4, <3>1, <3>2, <3>3
  <2>5. QED BY <1>3, <2>1, <2>2, <2>4 DEF CursorOK, Behind
<1>7. snap'[w] = {} /\ goal'[w] = r /\ \A q \in Recs' \ Recs : q = r
  BY <1>4, MakesRecs DEF Makes, Inv, TypesOK
<1>8. CursorOK(r) => CursorOK(goal[w])'
  BY <1>4, <1>5, <1>7 DEF CursorOK, Behind, Due, HasFiber, Written
<1>9. QED BY <1>3, <1>4, <1>6, <1>7, <1>8, FibersStayIf, DueFrame

LEMMA DueUnitsEnd ==
    ASSUME PlanAssumption, Settled, NEW w \in Workers, UnitsEnd(w)
    PROVE  DueInv'
<1>. /\ Inv /\ HandTypes /\ copy[w] \in Records /\ pc \in [Workers -> Labels]
     /\ OwnerOK(w) /\ CursorOK(rec) /\ Elsewhere(w)
  BY SettledFacts, StepElsewhere DEF Step
<1>1. PICK r : r = [copy[w] EXCEPT !.phase = "done"]
  OBVIOUS
<1>2. r.phase = "done" /\ r.pending = copy[w].pending
  BY <1>1 DEF Records
<1>3. /\ pc[w] = "next" /\ copy[w].phase = "units" /\ copy[w].pending = {}
      /\ Beyond(Roots, copy[w].after) = {}
      /\ Makes(w, r) /\ UNCHANGED <<owner, rec, brain, plan>> /\ snap' = [snap EXCEPT ![w] = {}]
  BY <1>1, SaveCopyMakes DEF UnitsEnd, InPhase, SaveCopy, Save, outside
<1>4. Roots' = Roots /\ Roots \subseteq Nat /\ copy[w].after \in Nat
  BY <1>3 DEF Roots, plan, Fibers, Records
<1>5. ASSUME owner = w PROVE CursorOK(r)
  <2>1. copy[w] = rec
    BY <1>3, <1>5 DEF OwnerOK, Off
  <2>2. \A t \in Roots : t <= rec.after
    <3>1. ASSUME NEW t \in Roots PROVE t <= rec.after
      <4>1. ~(t > rec.after)
        BY <1>3, <2>1 DEF Beyond
      <4>2. QED BY <1>4, <2>1, <4>1
    <3>2. QED BY <3>1
  <2>3. QED BY <1>2, <1>3, <2>1, <2>2 DEF CursorOK, Behind
<1>6. snap'[w] = {} /\ goal'[w] = r /\ \A q \in Recs' \ Recs : q = r
  BY <1>3, MakesRecs DEF Makes, Inv, TypesOK
<1>7. CursorOK(r) => CursorOK(goal[w])'
  BY <1>3, <1>4, <1>6 DEF CursorOK, Behind, Due, HasFiber, Written
<1>8. QED BY <1>2, <1>3, <1>5, <1>6, <1>7, FibersStayIf, DueFrame

\* The steps that make no record of their own.
LEMMA DueQuietSteps ==
    ASSUME PlanAssumption, Settled, NEW w \in Workers,
           \/ Open(w) \/ Stop(w) \/ Checkpoint(w) \/ Replay(w) \/ Look(w)
           \/ Add(w) \/ AddFails(w) \/ Return(w)
    PROVE  DueInv'
<1>. /\ Inv /\ HandTypes /\ copy[w] \in Records /\ pc \in [Workers -> Labels]
     /\ snap \in [Workers -> SUBSET Snapshots]
     /\ (\A s \in copy[w].pending : DueRoot(s.root)) /\ (\A s \in snap[w] : DueRoot(s.root))
  BY SettledFacts DEF Inv, TypesOK
<1>1. Recs' \subseteq Recs /\ Elsewhere(w)
  BY OpenQuiet, CheckpointQuiet, UnitQuiet DEF Quiet
<1>2. (\A s \in copy[w].pending : DueRoot(s.root)') /\ (\A s \in snap[w] : DueRoot(s.root)')
  BY DueRootStays DEF Settled
<1>3. CASE Open(w)
  <2>1. owner' = w /\ UNCHANGED <<rec, brain>> /\ pc'[w] = "next" /\ snap'[w] = {}
    BY <1>3 DEF Open, Goto
  <2>2. QED BY <1>1, <2>1, FibersStayIf, DueFrame
<1>4. CASE Stop(w) \/ Return(w)
  <2>1. UNCHANGED <<owner, rec, brain, copy, goal, snap>> /\ pc'[w] # "save"
    BY <1>4 DEF Stop, Return, Goto, hands, outside
  <2>2. QED BY <1>1, <2>1, DueSame
<1>5. CASE Checkpoint(w)
  <2>1. UNCHANGED <<owner, brain, snap, goal>> /\ pc[w] = "save" /\ pc'[w] # "save"
    BY <1>5 DEF Checkpoint, Goto, hands
  <2>2. rec' = rec \/ CursorOK(rec)'
    <3>1. CASE owner # w
      BY <1>5, <3>1 DEF Checkpoint
    <3>2. CASE owner = w
      <4>1. PICK r : r = goal[w]
        OBVIOUS
      <4>2. CursorOK(goal[w]) /\ goal[w] \in Recs
        BY <2>1, <3>2 DEF Settled, DueInv, Recs
      <4>3. CursorOK(r)'
        BY <2>1, <4>1, <4>2, CursorStays, FibersStayIf DEF Settled
      <4>4. rec' = r
        BY <1>5, <3>2, <4>1 DEF Checkpoint
      <4>5. QED BY <4>3, <4>4 DEF CursorOK, Behind
    <3>3. QED BY <3>1, <3>2
  <2>3. QED BY <1>1, <1>2, <2>1, <2>2, FibersStayIf, DueFrame
<1>6. CASE Replay(w)
  <2>1. /\ UNCHANGED <<owner, rec, brain>> /\ pc'[w] \in {"refused", "apply"}
        /\ \A s \in snap'[w] : s \in snap[w] \/ s \in copy[w].pending
    BY <1>6 DEF Replay, Goto, outside
  <2>2. QED BY <1>1, <1>2, <2>1, FibersStayIf, DueFrame
<1>7. CASE Look(w)
  <2>1. UNCHANGED <<owner, rec, brain, copy, goal, snap>> /\ pc'[w] # "save"
    BY <1>7 DEF Look, Goto, hands, outside
  <2>2. QED BY <1>1, <2>1, DueSame
<1>8. ASSUME UNCHANGED <<owner, rec, snap>>, pc'[w] # "save", NEW s \in snap[w], FibersStay,
             \A b \in brain' \ brain : b.root = s.root
      PROVE  DueInv'
  BY <1>1, <1>2, <1>8, DueFrame
<1>9. ASSUME NEW s \in snap[w], NEW rows, rows = brain \/ rows = brain \cup {Written(s, 2)},
             UNCHANGED <<owner, rec, snap>>, TakeBack(w, s, rows)
      PROVE  DueInv'
  <2>1. pc'[w] # "save" /\ brain' = rows \ {Written(s, n) : n \in (1 .. NParts - 1) \ {2}}
    BY <1>9 DEF TakeBack, Goto
  <2>2. FibersStay
    <3>1. ASSUME NEW root, HasFiber(root) PROVE HasFiber(root)'
      <4>1. PICK t \in Snapshots : t.root = root /\ Written(t, NParts) \in brain
        BY <3>1 DEF HasFiber
      <4>2. NParts \in Nat /\ NParts >= 3
        BY NPartsType
      <4>3. \A n \in (1 .. NParts - 1) \ {2} : Written(t, NParts) # Written(s, n)
        BY <4>2 DEF Written
      <4>4. Written(t, NParts) \in brain'
        BY <1>9, <2>1, <4>1, <4>3
      <4>5. QED BY <4>1, <4>4 DEF HasFiber, Written
    <3>2. QED BY <3>1 DEF FibersStay
  <2>3. \A b \in brain' \ brain : b.root = s.root
    BY <1>9, <2>1 DEF Written
  <2>4. QED BY <1>8, <1>9, <2>1, <2>2, <2>3
<1>10. CASE Add(w)
  <2>1. UNCHANGED <<owner, rec, snap>>
    BY <1>10 DEF Add, hands
  <2>2. PICK s \in snap[w] :
            \/ /\ brain' = brain \/ brain' = brain \cup {Written(s, pos[w] + 1)}
               /\ pc'[w] # "save"
            \/ TakeBack(w, s, brain)
    BY <1>10 DEF Add, Goto
  <2>3. CASE /\ brain' = brain \/ brain' = brain \cup {Written(s, pos[w] + 1)}
             /\ pc'[w] # "save"
    <3>1. \A b \in brain' \ brain : b.root = s.root
      BY <2>3 DEF Written
    <3>2. FibersStay
      BY <2>3, FibersStayIf
    <3>3. QED BY <1>8, <2>1, <2>3, <3>1, <3>2
  <2>4. QED BY <1>9, <2>1, <2>2, <2>3
<1>11. CASE AddFails(w)
  <2>1. UNCHANGED <<owner, rec, snap>>
    BY <1>11 DEF AddFails, hands
  <2>2. PICK s \in snap[w] : \E state \in SUBSET {Written(s, 2)} : TakeBack(w, s, brain \cup state)
    BY <1>11 DEF AddFails
  <2>3. PICK state \in SUBSET {Written(s, 2)} : TakeBack(w, s, brain \cup state)
    BY <2>2
  <2>4. brain \cup state = brain \/ brain \cup state = brain \cup {Written(s, 2)}
    OBVIOUS
  <2>5. QED BY <1>9, <2>1, <2>3, <2>4
<1>12. QED BY <1>3, <1>4, <1>5, <1>6, <1>7, <1>10, <1>11

LEMMA DueNext ==
    ASSUME PlanAssumption, Settled, [Next]_vars
    PROVE  DueInv'
<1>1. CASE UNCHANGED <<owner, rec, plan, brain, worker>>
  <2>1. /\ UNCHANGED <<owner, rec, brain, pc, goal, snap>> /\ Roots' = Roots /\ Recs' = Recs
    BY <1>1 DEF plan, worker, hands, Roots, Recs
  <2>2. QED BY <2>1 DEF Settled, DueInv, SnapsOK, DueRoot, Due, CursorOK, Behind, HasFiber, Written
<1>2. CASE Finished \/ (\E f \in Touched : Change(f)) \/ UNCHANGED vars
  BY <1>1, <1>2 DEF Finished, Change, vars, outside
<1>3. QED BY <1>2, DuePlanSteps, DueCollect, DueApplied, DueUnitsEnd, DueQuietSteps DEF Next, Step

LEMMA DueInit ==
    ASSUME PlanAssumption, Init
    PROVE  DueInv
<1>1. \A r \in Recs : r.pending = {}
  BY DEF Init, Recs
<1>2. brain = {} /\ Roots = {} /\ rec.pending = {}
  BY DEF Init, Roots
<1>3. \A w \in Workers : snap[w] = {} /\ pc[w] = "off"
  BY DEF Init
<1>4. QED BY <1>1, <1>2, <1>3 DEF DueInv, SnapsOK, CursorOK

\* The cursor passes a group with a summary exactly if the group, which is a
\* whole component of the census, is large enough and no earlier run has
\* summarised it: no group is lost between a crash and the resumed run.
THEOREM DueGroupsAreSummarised == Spec => []DueGroupsOnly
<1>1. Init => PlanInv /\ GroupInv /\ DueInv
  BY PlanAssumption, PlanInit, GroupInit, DueInit
<1>2. PlanInv /\ GroupInv /\ DueInv /\ [Next]_vars => (PlanInv /\ GroupInv /\ DueInv)'
  <2> SUFFICES ASSUME PlanInv, GroupInv, DueInv, [Next]_vars PROVE (PlanInv /\ GroupInv /\ DueInv)'
    OBVIOUS
  <2>1. PlanInv' /\ GroupInv'
    BY PlanAssumption, PlanNext, GroupNext
  <2>2. Settled
    BY <2>1, PlanAssumption, GrowsNext DEF Settled, PlanInv
  <2>3. QED BY <2>1, <2>2, PlanAssumption, DueNext
<1>3. DueInv => DueGroupsOnly
  <2> SUFFICES ASSUME DueInv, NEW root \in Roots, Committed(root)
               PROVE  (\E b \in brain : b.root = root) <=> Due(root)
    BY DEF DueGroupsOnly, Due
  <2>1. ASSUME NEW b \in brain, b.root = root PROVE Due(root)
    BY <2>1 DEF DueInv, SnapsOK, DueRoot
  <2>2. ASSUME Due(root) PROVE \E b \in brain : b.root = root
    <3>1. Behind(rec, root)
      BY DEF Committed, Behind
    <3>2. PICK s \in Snapshots : s.root = root /\ Written(s, NParts) \in brain
      BY <2>2, <3>1 DEF DueInv, CursorOK, HasFiber
    <3>3. Written(s, NParts).root = root
      BY <3>2 DEF Written
    <3>4. QED BY <3>2, <3>3
  <2>3. QED BY <2>1, <2>2
<1>4. QED BY <1>1, <1>2, <1>3, PTL DEF Spec
=============================================================================
