---------------------------- MODULE SummarizePlan ----------------------------
(***************************************************************************)
(* The durable plan of the summarize strategy: the frozen fiber census,    *)
(* the immutable union-find of engine/consolidation_group_plan.py and the  *)
(* units of _summarize_durable (engine/consolidation.py).                  *)
(*                                                                         *)
(* One run; workers open it one after the other. A worker that lost its    *)
(* lease goes on until its next checkpoint, beside its successor, and its  *)
(* plan rows and graph writes land where the successor's do. A step is one *)
(* query, or a batch of rows.                                              *)
(***************************************************************************)
EXTENDS Integers, FiniteSets

CONSTANTS
    Workers, NoWorker,
    NFibers,      \* fibers are 1 .. NFibers, in the order of their ids
    NTags,        \* so are tags
    Tags,         \* Tags[f]: the tags of f
    Covers,       \* Covers[f]: the sources of f where f is a summary of an earlier run, or {}
    PageSize,     \* rows of a census page, and of a page of members
    PostingLimit, \* a tag with more fibers than this connects none of them
    Num, Den,     \* tag_overlap_threshold is Num / Den
    MinSize,      \* summarize_min_cluster_size
    MaxDepth,     \* _MAX_UNION_DEPTH
    NSynapses,    \* synapses of a summary, at most 10
    SnapshotIds,  \* fresh identifiers, uuid4
    Touched,      \* bound: the fibers that users edit or recall
    MaxChanges,   \* bound on edits and recalls
    MaxFailures,  \* bound on inserts of a state row that fail
    MaxFaults     \* bound on crashes, pauses, stalls and lost acknowledgements

Fibers == 1 .. NFibers

ASSUME PlanAssumption ==
    /\ NoWorker \notin Workers
    /\ NFibers \in Nat /\ NTags \in Nat
    /\ Tags \in [Fibers -> SUBSET (1 .. NTags)]
    /\ Covers \in [Fibers -> SUBSET Fibers]
    /\ PageSize \in Nat \ {0} /\ PostingLimit \in Nat /\ MaxDepth \in Nat \ {0}
    /\ Num \in Nat /\ Den \in Nat \ {0} /\ MinSize \in Nat \ {0} /\ NSynapses \in Nat
    /\ Touched \subseteq Fibers /\ MaxChanges \in Nat /\ MaxFailures \in Nat /\ MaxFaults \in Nat

VARIABLES
    live,     \* live[f]: how often the fiber row was edited, and how often recalled
    owner,    \* whose checkpoints the run record accepts
    rec,      \* the strategy's state in the run record
    census,   \* census[k]: page k as staged, if it is
    cands,    \* candidate rows, each with its source signature
    markers,  \* existing_summary rows: the clusters that have a summary
    parents,  \* parent rows: [child, seq, up]
    ranks,    \* rank rows: [of, seq, rank]
    members,  \* member rows: [root, fiber]
    brain,    \* the rows of summaries that were written: [root, id, part]
    pc, copy, pos,  \* of each worker; copy is its copy of rec
    page, joining, goal, snap,  \* what it read or is about to write, save or apply
    afterGroup,  \* of each worker: after_group, which its loop over the groups does not move
    torn,     \* history: summaries whose add_neuron was interrupted between its inserts
    undone,   \* history: summaries of which add_neuron removed rows others count on
    changes, failures, faults

plan == <<census, cands, markers, parents, ranks, members>>
hands == <<page, joining, goal, snap, afterGroup>>
worker == <<pc, copy, pos, hands>>
history == <<torn, undone>>
outside == <<live, owner, rec, changes, failures, faults, history>>
vars == <<outside, plan, brain, worker>>

\* The rows of a summary, in the order they are written: its neuron, the state
\* row of the neuron, its synapses, its fiber.
NParts == NSynapses + 3

NoRows == [parents |-> {}, ranks |-> {}]

Init ==
    /\ live = [f \in Fibers |-> [edits |-> 0, recalls |-> 0]]
    /\ owner = NoWorker
    /\ rec = [phase |-> "census", after |-> 0, seq |-> 0, pending |-> {}]
    /\ census = [k \in 1 .. NFibers |-> {}]
    /\ cands = {} /\ markers = {} /\ parents = {} /\ ranks = {} /\ members = {}
    /\ brain = {}
    /\ pc = [w \in Workers |-> "off"]
    /\ copy = [w \in Workers |-> rec]
    /\ pos = [w \in Workers |-> 0]
    /\ page = [w \in Workers |-> {}]
    /\ joining = [w \in Workers |-> NoRows]
    /\ goal = [w \in Workers |-> rec]
    /\ snap = [w \in Workers |-> {}]
    /\ afterGroup = [w \in Workers |-> 0]
    /\ torn = {} /\ undone = {} /\ changes = 0 /\ failures = 0 /\ faults = 0

Fault == faults < MaxFaults /\ faults' = faults + 1

\* a worker that ended, of itself or by an exception of one of two kinds
Off(w) == pc[w] \in {"off", "refused", "conflict"}

Goto(w, l) == pc' = [pc EXCEPT ![w] = l]
Advance(w) == pos' = [pos EXCEPT ![w] = @ + 1]

-----------------------------------------------------------------------------
(* Around the strategy: the run record, the lease, the users. *)

\* open(): the record is claimed and read, its lease being free or expired
Open(w) ==
    /\ Off(w) /\ rec.phase # "done"
    /\ IF owner = NoWorker \/ Off(owner) THEN UNCHANGED faults ELSE Fault
    /\ owner' = w
    /\ copy' = [copy EXCEPT ![w] = rec]
    /\ pos' = [pos EXCEPT ![w] = 0]
    /\ page' = [page EXCEPT ![w] = {}]
    /\ joining' = [joining EXCEPT ![w] = NoRows]
    /\ goal' = [goal EXCEPT ![w] = rec]
    /\ snap' = [snap EXCEPT ![w] = {}]
    /\ afterGroup' = [afterGroup EXCEPT ![w] = IF rec.phase = "units" THEN rec.after ELSE 0]
    /\ Goto(w, "next")
    /\ UNCHANGED <<live, rec, plan, brain, history, changes, failures>>

\* add_neuron has inserted the neuron and not yet its state row
Between(w, s) == pc[w] = "add" /\ pos[w] = 1 /\ snap[w] = {s}

\* crash, cancellation, budget pause, or a query that fails
Stop(w) ==
    /\ ~Off(w) /\ Fault
    /\ Goto(w, "off")
    /\ torn' = torn \cup {s.id : s \in {t \in snap[w] : Between(w, t)}}
    /\ UNCHANGED <<live, owner, rec, plan, brain, copy, pos, hands, undone, changes, failures>>

\* The fiber row changes: by an edit, which changes its source signature too,
\* or by a recall, which changes the statistics of the row only.
Change(f) ==
    /\ changes < MaxChanges /\ changes' = changes + 1
    /\ \/ live' = [live EXCEPT ![f].edits = @ + 1]
       \/ live' = [live EXCEPT ![f].recalls = @ + 1]
    /\ UNCHANGED <<owner, rec, plan, brain, worker, history, failures, faults>>

\* _checkpoint_progress is a step of its own, prepared with Save
Save(w, r, s) ==
    /\ Goto(w, "save")
    /\ goal' = [goal EXCEPT ![w] = r]
    /\ snap' = [snap EXCEPT ![w] = s]

SaveCopy(w, r) ==
    /\ Save(w, r, {})
    /\ UNCHANGED <<outside, brain, copy, pos, page, joining, afterGroup>>

\* A fenced save raises; so does one whose acknowledgement is lost.
Checkpoint(w) ==
    /\ pc[w] = "save"
    /\ pos' = [pos EXCEPT ![w] = 0]
    /\ UNCHANGED <<live, owner, plan, brain, hands, history, changes, failures>>
    /\ IF owner # w
       THEN Goto(w, "off") /\ UNCHANGED <<rec, copy, faults>>
       ELSE /\ rec' = goal[w]
            /\ copy' = [copy EXCEPT ![w] = goal[w]]
            /\ \/ Goto(w, IF snap[w] = {} THEN "next" ELSE "apply") /\ UNCHANGED faults
               \/ Goto(w, "off") /\ Fault

InPhase(w, phase) == pc[w] = "next" /\ copy[w].phase = phase

-----------------------------------------------------------------------------
(* _iter_fiber_census_pages *)

PageOf(k) == {f \in Fibers : (k - 1) * PageSize < f /\ f <= k * PageSize}

ReadPage(w) ==
    /\ InPhase(w, "census")
    /\ PageOf(copy[w].after + 1) # {}
    /\ page' = [page EXCEPT ![w] = {[f \in PageOf(copy[w].after + 1) |-> live[f]]}]
    /\ Goto(w, "page")
    /\ UNCHANGED <<outside, plan, brain, copy, pos, joining, goal, snap, afterGroup>>

Agrees_none(row, new) == row = {}
\* create_immutable_row: an existing row must be the same
Agrees(row, new) == row = {} \/ row = new

StagePage(w) ==
    /\ pc[w] = "page"
    /\ UNCHANGED <<cands, markers, parents, ranks, members>>
    /\ LET k == copy[w].after + 1 IN
        IF Agrees(census[k], page[w])
        THEN /\ census' = [census EXCEPT ![k] = page[w]]
             /\ SaveCopy(w, [copy[w] EXCEPT !.after = k])
        ELSE /\ Goto(w, "refused")
             /\ UNCHANGED <<outside, census, brain, copy, pos, hands>>

\* what a summary can be made of: no summary, and with tags
Sources == {f \in Fibers : Covers[f] = {} /\ Tags[f] # {}}

\* The completion marker, and an end where there are too few sources. A record
\* that was not saved after the marker leads here again.
CensusEnds(w) ==
    /\ InPhase(w, "census") /\ PageOf(copy[w].after + 1) = {}
    /\ SaveCopy(w, [copy[w] EXCEPT !.after = 0,
                       !.phase = IF Cardinality(Sources) < MinSize THEN "done" ELSE "stage"])
    /\ UNCHANGED plan

-----------------------------------------------------------------------------
(* Staging of candidates and postings, from the frozen pages *)

Staged(k) == CHOOSE rows \in census[k] : TRUE
Before(S, x) == {y \in S : y < x}
Beyond(S, x) == {y \in S : y > x}

StageFiber(w) ==
    /\ InPhase(w, "stage")
    /\ LET k == copy[w].after + 1 IN
        \E f \in PageOf(k) :
            LET row == [fiber |-> f, sig |-> Staged(k)[f].edits] IN
            /\ Cardinality(Before(PageOf(k), f)) = pos[w]
            /\ markers' = IF Covers[f] = {} THEN markers ELSE markers \cup {Covers[f]}
            /\ IF f \notin Sources
               THEN cands' = cands /\ Advance(w) /\ UNCHANGED pc
               ELSE IF \A c \in cands : c.fiber = f => c = row
               THEN cands' = cands \cup {row} /\ Advance(w) /\ UNCHANGED pc
               ELSE cands' = cands /\ Goto(w, "conflict") /\ UNCHANGED pos
    /\ UNCHANGED <<outside, census, parents, ranks, members, brain, copy, hands>>

StageEnds(w) ==
    /\ InPhase(w, "stage")
    /\ LET fibers == PageOf(copy[w].after + 1) IN
        /\ pos[w] = Cardinality(fibers)
        /\ SaveCopy(w, IF fibers # {} THEN [copy[w] EXCEPT !.after = @ + 1]
                       ELSE [copy[w] EXCEPT !.phase = "pairs", !.after = 0])
    /\ UNCHANGED plan

-----------------------------------------------------------------------------
(* Pairs of similar candidates, joined in an append-only union-find *)

Candidates == {c.fiber : c \in cands}

Posting(tag) == {f \in Candidates : tag \in Tags[f]}

Pairs(tag) ==
    IF Cardinality(Posting(tag)) > PostingLimit THEN {}
    ELSE {p \in Posting(tag) \X Posting(tag) : p[1] < p[2]}

Earlier(p, q) == p[1] < q[1] \/ (p[1] = q[1] /\ p[2] < q[2])

Similar(f, g) ==
    Den * Cardinality(Tags[f] \cap Tags[g]) >= Num * Cardinality(Tags[f] \cup Tags[g])

\* _latest_event: the newest row of f among those before seq
Newest(rows) == {r \in rows : \A s \in rows : s.seq <= r.seq}
Up(seq) ==
    [f \in Fibers |->
        LET rows == Newest({r \in parents : r.child = f /\ r.seq < seq})
        IN IF rows = {} THEN f ELSE (CHOOSE r \in rows : TRUE).up]
Rank(f, seq) ==
    LET rows == Newest({r \in ranks : r.of = f /\ r.seq < seq})
    IN IF rows = {} THEN 0 ELSE (CHOOSE r \in rows : TRUE).rank

\* find: as far as its loop goes, which must be a root
Root(f, seq) ==
    LET path[n \in 0 .. MaxDepth - 1] == IF n = 0 THEN f ELSE Up(seq)[path[n - 1]]
    IN path[MaxDepth - 1]
TooDeep(f, seq) == Up(seq)[Root(f, seq)] # Root(f, seq)

\* which of two roots becomes the child
GoesBelow(f, g, seq) ==
    Rank(f, seq) < Rank(g, seq) \/ (Rank(f, seq) = Rank(g, seq) /\ f > g)

\* the rows that join the roots f and g at seq
Joining(f, g, seq) ==
    LET child == IF GoesBelow(f, g, seq) THEN f ELSE g
        root == IF GoesBelow(f, g, seq) THEN g ELSE f
    IN [parents |-> {[child |-> child, seq |-> seq, up |-> root]},
        ranks |-> IF Rank(f, seq) = Rank(g, seq)
                  THEN {[of |-> root, seq |-> seq, rank |-> Rank(root, seq) + 1]} ELSE {}]

\* union joins what it finds for the two candidates
Joined_leaf(f, seq) == f
Joined(f, seq) == Root(f, seq)

ReadPair(w) ==
    /\ InPhase(w, "pairs") /\ copy[w].after < NTags
    /\ LET tag == copy[w].after + 1
           seq == copy[w].seq + pos[w]
       IN \E p \in Pairs(tag) :
            /\ Cardinality({q \in Pairs(tag) : Earlier(q, p)}) = pos[w]
            /\ IF ~Similar(p[1], p[2])
               THEN Advance(w) /\ UNCHANGED <<pc, joining>>
               ELSE \E f \in {Joined(p[1], seq)}, g \in {Joined(p[2], seq)} :
                /\ UNCHANGED pos
                /\ joining' = [joining EXCEPT ![w] = IF f = g THEN NoRows ELSE Joining(f, g, seq)]
                /\ Goto(w, IF TooDeep(p[1], seq) \/ TooDeep(p[2], seq) THEN "conflict" ELSE "union")
    /\ UNCHANGED <<outside, plan, brain, copy, page, goal, snap, afterGroup>>

\* _create_many: one transaction, an existing row must be the same
WriteUnion(w) ==
    /\ pc[w] = "union"
    /\ IF /\ \A r \in joining[w].parents, s \in parents : s.child = r.child /\ s.seq = r.seq => s = r
          /\ \A r \in joining[w].ranks, s \in ranks : s.of = r.of /\ s.seq = r.seq => s = r
       THEN /\ parents' = parents \cup joining[w].parents
            /\ ranks' = ranks \cup joining[w].ranks
            /\ Advance(w) /\ Goto(w, "next")
       ELSE Goto(w, "conflict") /\ UNCHANGED <<parents, ranks, pos>>
    /\ UNCHANGED <<outside, census, cands, markers, members, brain, copy, hands>>

NextTag_restarts(r, n) == [r EXCEPT !.after = @ + 1]
\* the checkpoint behind a tag with n pairs; one nobody has counts as without pairs
NextTag(r, n) == [r EXCEPT !.after = @ + 1, !.seq = @ + n]

PairsEnd(w) ==
    /\ InPhase(w, "pairs")
    /\ IF copy[w].after = NTags
       THEN SaveCopy(w, [copy[w] EXCEPT !.phase = "members", !.after = 0])
       ELSE LET n == Cardinality(Pairs(copy[w].after + 1)) IN
            pos[w] = n /\ SaveCopy(w, NextTag(copy[w], n))
    /\ UNCHANGED plan

-----------------------------------------------------------------------------
(* Members of the groups *)

AddMember(w) ==
    /\ InPhase(w, "members")
    /\ pos[w] < PageSize
    /\ LET rest == Beyond(Candidates, copy[w].after)
           seq == copy[w].seq
       IN \E f \in rest :
            /\ Cardinality(Before(rest, f)) = pos[w]
            /\ IF TooDeep(f, seq)
               THEN Goto(w, "conflict") /\ UNCHANGED <<members, pos>>
               ELSE /\ members' = members \cup {[root |-> Root(f, seq), fiber |-> f]}
                    /\ Advance(w) /\ UNCHANGED pc
    /\ UNCHANGED <<outside, census, cands, markers, parents, ranks, brain, copy, hands>>

MembersEnd(w) ==
    /\ InPhase(w, "members")
    /\ LET rest == Beyond(Candidates, copy[w].after) IN
        \/ \E f \in rest :
            /\ pos[w] = PageSize /\ Cardinality(Before(rest, f)) = PageSize - 1
            /\ SaveCopy(w, [copy[w] EXCEPT !.after = f])
        \/ /\ pos[w] = Cardinality(rest) /\ pos[w] < PageSize
           /\ SaveCopy(w, [copy[w] EXCEPT !.phase = "units", !.after = 0])
    /\ UNCHANGED plan

-----------------------------------------------------------------------------
(* One summary for each group *)

Roots == {r \in Fibers : \E m \in members : m.root = r}
Group(root) == {m.fiber : m \in {n \in members : n.root = root}}

\* collect_group compares each member with its candidate row
Changed(root) == \E c \in cands : c.fiber \in Group(root) /\ live[c.fiber].edits # c.sig

Worthwhile_again(root) == Cardinality(Group(root)) >= MinSize
\* large enough, and not what an earlier run has summarised
Worthwhile(root) == Cardinality(Group(root)) >= MinSize /\ Group(root) \notin markers

Used ==
    {b.id : b \in brain} \cup {s.id : s \in rec.pending}
      \cup UNION {{s.id : s \in copy[w].pending \cup snap[w]} : w \in Workers}
\* any unused identifier is as good as the next
Fresh == {CHOOSE i \in SnapshotIds : i \notin Used} \cap (SnapshotIds \ Used)

Pending_none(w, s) == [copy[w] EXCEPT !.after = afterGroup[w], !.pending = {}]
\* The unit is written down before its effects, with a cursor that goes back to
\* where the loop over the groups began.
Pending(w, s) == [copy[w] EXCEPT !.after = afterGroup[w], !.pending = {s}]

Collect(w) ==
    /\ InPhase(w, "units") /\ copy[w].pending = {}
    /\ \E root \in Beyond(Roots, copy[w].after) :
        /\ \A r \in Beyond(Roots, copy[w].after) : root <= r
        /\ IF Changed(root) THEN Goto(w, "refused") /\ UNCHANGED <<goal, snap>>
           ELSE IF ~Worthwhile(root) THEN Save(w, [copy[w] EXCEPT !.after = root], {})
           ELSE \E i \in Fresh :
                LET s == [root |-> root, id |-> i] IN Save(w, Pending(w, s), {s})
    /\ UNCHANGED <<outside, plan, brain, copy, pos, page, joining, afterGroup>>

\* replay_pending
Replay(w) ==
    /\ InPhase(w, "units") /\ copy[w].pending # {}
    /\ IF \E s \in copy[w].pending : Changed(s.root)
       THEN Goto(w, "refused") /\ UNCHANGED <<pos, snap, afterGroup>>
       ELSE \E s \in copy[w].pending :
            /\ Goto(w, "apply")
            /\ pos' = [pos EXCEPT ![w] = 0]
            /\ snap' = [snap EXCEPT ![w] = {s}]
            /\ afterGroup' = [afterGroup EXCEPT ![w] = s.root]
    /\ UNCHANGED <<outside, plan, brain, copy, page, joining, goal>>

Written_swapped(s, n) == [root |-> s.id, id |-> s.root, part |-> n]
Written(s, n) == [root |-> s.root, id |-> s.id, part |-> n]

Look_once(w) ==
    /\ pc[w] = "apply" /\ pos[w] < NParts
    /\ \E s \in snap[w] :
        IF Written(s, 1) \in brain /\ pos[w] = 0 THEN pos' = [pos EXCEPT ![w] = NParts] /\ UNCHANGED pc
        ELSE Goto(w, "add") /\ UNCHANGED pos
    /\ UNCHANGED <<outside, plan, brain, copy, hands>>
\* apply_snapshot: what is there already is left alone; nobody asks for the
\* state row of a neuron that is there
Look(w) ==
    /\ pc[w] = "apply" /\ pos[w] < NParts
    /\ \E s \in snap[w] :
        IF Written(s, pos[w] + 1) \in brain
        THEN pos' = [pos EXCEPT ![w] = IF @ = 0 THEN 2 ELSE @ + 1] /\ UNCHANGED pc
        ELSE Goto(w, "add") /\ UNCHANGED pos
    /\ UNCHANGED <<outside, plan, brain, copy, hands>>

\* Another worker counts on the rows of s, or the run record has left s behind.
CountedOn(w, s) ==
    s \notin rec.pending \/ \E v \in Workers \ {w} : ~Off(v) /\ s \in copy[v].pending

\* add_neuron removes the neuron whose state row it could not insert, and the
\* database removes the edges of the neuron with it
TakeBack(w, s, rows) ==
    /\ Goto(w, "off")
    /\ brain' = rows \ {Written(s, n) : n \in (1 .. NParts - 1) \ {2}}
    /\ undone' = IF CountedOn(w, s) THEN undone \cup {s.id} ELSE undone
    /\ UNCHANGED <<torn, pos>>

\* The insert of an id that exists by now raises.
Add(w) ==
    /\ pc[w] = "add"
    /\ \E s \in snap[w] :
        \/ /\ Written(s, pos[w] + 1) \notin brain
           /\ brain' = brain \cup {Written(s, pos[w] + 1)}
           /\ Advance(w) /\ Goto(w, IF pos[w] = 0 THEN "add" ELSE "apply")
           /\ UNCHANGED history
        \/ /\ Written(s, pos[w] + 1) \in brain /\ pos[w] = 1
           /\ TakeBack(w, s, brain)
        \/ /\ Written(s, pos[w] + 1) \in brain /\ pos[w] # 1
           /\ Goto(w, "off") /\ UNCHANGED <<brain, pos, history>>
    /\ UNCHANGED <<live, owner, rec, plan, copy, hands, changes, failures, faults>>

\* The insert of the state row fails, or its answer is lost.
AddFails(w) ==
    /\ failures < MaxFailures /\ failures' = failures + 1
    /\ \E s \in snap[w] :
        /\ Between(w, s)
        /\ \E state \in SUBSET {Written(s, 2)} : TakeBack(w, s, brain \cup state)
    /\ UNCHANGED <<live, owner, rec, plan, copy, hands, changes, faults>>

Applied(w) ==
    /\ pc[w] = "apply" /\ pos[w] = NParts
    /\ \E s \in snap[w] : SaveCopy(w, [copy[w] EXCEPT !.after = s.root, !.pending = {}])
    /\ UNCHANGED plan

UnitsEnd(w) ==
    /\ InPhase(w, "units") /\ copy[w].pending = {}
    /\ Beyond(Roots, copy[w].after) = {}
    /\ SaveCopy(w, [copy[w] EXCEPT !.phase = "done"])
    /\ UNCHANGED plan

\* the handler returns
Return(w) ==
    /\ InPhase(w, "done")
    /\ Goto(w, "off")
    /\ UNCHANGED <<outside, plan, brain, copy, pos, hands>>

-----------------------------------------------------------------------------
Step(w) ==
    \/ Checkpoint(w)
    \/ ReadPage(w) \/ StagePage(w) \/ CensusEnds(w)
    \/ StageFiber(w) \/ StageEnds(w)
    \/ ReadPair(w) \/ WriteUnion(w) \/ PairsEnd(w)
    \/ AddMember(w) \/ MembersEnd(w)
    \/ Collect(w) \/ Replay(w) \/ Look(w) \/ Add(w) \/ Applied(w) \/ UnitsEnd(w) \/ Return(w)

Finished == rec.phase = "done" /\ (\A w \in Workers : Off(w)) /\ UNCHANGED vars

Next ==
    \/ \E w \in Workers : Open(w) \/ Step(w) \/ Stop(w) \/ AddFails(w)
    \/ \E f \in Touched : Change(f)
    \/ Finished

Spec == Init /\ [][Next]_vars

\* A live worker goes on, and an unfinished run is opened again.
FairSpec ==
    /\ Spec
    /\ \A w \in Workers : WF_vars(Step(w))
    /\ WF_vars(\E w \in Workers : (owner = NoWorker \/ Off(owner)) /\ Open(w))

-----------------------------------------------------------------------------
(* Properties *)

Snapshots == [root : Fibers, id : SnapshotIds]
Records == [phase : {"census", "stage", "pairs", "members", "units", "done"},
            after : Nat, seq : Nat, pending : SUBSET Snapshots]
IsPage(rows, k) == rows \in [PageOf(k) -> [edits : Nat, recalls : Nat]]
ParentRows == [child : Fibers, seq : Nat, up : Fibers]
RankRows == [of : Fibers, seq : Nat, rank : Nat]

\* The run record, the plan and what each worker holds have their types.
TypeOK ==
    /\ live \in [Fibers -> [edits : Nat, recalls : Nat]]
    /\ owner \in Workers \cup {NoWorker}
    /\ rec \in Records /\ copy \in [Workers -> Records]
    /\ \A k \in 1 .. NFibers : \A rows \in census[k] : IsPage(rows, k)
    /\ cands \subseteq [fiber : Fibers, sig : Nat] /\ markers \subseteq SUBSET Fibers
    /\ parents \subseteq ParentRows /\ ranks \subseteq RankRows
    /\ members \subseteq [root : Fibers, fiber : Fibers]
    /\ brain \subseteq [root : Fibers, id : SnapshotIds, part : 1 .. NParts]
    /\ pc \in [Workers -> {"off", "refused", "conflict", "next", "page", "save", "union", "apply", "add"}]
    /\ pos \in [Workers -> Nat]
    /\ snap \in [Workers -> SUBSET Snapshots]
    /\ afterGroup \in [Workers -> Nat] /\ torn \subseteq SnapshotIds /\ undone \subseteq SnapshotIds
    /\ \A w \in Workers :
        /\ goal[w] \in Records
        /\ pc[w] = "page" => \A rows \in page[w] : IsPage(rows, copy[w].after + 1)
        /\ joining[w] \in [parents : SUBSET ParentRows, ranks : SUBSET RankRows]
        /\ pc[w] \in {"apply", "add"} => Cardinality(snap[w]) = 1 /\ pos[w] <= NParts

\* Rows are content-verified on duplicate creates, so that an expired lease
\* owner can only leave the rows that its successor would write: no worker ever
\* finds a row of the plan that differs from its own (_create_many), nor a tree
\* deeper than find goes.
PlanRowsAgree == \A w \in Workers : pc[w] # "conflict"

\* The reference: two sources are linked by a tag that is not too common for
\* its posting to be read, and groups are what links connect.
Linked(f, g) ==
    /\ Similar(f, g)
    /\ \E t \in Tags[f] \cap Tags[g] : Cardinality({h \in Sources : t \in Tags[h]}) <= PostingLimit

Component ==
    [f \in Sources |->
        {g \in Sources : \A S \in SUBSET Sources :
            (f \in S /\ \A x \in S, y \in Sources : Linked(x, y) => y \in S) => g \in S}]

\* However often the run was resumed, and whatever expired owners wrote beside
\* it, the groups that units are made of are the connected components of the
\* frozen census: each source is in one group, with what it is connected to.
GroupsAreComponents ==
    rec.phase = "units" =>
        \A f \in Sources : \E root \in Sources :
            /\ {m \in members : m.fiber = f} = {[root |-> root, fiber |-> f]}
            /\ Group(root) = Component[f]

\* No group gets a second summary, neither by a replay after a crash nor by an
\* expired owner that goes on writing beside its successor.
SummaryOnce == \A a, b \in brain : a.root = b.root => a.id = b.id

\* the units the run record has left behind
Committed(root) == rec.phase = "done" \/ (rec.phase = "units" /\ root <= rec.after)

\* What may be missing of a summary: the state row of its neuron, where its
\* worker ended between the two inserts of add_neuron or is still between them;
\* all but the fiber, where add_neuron removed the neuron again although another
\* worker counted on it.
Excused(s, n) ==
    \/ n = 2 /\ (s.id \in torn \/ \E w \in Workers : Between(w, s))
    \/ n < NParts /\ s.id \in undone

\* The cursor passes no summary of which a row is missing, but for those that
\* no replay looks for.
NoPartialSummary ==
    \A b \in brain : Committed(b.root) =>
        \E s \in {[root |-> b.root, id |-> b.id]} :
            \A n \in 1 .. NParts : Written(s, n) \in brain \/ Excused(s, n)

\* The cursor passes a group with a summary exactly if the group is large enough
\* and no earlier run has summarised it.
DueGroupsOnly ==
    \A root \in Roots : Committed(root) =>
        ((\E b \in brain : b.root = root)
            <=> /\ Cardinality(Component[root]) >= MinSize
                /\ \A f \in Fibers : Covers[f] # Component[root])

\* a state row is there without its neuron, or with one that is about to be removed
Stuck(s) ==
    Written(s, 2) \in brain /\ (Written(s, 1) \notin brain \/ \E w \in Workers : Between(w, s))

\* What makes a resumed run refuse: a row of the page that is being staged
\* differs from the one staged before the crash, be it by a recall, a source
\* was edited after its page was staged, or a state row is left of a neuron that
\* add_neuron removed, and no replay can insert it again.
Hindered ==
    \/ rec.phase = "census" /\ \E k \in 1 .. NFibers :
        /\ k = rec.after + 1 /\ census[k] # {}
        /\ \E f \in PageOf(k) : Staged(k)[f] # live[f]
    \/ \E k \in 1 .. NFibers, f \in Sources :
        /\ f \in PageOf(k) /\ census[k] # {}
        /\ Staged(k)[f].edits # live[f].edits
    \/ \E s \in rec.pending : Stuck(s)

\* The run ends, unless such a change is in its way for good.
EndsUnlessHindered == <>(rec.phase = "done") \/ <>[]Hindered
=============================================================================
