----------------------------- MODULE DeviceSync -----------------------------
(***************************************************************************)
(* Multi-device sync over the change log: the devices' SurrealDB stores    *)
(* with their change_log and device row (storage/surrealdb/store.py), the  *)
(* smem_sync call (mcp/sync_handler.py, sync/sync_engine.py) and the       *)
(* Cloudflare hub (sync-hub/src/routes/sync.ts, db/queries.ts).            *)
(*                                                                         *)
(* A client is a process on a device that writes to the device's store and *)
(* runs one smem_sync call at a time; several clients may share a device.  *)
(* Every query of a store or of the hub is one step.                       *)
(*                                                                         *)
(* One brain. The hub's change_log.id is the index in hub: the hub deletes *)
(* no change. All brains of the hub take their ids from one counter, so an *)
(* index may also be taken up by a change of another brain (Foreign).      *)
(***************************************************************************)
EXTENDS Integers, Sequences, FiniteSets

CONSTANTS
    Clients,     \* processes that write and sync
    Devices,
    DeviceOf,    \* DeviceOf[c]: the device client c runs on
    Entities,    \* neurons, synapses or fibers
    PushLimit,   \* limit of get_unsynced_changes
    HubCap,      \* changes the hub keeps of one request
    PageLimit,   \* changes the hub returns at most
    Elsewhere,   \* stands for the devices of other brains
    MaxRows,     \* MaxRows[d]: bound on the rows device d ever logs
    MaxHub,      \* bound on the hub's log
    MaxFaults    \* bound on failures and restarts

ASSUME SyncAssumption ==
    /\ DeviceOf \in [Clients -> Devices]
    /\ PushLimit \in Nat /\ HubCap \in Nat /\ PageLimit \in Nat
    /\ Elsewhere \notin Devices
    /\ MaxRows \in [Devices -> Nat] /\ MaxHub \in Nat /\ MaxFaults \in Nat

VARIABLES
    has,        \* has[d]: entities in d's store
    log,        \* log[d]: the rows of d's change_log
    written,    \* written[d]: rows d has logged so far (names the rows)
    nextSeq,    \* nextSeq[c]: _change_seq of the process
    mark,       \* mark[d]: last_sync_sequence of d's device row, or NoRow
    attempted,  \* attempted[c]: _self_registration_attempted of the process
    hub,        \* the hub's change_log
    ex,         \* ex[c]: the smem_sync call of c
    seen,       \* history: seen[d], hub changes handed to d's apply loop
    skipped,    \* history: skipped[d], what the answers that moved d's position
                \* had left out
    faults

history == <<seen, skipped>>
vars == <<has, log, written, nextSeq, mark, attempted, hub, ex, history, faults>>

NoRow == -1
Ops == {"insert", "update", "delete"}

Rows ==
    [id : Nat, seq : Nat, ent : Entities, op : Ops, synced : BOOLEAN]
OwnRows == [dev : Devices, id : Nat, ent : Entities, op : Ops]
Foreign == [dev |-> Elsewhere]
HubRows == OwnRows \cup {Foreign}

HubSteps == {"append", "read", "max"}
ClientSteps == {"collect", "apply", "watermark"}

Calls ==
    [pc      : {"idle"} \cup HubSteps \cup ClientSteps,
     waiting : BOOLEAN,            \* the client still waits for the answer
     since   : Nat,                \* request.last_sequence, until it is used
     rows    : Seq(Rows),          \* request.changes, until they are kept
     todo    : SUBSET Nat,         \* response.changes not yet applied
     top     : Nat,                \* response.hub_sequence
     missed  : SUBSET Nat]         \* history: what the answer leaves out

Idle == [pc |-> "idle", waiting |-> FALSE, since |-> 0, rows |-> <<>>,
         todo |-> {}, top |-> 0, missed |-> {}]

TypeOK ==
    /\ has \in [Devices -> SUBSET Entities]
    /\ log \in [Devices -> SUBSET Rows]
    /\ written \in [Devices -> Nat]
    /\ nextSeq \in [Clients -> Nat]
    /\ mark \in [Devices -> {NoRow} \cup 0 .. Len(hub)]
    /\ attempted \in [Clients -> BOOLEAN]
    /\ hub \in Seq(HubRows)
    /\ ex \in [Clients -> Calls]
    /\ seen \in [Devices -> SUBSET (1 .. Len(hub))]
    /\ skipped \in [Devices -> SUBSET (1 .. Len(hub))]
    /\ faults \in 0 .. MaxFaults

Init ==
    /\ has = [d \in Devices |-> {}]
    /\ log = [d \in Devices |-> {}]
    /\ written = [d \in Devices |-> 0]
    /\ nextSeq = [c \in Clients |-> 0]
    /\ mark = [d \in Devices |-> NoRow]
    /\ attempted = [c \in Clients |-> FALSE]
    /\ hub = <<>>
    /\ ex = [c \in Clients |-> Idle]
    /\ seen = [d \in Devices |-> {}]
    /\ skipped = [d \in Devices |-> {}]
    /\ faults = 0

Min2(a, b) == IF a <= b THEN a ELSE b
Fault == faults < MaxFaults /\ faults' = faults + 1
Become(c, x) == ex' = [ex EXCEPT ![c] = x]
To(c, pc) == [ex[c] EXCEPT !.pc = pc]

-----------------------------------------------------------------------------
(* The device's store *)

Pending(d) == {r \in log[d] : ~r.synced}

NewRow(c, e, op) ==
    [id |-> written[DeviceOf[c]] + 1, seq |-> nextSeq[c] + 1, ent |-> e,
     op |-> op, synced |-> FALSE]

\* _record_change_internal: the insert may fail, and the entity's write stands.
\* The users of a device stop at its bound MaxRows; a remote delete that comes
\* later is not logged.
Record(c, e, op) ==
    LET d == DeviceOf[c] IN
    \/ /\ written[d] < MaxRows[d]
       /\ nextSeq' = [nextSeq EXCEPT ![c] = @ + 1]
       /\ written' = [written EXCEPT ![d] = @ + 1]
       /\ log' = [log EXCEPT ![d] = @ \cup {NewRow(c, e, op)}]
       /\ UNCHANGED faults
    \/ /\ Fault
       /\ nextSeq' = [nextSeq EXCEPT ![c] = @ + 1]
       /\ UNCHANGED <<log, written>>
    \/ /\ written[d] >= MaxRows[d]
       /\ UNCHANGED <<log, written, nextSeq, faults>>

InUse(c) == written[DeviceOf[c]] < MaxRows[DeviceOf[c]]

\* add_neuron, add_synapse, add_fiber, and their update_ counterparts.
Write(c, e) ==
    LET d == DeviceOf[c] IN
    /\ InUse(c)
    /\ has' = [has EXCEPT ![d] = @ \cup {e}]
    /\ Record(c, e, IF e \in has[d] THEN "update" ELSE "insert")
    /\ UNCHANGED <<mark, attempted, hub, ex, history>>

\* A user's delete_neuron and so on; callers look the entity up first.
Delete(c, e) ==
    LET d == DeviceOf[c] IN
    /\ InUse(c)
    /\ e \in has[d]
    /\ has' = [has EXCEPT ![d] = @ \ {e}]
    /\ Record(c, e, "delete")
    /\ UNCHANGED <<mark, attempted, hub, ex, history>>

\* seed_change_log: an insert row for each entity that has none in the log, one
\* record_change after the other; one that fails ends the seeding.
Unlogged(d) ==
    {e \in has[d] : \A r \in log[d] : ~(r.ent = e /\ r.op = "insert")}

Seed(c) ==
    /\ InUse(c)
    /\ \E e \in Unlogged(DeviceOf[c]) : Record(c, e, "insert")
    /\ UNCHANGED <<has, mark, attempted, hub, ex, history>>

\* prune_synced_changes: the delivered rows up to some age.
Prune(c) ==
    LET d == DeviceOf[c] IN
    \E n \in 1 .. written[d] :
        LET old == {r \in log[d] : r.synced /\ r.id <= n} IN
        /\ old # {}
        /\ log' = [log EXCEPT ![d] = @ \ old]
        /\ UNCHANGED <<has, written, nextSeq, mark, attempted, hub, ex, history, faults>>

\* collapse_pending_updates, run to exhaustion as the consolidation does.
Updates(d) == {r \in Pending(d) : r.op = "update"}
Superseded(d) ==
    {r \in Updates(d) : \E q \in Updates(d) : q.ent = r.ent /\ q.seq > r.seq}

Collapse(c) ==
    LET d == DeviceOf[c] IN
    /\ Superseded(d) # {}
    /\ log' = [log EXCEPT ![d] = @ \ Superseded(d)]
    /\ UNCHANGED <<has, written, nextSeq, mark, attempted, hub, ex, history, faults>>

-----------------------------------------------------------------------------
(* The smem_sync call: the client's side before the request *)

\* prepare_sync_request: get_device. A device that is not found, or whose
\* lookup fails, is registered once per process; registering writes position 0
\* also over an existing row. Lookup and registration may fail and do not stop
\* the call.
Registered_atEnd(c) == IF attempted[c] THEN mark[DeviceOf[c]] ELSE Len(hub)
Registered(c) == IF attempted[c] THEN mark[DeviceOf[c]] ELSE 0

Begin(c) ==
    LET d == DeviceOf[c]
        call(n) == [Idle EXCEPT !.pc = "collect", !.since = n] IN
    /\ ex[c].pc = "idle"
    /\ \/ /\ mark[d] # NoRow
          /\ Become(c, call(mark[d]))
          /\ UNCHANGED <<mark, attempted, faults>>
       \/ /\ mark[d] = NoRow /\ UNCHANGED faults
          /\ mark' = [mark EXCEPT ![d] = Registered(c)]
          /\ attempted' = [attempted EXCEPT ![c] = TRUE]
          /\ Become(c, call(0))
       \/ /\ Fault
          /\ \E n \in {mark[d], Registered(c)} : mark' = [mark EXCEPT ![d] = n]
          /\ attempted' = [attempted EXCEPT ![c] = TRUE]
          /\ Become(c, call(0))
    /\ UNCHANGED <<has, log, written, nextSeq, hub, history>>

\* ORDER BY sequence ASC LIMIT n: rows with equal sequences in any order.
FirstBySeq(S, n) ==
    {q \in UNION {[1 .. k -> S] : k \in 0 .. n} :
        /\ \A i, j \in DOMAIN q : i < j => q[i] # q[j] /\ q[i].seq <= q[j].seq
        /\ \A r \in S :
              \/ \E i \in DOMAIN q : q[i] = r
              \/ Len(q) = n /\ \A i \in DOMAIN q : q[i].seq <= r.seq}

\* get_unsynced_changes, and the POST.
Collect(c) ==
    /\ ex[c].pc = "collect"
    /\ \E q \in FirstBySeq(Pending(DeviceOf[c]), PushLimit) :
        Become(c, [ex[c] EXCEPT !.pc = "append", !.waiting = TRUE, !.rows = q])
    /\ UNCHANGED <<has, log, written, nextSeq, mark, attempted, hub, history, faults>>

-----------------------------------------------------------------------------
(* The hub's handler. The row of the devices table that it updates last is  *)
(* shown to users and read by no request.                                   *)

\* capChanges, and insertChanges: one D1 batch. A hub at the bound MaxHub
\* keeps less.
Kept(q) ==
    [i \in 1 .. Min2(Min2(HubCap, Len(q)), MaxHub - Len(hub)) |-> q[i]]

\* Requests overlap: what is appended while another one is between its two
\* queries is missing in that one's answer.
HubAppend(c) ==
    LET q == Kept(ex[c].rows) IN
    /\ ex[c].pc = "append"
    /\ hub' = hub \o [i \in 1 .. Len(q) |->
          [dev |-> DeviceOf[c], id |-> q[i].id, ent |-> q[i].ent, op |-> q[i].op]]
    /\ ex' = [b \in Clients |->
          IF b = c THEN [ex[c] EXCEPT !.pc = "read", !.rows = <<>>]
          ELSE IF ex[b].pc = "max"
          THEN [ex[b] EXCEPT !.missed = @ \cup (Len(hub) + 1 .. Len(hub) + Len(q))]
          ELSE ex[b]]
    /\ UNCHANGED <<has, log, written, nextSeq, mark, attempted, history, faults>>

\* A change of another brain takes the next id.
OtherBrain ==
    /\ Len(hub) < MaxHub
    /\ hub' = Append(hub, Foreign)
    /\ UNCHANGED <<has, log, written, nextSeq, mark, attempted, ex, history, faults>>

\* getChangesSince: WHERE brain_id = ? AND id > ? AND device_id != ?
\* ORDER BY id ASC LIMIT ?
Others(d, lo, hi) == {i \in lo + 1 .. hi : hub[i].dev \notin {d, Elsewhere}}
Unseen_offByOne(c) == Others(DeviceOf[c], ex[c].since + 1, Len(hub))
Unseen(c) == Others(DeviceOf[c], ex[c].since, Len(hub))
FirstPage(S, n) == {i \in S : Cardinality({j \in S : j < i}) < n}

HubRead(c) ==
    LET page == FirstPage(Unseen(c), PageLimit) IN
    /\ ex[c].pc = "read"
    /\ Become(c, [ex[c] EXCEPT !.pc = "max", !.since = 0,
          !.todo = page, !.missed = Unseen(c) \ page])
    /\ UNCHANGED <<has, log, written, nextSeq, mark, attempted, hub, history, faults>>

\* SELECT MAX(id) ... WHERE brain_id = ?, and 0 if there is none.
OfBrain == {i \in 1 .. Len(hub) : hub[i].dev # Elsewhere}
MaxId_next == Len(hub) + 1
MaxId == CHOOSE m \in OfBrain \cup {0} : \A i \in OfBrain : i <= m

\* getMaxSequence, and the answer, which a client that gave up does not get.
HubMax(c) ==
    /\ ex[c].pc = "max"
    /\ Become(c, IF ex[c].waiting
                 THEN [ex[c] EXCEPT !.pc = "apply", !.top = MaxId] ELSE Idle)
    /\ UNCHANGED <<has, log, written, nextSeq, mark, attempted, hub, history, faults>>

-----------------------------------------------------------------------------
(* process_sync_response *)

\* _apply_remote_change. A delete removes the entity, if it is there, through
\* the store's own delete, which logs it. An insert or update has no effect:
\* the payload that _change_payload logged has no id (neurons, synapses; a
\* KeyError that is swallowed) or is empty (fibers and seeded rows).
ApplyFirst(c, i) ==
    LET d == DeviceOf[c] IN
    /\ ex[c].pc = "apply"
    /\ i \in ex[c].todo /\ \A j \in ex[c].todo : i <= j
    /\ Become(c, [ex[c] EXCEPT !.todo = @ \ {i}])
    /\ seen' = [seen EXCEPT ![d] = @ \cup {i}]
    /\ \/ /\ hub[i].op = "delete" /\ hub[i].dev # d
          /\ has' = [has EXCEPT ![d] = @ \ {hub[i].ent}]
          /\ Record(c, hub[i].ent, "delete")
       \/ /\ hub[i].op # "delete" \/ hub[i].dev = d
          /\ UNCHANGED <<has, log, written, nextSeq, faults>>
       \/ /\ Fault                       \* any error: the loop goes on
          /\ UNCHANGED <<has, log, written, nextSeq>>
    /\ UNCHANGED <<mark, attempted, hub, skipped>>

Apply(c) == \E i \in ex[c].todo : ApplyFirst(c, i)

Marked(S, n) == {IF r.seq <= n THEN [r EXCEPT !.synced = TRUE] ELSE r : r \in S}

\* mark_synced(hub_sequence) on the local rows; the update of a row may fail.
MarkSynced(c) ==
    LET d == DeviceOf[c] IN
    /\ ex[c].pc = "apply" /\ ex[c].todo = {}
    /\ Become(c, IF ex[c].top > 0 THEN To(c, "watermark") ELSE Idle)
    /\ \/ /\ log' = [log EXCEPT ![d] = Marked(@, ex[c].top)]
          /\ UNCHANGED faults
       \/ /\ Fault
          /\ \E S \in SUBSET log[d] :
                log' = [log EXCEPT ![d] = Marked(S, ex[c].top) \cup (@ \ S)]
    /\ UNCHANGED <<has, written, nextSeq, mark, attempted, hub, history>>

\* update_device_sync; a missing device row stays missing.
SetWatermark(c) ==
    LET d == DeviceOf[c] IN
    /\ ex[c].pc = "watermark"
    /\ Become(c, Idle)
    /\ \/ /\ mark' = [mark EXCEPT ![d] = IF @ = NoRow THEN NoRow ELSE ex[c].top]
          /\ skipped' = [skipped EXCEPT ![d] = @ \cup ex[c].missed]
          /\ UNCHANGED faults
       \/ Fault /\ UNCHANGED <<mark, skipped>>
    /\ UNCHANGED <<has, log, written, nextSeq, attempted, hub, seen>>

-----------------------------------------------------------------------------
(* Failures *)

\* The 30 s timeout, or the connection: the request may still be on its way.
GiveUp(c) ==
    /\ Fault
    /\ ex[c].pc \in HubSteps /\ ex[c].waiting
    /\ Become(c, [ex[c] EXCEPT !.waiting = FALSE])
    /\ UNCHANGED <<has, log, written, nextSeq, mark, attempted, hub, history>>

\* The request is lost, the hub answers with an error at some query, the
\* answer is lost, or the client's call raises.
CallFails(c) ==
    /\ Fault
    /\ ex[c].pc # "idle"
    /\ Become(c, Idle)
    /\ UNCHANGED <<has, log, written, nextSeq, mark, attempted, hub, history>>

\* The process is restarted; a request it has sent goes on at the hub.
Restart(c) ==
    /\ Fault
    /\ nextSeq' = [nextSeq EXCEPT ![c] = 0]
    /\ attempted' = [attempted EXCEPT ![c] = FALSE]
    /\ Become(c, IF ex[c].pc \in HubSteps
                 THEN [ex[c] EXCEPT !.waiting = FALSE] ELSE Idle)
    /\ UNCHANGED <<has, log, written, mark, hub, history>>

-----------------------------------------------------------------------------
Sync(c) ==
    \/ Begin(c) \/ Collect(c)
    \/ HubAppend(c) \/ HubRead(c) \/ HubMax(c)
    \/ Apply(c) \/ MarkSynced(c) \/ SetWatermark(c)

Next ==
    \/ \E c \in Clients :
        \/ \E e \in Entities : Write(c, e) \/ Delete(c, e)
        \/ Seed(c) \/ Prune(c) \/ Collapse(c)
        \/ Sync(c)
        \/ GiveUp(c) \/ CallFails(c) \/ Restart(c)
    \/ OtherBrain

Spec == Init /\ [][Next]_vars

\* Each device keeps calling smem_sync, and a call that is under way goes on.
FairSpec == Spec /\ \A c \in Clients : WF_vars(Sync(c))

-----------------------------------------------------------------------------
(* Properties *)

\* The position a device keeps covers what it was given: every change of the
\* other devices up to its watermark has gone through its apply loop, whatever
\* answers were lost, failed half-way, came late or in another order than they
\* were asked for. The exceptions are the two ways the hub's handler has to
\* leave a change out of an answer: it lies behind the end of the page, or came
\* between the query for the unseen changes and the one for their maximum.
NothingElseSkipped ==
    \A d \in Devices : Others(d, 0, mark[d]) \subseteq seen[d] \cup skipped[d]

\* A change that reaches the hub reaches every other device that keeps syncing,
\* or is skipped in one of these two ways.
EveryChangeReaches ==
    \A n \in 1 .. MaxHub :
        Len(hub) >= n
            ~> (/\ Len(hub) >= n
                /\ \A d \in Devices : Others(d, 0, n) \subseteq seen[d] \cup skipped[d])

\* Without the exceptions: the hub returns all "unseen changes" to a device
\* (sync-hub/src/routes/sync.ts:4).
NothingSkipped ==
    \A d \in Devices : Others(d, 0, mark[d]) \subseteq seen[d]

\* A row marked synced is at the hub (storage/surrealdb/store.py, of the log
\* that sync replays: "nothing is dropped or coalesced").
AtHub(d, r) == \E i \in OfBrain : hub[i].dev = d /\ hub[i].id = r.id
SyncedWasDelivered ==
    \A d \in Devices : \A r \in log[d] : r.synced => AtHub(d, r)

\* A memory inserted on one device, never deleted, is on every device that has
\* gone through the change (docs/guides/cloud-sync.md: "Your memories are now
\* synced across devices").
MemoriesArrive ==
    \A d \in Devices : \A i \in seen[d] :
        (hub[i].op = "insert"
            /\ \A j \in Devices : \A r \in log[j] : ~(r.op = "delete" /\ r.ent = hub[i].ent))
        => hub[i].ent \in has[d]
=============================================================================
