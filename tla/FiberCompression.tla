-------------------------- MODULE FiberCompression --------------------------
(***************************************************************************)
(* Compression of fibers and its reversal: compress_fiber, its replay of a *)
(* prepared intent, decompress_fiber and recover_fiber of                  *)
(* engine/compression.py, as driven by the compress strategy of            *)
(* engine/consolidation.py and by the recover command.                     *)
(*                                                                         *)
(* A fiber is a set of neurons with an anchor; fibers share neurons. Tiers *)
(* 1 and 2 replace the anchor's text and back the fiber's text up first;   *)
(* tier 3 does the same and tier 4 empties every neuron, after a snapshot  *)
(* of each neuron. Each write of the store is one step, and the process    *)
(* may die between any two.                                                *)
(***************************************************************************)
EXTENDS Integers

CONSTANTS
    Fibers, Neurons,
    Members,     \* Members[f]: fiber.neuron_ids
    Anchor,      \* Anchor[f]: fiber.anchor_neuron_id
    Tiers,       \* the tiers that fibers become old enough for
    MaxEdits,    \* bound on edits, and on changes of a pin
    MaxRestores, \* bound on recover commands
    MaxCrashes   \* bound on crashes and raising calls

ASSUME ConstantsAssumption ==
    /\ Members \in [Fibers -> SUBSET Neurons]
    /\ Anchor \in [Fibers -> Neurons]
    /\ \A f \in Fibers : Anchor[f] \in Members[f]
    /\ Fibers \cap Neurons = {}
    /\ Tiers \subseteq 1 .. 4
    /\ MaxEdits \in Nat /\ MaxRestores \in Nat /\ MaxCrashes \in Nat

VARIABLES
    content,  \* content[n]: the text of neuron n
    backup,   \* backup[f]: the text in the compression_backups row of f, if any
    snap,     \* snap[n]: the text in the neuron_snapshots row of n, if any
    fiber,    \* fiber[f]: the fiber row, with intent and receipt if any
    pins,     \* the protected neurons, as the current pass read them at its start
    comp,     \* the compression under way
    rest,     \* the restore under way
    edits, restores, crashes,
    owed,     \* history: words that the users are entitled to get back
    touched,  \* history: neurons that others wrote since the compression read or wrote them
    dropped,  \* history: neurons that lost the saved copy it counts on since then
    stale     \* history: neurons that others wrote since the restore read or wrote them

rows == <<content, backup, snap, fiber>>
counters == <<edits, restores, crashes>>
others == <<touched, dropped, stale>>
vars == <<rows, pins, comp, rest, counters, owed, others>>

Full == 0
Reversible(t) == t \in {1, 2}
Destructive(t) == t \in {3, 4}

(***************************************************************************)
(* A text is what was written (of) and the users' words it still has       *)
(* (words). Equal texts have equal digests and the other way round.        *)
(***************************************************************************)
UserText(n, k) == [words |-> {<<n, k>>}, of |-> <<"user", n, k>>]
Summary(f, t) == [words |-> {}, of |-> <<"summary", f, t>>]
Placeholder == [words |-> {}, of |-> <<"graph-only">>]

\* original_content: the texts of a fiber's neurons, joined; one alone is its text
Joined(texts) ==
    [words |-> UNION {texts[n].words : n \in DOMAIN texts},
     of |-> IF \E n \in DOMAIN texts : DOMAIN texts = {n}
            THEN texts[CHOOSE n \in DOMAIN texts : TRUE].of ELSE <<"joined", texts>>]

Live(f) == [n \in Members[f] |-> content[n]]

\* what a compression to tier t writes, and to which neurons
Target(f, t) == IF t = 4 THEN Placeholder ELSE Summary(f, t)
Written(f, t) == IF t = 4 THEN Members[f] ELSE {Anchor[f]}

Result(f, t, source) ==
    [n \in Members[f] |-> IF n \in Written(f, t) THEN Target(f, t) ELSE source[n]]

PinnedNeurons == UNION {Members[f] : f \in {g \in Fibers : fiber[g].pinned}}

Restored_oneTierDown(row) ==
    [pinned |-> row.pinned, tier |-> row.tier - 1, intent |-> {}, receipt |-> {}]
Restored(row) == [pinned |-> row.pinned, tier |-> Full, intent |-> {}, receipt |-> {}]

Idle == [pc |-> "idle"]
Compressing == comp.pc # "idle"
Restoring == rest.pc # "idle"

Init ==
    /\ content = [n \in Neurons |-> UserText(n, 0)]
    /\ backup = [f \in Fibers |-> {}]
    /\ snap = [n \in Neurons |-> {}]
    /\ fiber = [f \in Fibers |->
                  [pinned |-> FALSE, tier |-> Full, intent |-> {}, receipt |-> {}]]
    /\ pins = {} /\ comp = Idle /\ rest = Idle
    /\ edits = 0 /\ restores = 0 /\ crashes = 0
    /\ owed = {<<n, 0>> : n \in Neurons}
    /\ touched = {} /\ dropped = {} /\ stale = {}

-----------------------------------------------------------------------------
(* The users: editing a memory, pinning and unpinning a fiber. *)

\* changed, with n if a call is under way that has read n
WithRead(call, changed, n) ==
    IF call.pc # "idle" /\ n \in Members[call.f] THEN changed \cup {n} ELSE changed

Forfeit(texts) == owed \ UNION {text.words : text \in texts}

Edit(n) ==
    /\ edits < MaxEdits /\ edits' = edits + 1
    /\ content' = [content EXCEPT ![n] = UserText(n, edits + 1)]
    /\ owed' = (owed \ content[n].words) \cup {<<n, edits + 1>>}
    /\ touched' = WithRead(comp, touched, n)
    /\ stale' = WithRead(rest, stale, n)
    /\ UNCHANGED <<backup, snap, fiber, pins, comp, rest, restores, crashes, dropped>>

Pin(f) ==
    /\ edits < MaxEdits /\ edits' = edits + 1
    /\ \E p \in BOOLEAN : fiber' = [fiber EXCEPT ![f].pinned = p]
    /\ UNCHANGED <<content, backup, snap, pins, comp, rest, restores, crashes, owed, others>>

-----------------------------------------------------------------------------
(* compress_fiber. *)

\* _lineage_matches_live_state: the receipt is of this state. allowed[n] is
\* what else a neuron may hold.
LineageMatches(f, allowed) ==
    \E receipt \in fiber[f].receipt :
        /\ receipt.backup = backup[f]
        /\ \A n \in Members[f] : content[n] \in {receipt.result[n]} \cup allowed[n]

Trusted(f) == LineageMatches(f, [n \in Members[f] |-> {}])

BackupAgrees_unchecked(f) == TRUE
\* an existing backup is of this fiber's past, or of exactly its present
BackupAgrees(f) ==
    \/ Trusted(f)
    \/ fiber[f].tier = Full /\ backup[f] \subseteq {Joined(Live(f))}

SnapshotAgrees(f, n) ==
    \/ snap[n] \subseteq {content[n]}
    \/ Trusted(f) /\ \E receipt \in fiber[f].receipt : receipt.snaps[n] = snap[n]

MayCompress(f, t) ==
    /\ fiber[f].intent = {}
    /\ ~fiber[f].pinned
    /\ t > fiber[f].tier
    /\ BackupAgrees(f)
    /\ Destructive(t) => \A n \in Members[f] : SnapshotAgrees(f, n)

NewIntent(f, t) ==
    [tier |-> t,
     source |-> Live(f),
     backup |-> IF Reversible(t) /\ backup[f] = {} THEN {Joined(Live(f))} ELSE backup[f],
     snaps |-> [n \in Members[f] |->
                  IF Reversible(t) THEN {} ELSE IF snap[n] = {} THEN {content[n]} ELSE snap[n]]]

Missing(f, t) ==
    IF Destructive(t) THEN {n \in Members[f] : snap[n] = {}}
    ELSE IF backup[f] = {} THEN {f} ELSE {}

StillToWrite(f, t) == {n \in Written(f, t) : content[n] # Target(f, t)}

\* get_pinned_neuron_ids, once per pass
StartPass ==
    /\ ~Compressing /\ pins # PinnedNeurons
    /\ pins' = PinnedNeurons
    /\ UNCHANGED <<rows, comp, rest, counters, owed, others>>

Compress(f) ==
    /\ ~Compressing
    /\ \E t \in Tiers :
        /\ MayCompress(f, t)
        /\ Written(f, t) \cap pins = {}
        /\ comp' = [pc |-> "saving", f |-> f, row |-> fiber[f], intent |-> NewIntent(f, t),
                    save |-> Missing(f, t),
                    todo |-> IF t = 4 THEN StillToWrite(f, t) ELSE Written(f, t)]
    /\ UNCHANGED <<rows, pins, rest, counters, owed, others>>

SaveBackup ==
    /\ Compressing /\ comp.f \in comp.save
    /\ backup' = [backup EXCEPT ![comp.f] = comp.intent.backup]
    /\ comp' = [comp EXCEPT !.save = {}]
    /\ UNCHANGED <<content, snap, fiber, pins, rest, counters, owed, others>>

SaveSnapshot(n) ==
    /\ Compressing /\ n \in comp.save
    /\ snap' = [snap EXCEPT ![n] = comp.intent.snaps[n]]
    /\ comp' = [comp EXCEPT !.save = @ \ {n}]
    /\ UNCHANGED <<content, backup, fiber, pins, rest, counters, owed, others>>

WriteIntent ==
    /\ comp.pc = "saving" /\ comp.save = {}
    /\ fiber' = [fiber EXCEPT ![comp.f] = [comp.row EXCEPT !.intent = {comp.intent}]]
    /\ comp' = [comp EXCEPT !.pc = "writing"]
    /\ UNCHANGED <<content, backup, snap, pins, rest, counters, owed, others>>

WriteNeuron(n) ==
    /\ comp.pc = "writing" /\ n \in comp.todo
    /\ content' = [content EXCEPT ![n] = Target(comp.f, comp.intent.tier)]
    /\ comp' = [comp EXCEPT !.todo = @ \ {n}]
    /\ owed' = IF n \in touched \cup dropped THEN Forfeit({content[n]}) ELSE owed
    /\ touched' = touched \ {n}
    /\ stale' = WithRead(rest, stale, n)
    /\ UNCHANGED <<backup, snap, fiber, pins, rest, counters, dropped>>

Receipt(f, row, intent) ==
    [result |-> Result(f, intent.tier, intent.source),
     backup |-> intent.backup,
     snaps |-> [n \in Members[f] |->
                  intent.snaps[n] \cup
                    IF Reversible(intent.tier) THEN UNION {r.snaps[n] : r \in row.receipt} ELSE {}]]

Finished_keepsIntent(f, row, intent) ==
    [pinned |-> row.pinned, tier |-> intent.tier,
     intent |-> {intent}, receipt |-> {Receipt(f, row, intent)}]
Finished(f, row, intent) ==
    [pinned |-> row.pinned, tier |-> intent.tier,
     intent |-> {}, receipt |-> {Receipt(f, row, intent)}]

\* the whole row is written, with the other fields as they were read
WriteFiber ==
    /\ comp.pc = "writing" /\ comp.todo = {}
    /\ fiber' = [fiber EXCEPT ![comp.f] = Finished(comp.f, comp.row, comp.intent)]
    /\ comp' = Idle /\ touched' = {} /\ dropped' = {}
    /\ UNCHANGED <<content, backup, snap, pins, rest, counters, owed, stale>>

-----------------------------------------------------------------------------
(* _resume_prepared_fiber: a raise leaves everything as it is. *)

SavedAsPrepared(f, intent) ==
    /\ backup[f] = intent.backup
    /\ Destructive(intent.tier) => \A n \in Members[f] : snap[n] = intent.snaps[n]

SourceOrTarget_writtenOnly(f, intent) ==
    \A n \in Written(f, intent.tier) :
        content[n] \in {intent.source[n], Target(f, intent.tier)}
SourceOrTarget(f, intent) ==
    \A n \in Members[f] :
        content[n] \in {intent.source[n], Result(f, intent.tier, intent.source)[n]}

Resume(f) ==
    /\ ~Compressing
    /\ \E intent \in fiber[f].intent : LET todo == StillToWrite(f, intent.tier) IN
          /\ SavedAsPrepared(f, intent)
          /\ SourceOrTarget(f, intent)
          /\ todo \cap pins = {}
          /\ comp' = [pc |-> "writing", f |-> f, row |-> fiber[f], intent |-> intent,
                      save |-> {}, todo |-> todo]
    /\ UNCHANGED <<rows, pins, rest, counters, owed, others>>

-----------------------------------------------------------------------------
(* recover_fiber and decompress_fiber. *)

BeginRestore(f, texts, todo, drop) ==
    /\ ~Restoring
    /\ restores < MaxRestores /\ restores' = restores + 1
    /\ rest' = [pc |-> "restoring", f |-> f, row |-> fiber[f], texts |-> texts,
                todo |-> todo, drop |-> drop]
    /\ UNCHANGED <<rows, pins, comp, edits, crashes, owed, others>>

Recover(f) ==
    /\ Destructive(fiber[f].tier)
    /\ LineageMatches(f, [n \in Members[f] |-> snap[n]])
    /\ \E receipt \in fiber[f].receipt :
        \A n \in Members[f] : snap[n] = receipt.snaps[n] /\ snap[n] # {}
    /\ BeginRestore(f, [n \in Members[f] |-> snap[n]],
                    {n \in Members[f] : snap[n] # {content[n]}}, Members[f])

\* A fiber without a receipt is restored whatever its neurons hold.
Decompress(f) ==
    /\ ~Destructive(fiber[f].tier)
    /\ backup[f] # {}
    /\ \/ fiber[f].receipt = {}
       \/ LineageMatches(f, [n \in Members[f] |-> IF n = Anchor[f] THEN backup[f] ELSE {}])
    /\ BeginRestore(f, [n \in {Anchor[f]} |-> backup[f]], {Anchor[f]}, {f})

RestoreNeuron(n) ==
    /\ Restoring /\ n \in rest.todo
    /\ \E text \in rest.texts[n] :
        /\ content' = [content EXCEPT ![n] = text]
        /\ owed' = IF n \in stale \/ rest.row.receipt = {}
                   THEN owed \ (content[n].words \ text.words) ELSE owed
    /\ rest' = [rest EXCEPT !.todo = @ \ {n}]
    /\ touched' = WithRead(comp, touched, n)
    /\ stale' = stale \ {n}
    /\ UNCHANGED <<backup, snap, fiber, pins, comp, counters, dropped>>

ResetFiber ==
    /\ rest.pc = "restoring" /\ rest.todo = {}
    /\ fiber' = [fiber EXCEPT ![rest.f] = Restored(rest.row)]
    /\ rest' = [rest EXCEPT !.pc = "dropping"]
    /\ UNCHANGED <<content, backup, snap, pins, comp, counters, owed, others>>

DropBackup ==
    /\ rest.pc = "dropping" /\ rest.drop = {rest.f}
    /\ backup' = [backup EXCEPT ![rest.f] = {}]
    /\ rest' = Idle /\ stale' = {}
    /\ owed' = IF Anchor[rest.f] \in stale THEN Forfeit(backup[rest.f]) ELSE owed
    /\ dropped' = IF Compressing /\ comp.f = rest.f THEN dropped \cup {Anchor[rest.f]} ELSE dropped
    /\ UNCHANGED <<content, snap, fiber, pins, comp, counters, touched>>

DropSnapshot(n) ==
    /\ rest.pc = "dropping" /\ n \in rest.drop
    /\ snap' = [snap EXCEPT ![n] = {}]
    /\ IF rest.drop = {n} THEN rest' = Idle /\ stale' = {}
       ELSE rest' = [rest EXCEPT !.drop = @ \ {n}] /\ UNCHANGED stale
    /\ owed' = IF n \in stale THEN Forfeit(snap[n]) ELSE owed
    /\ dropped' = WithRead(comp, dropped, n)
    /\ UNCHANGED <<content, backup, fiber, pins, comp, counters, touched>>

-----------------------------------------------------------------------------
\* The process dies, or the call raises and what it did so far stays.
Crash ==
    /\ crashes < MaxCrashes /\ crashes' = crashes + 1
    /\ \/ /\ Compressing /\ comp' = Idle /\ touched' = {} /\ dropped' = {}
          /\ UNCHANGED <<rest, stale>>
       \/ /\ Restoring /\ rest' = Idle /\ stale' = {}
          /\ UNCHANGED <<comp, touched, dropped>>
    /\ UNCHANGED <<rows, pins, edits, restores, owed>>

CompressionSteps ==
    \/ SaveBackup \/ WriteIntent \/ WriteFiber
    \/ \E n \in Neurons : SaveSnapshot(n) \/ WriteNeuron(n)

RestoreSteps ==
    \/ ResetFiber \/ DropBackup
    \/ \E n \in Neurons : RestoreNeuron(n) \/ DropSnapshot(n)

Next ==
    \/ \E n \in Neurons : Edit(n)
    \/ \E f \in Fibers : Pin(f) \/ Compress(f) \/ Resume(f) \/ Recover(f) \/ Decompress(f)
    \/ StartPass \/ CompressionSteps \/ RestoreSteps \/ Crash

Spec == Init /\ [][Next]_vars

\* The strategy comes round again and reaches every fiber; a live process goes on.
Fairness ==
    /\ WF_vars(CompressionSteps) /\ WF_vars(StartPass)
    /\ \A f \in Fibers : WF_vars(Resume(f))

FairSpec == Spec /\ Fairness

-----------------------------------------------------------------------------
Words == Neurons \X (0 .. MaxEdits)

TypeOK ==
    /\ \A n \in Neurons : content[n].words \subseteq Words
    /\ \A f \in Fibers : \A text \in backup[f] : text.words \subseteq Words
    /\ \A n \in Neurons : \A text \in snap[n] : text.words \subseteq Words
    /\ \A f \in Fibers : fiber[f].pinned \in BOOLEAN /\ fiber[f].tier \in {Full} \cup Tiers
    /\ pins \subseteq Neurons
    /\ Compressing => /\ comp.pc \in {"saving", "writing"}
                       /\ comp.f \in Fibers /\ comp.todo \subseteq Members[comp.f]
    /\ Restoring => /\ rest.pc \in {"restoring", "dropping"}
                       /\ rest.f \in Fibers /\ rest.todo \subseteq Members[rest.f]
    /\ owed \subseteq Words /\ touched \cup dropped \cup stale \subseteq Neurons
    /\ edits \in 0 .. MaxEdits /\ restores \in 0 .. MaxRestores /\ crashes \in 0 .. MaxCrashes

Saved ==
    UNION {text.words : text \in {content[n] : n \in Neurons}
                              \cup (UNION {backup[f] : f \in Fibers})
                              \cup (UNION {snap[n] : n \in Neurons})}

(***************************************************************************)
(* Compression loses nothing: what a user wrote and did not replace is in  *)
(* a neuron, a backup or a snapshot, wherever the process died, although   *)
(* fibers share neurons and are compressed, restored and compressed again  *)
(* in any order, and although a restore runs while a compression does.     *)
(* The code lets a word go in three ways only: a call overwrites a neuron  *)
(* that somebody else wrote, or whose saved copy a restore dropped, since  *)
(* the call read it; a restore drops the copy of a neuron that somebody    *)
(* else wrote since the restore did; and an unchecked restore overwrites a *)
(* later text. Whatever else happens, nothing goes.                        *)
(***************************************************************************)
NothingLost == owed \subseteq Saved

(***************************************************************************)
(* A receipt tells the truth when it is written, also by a replay long     *)
(* after the crash: every neuron of the fiber holds what the receipt says, *)
(* the one exception being an edit made since this attempt read it.        *)
(* Recovery and further compression decide by comparing with the receipt.  *)
(***************************************************************************)
ReceiptMatchesLive ==
    [][\A f \in Fibers :
         fiber'[f].receipt # fiber[f].receipt =>
           \A receipt \in fiber'[f].receipt :
             \A n \in Members[f] \ touched : content[n] = receipt.result[n]]_vars

\* what makes _resume_prepared_fiber raise
Refused(f) ==
    \E intent \in fiber[f].intent :
        \/ ~SavedAsPrepared(f, intent)
        \/ ~SourceOrTarget(f, intent)
        \/ StillToWrite(f, intent.tier) \cap PinnedNeurons # {}

\* A prepared compression is completed, or undone by a restore, or has become
\* one that the replay refuses: it is never left half done for another reason.
IntentResolves ==
    \A f \in Fibers : fiber[f].intent # {} ~> fiber[f].intent = {} \/ Refused(f)

(***************************************************************************)
(* "Tiers 3-4 are destructive but recoverable via neuron_snapshots"        *)
(* (engine/compression.py:12): a destructively compressed fiber that is as *)
(* its receipt says has the snapshots of its receipt.                      *)
(***************************************************************************)
RecoverableStays ==
    \A f \in Fibers :
        Destructive(fiber[f].tier) /\ Trusted(f) =>
            \A receipt \in fiber[f].receipt :
                \A n \in Members[f] : snap[n] = receipt.snaps[n]

(***************************************************************************)
(* "Concurrent pin changes after this snapshot take effect next pass"      *)
(* (engine/consolidation.py, _compress): nobody but a user takes a pin     *)
(* away, so that the next pass finds it.                                   *)
(***************************************************************************)
PinTakesEffect ==
    [][\A f \in Fibers : fiber[f].pinned /\ ~fiber'[f].pinned => edits' # edits]_vars
=============================================================================
