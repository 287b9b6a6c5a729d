----------------------- MODULE FiberCompressionProofs -----------------------
(***************************************************************************)
(* TLAPS proofs about FiberCompression, for every number of fibers and     *)
(* neurons, every way in which the fibers share them, and every bound.     *)
(*                                                                         *)
(* A compression, a restore and the users may overlap in every way.        *)
(***************************************************************************)
EXTENDS FiberCompression, TLAPS

\* the words that exist after k edits: every edit makes a new one
Known(k) == Neurons \X (0 .. k)
KnownTexts(k, S) == \A text \in S : text.words \subseteq Known(k)

IntentType(k, f, i) ==
    /\ i.tier \in Tiers
    /\ KnownTexts(k, i.backup)
    /\ \A n \in Members[f] : KnownTexts(k, i.snaps[n])

RowType(k, f, r) ==
    /\ r = [pinned |-> r.pinned, tier |-> r.tier, intent |-> r.intent, receipt |-> r.receipt]
    /\ r.pinned \in BOOLEAN
    /\ r.tier \in {Full} \cup Tiers
    /\ \A i \in r.intent : IntentType(k, f, i)

StoreType ==
    /\ content = [n \in Neurons |-> content[n]]
    /\ backup = [f \in Fibers |-> backup[f]]
    /\ snap = [n \in Neurons |-> snap[n]]
    /\ fiber = [f \in Fibers |-> fiber[f]]

TextType ==
    /\ \A n \in Neurons : content[n].words \subseteq Known(edits) /\ KnownTexts(edits, snap[n])
    /\ \A f \in Fibers : KnownTexts(edits, backup[f]) /\ RowType(edits, f, fiber[f])

CompType ==
    Compressing =>
        /\ comp = [pc |-> comp.pc, f |-> comp.f, row |-> comp.row, intent |-> comp.intent,
                   save |-> comp.save, todo |-> comp.todo]
        /\ comp.pc \in {"saving", "writing"}
        /\ comp.f \in Fibers
        /\ comp.save \subseteq {comp.f} \cup Members[comp.f]
        /\ comp.todo \subseteq Written(comp.f, comp.intent.tier)
        /\ IntentType(edits, comp.f, comp.intent)
        /\ RowType(edits, comp.f, comp.row)

RestType ==
    Restoring =>
        /\ rest = [pc |-> rest.pc, f |-> rest.f, row |-> rest.row, texts |-> rest.texts,
                   todo |-> rest.todo, drop |-> rest.drop]
        /\ rest.pc \in {"restoring", "dropping"}
        /\ rest.f \in Fibers
        /\ rest.todo \subseteq Members[rest.f]
        /\ \A n \in Members[rest.f] : n = Anchor[rest.f] \/ rest.drop # {rest.f} =>
                KnownTexts(edits, rest.texts[n])
        /\ \/ rest.drop = {rest.f} /\ rest.todo \subseteq {Anchor[rest.f]}
           \/ rest.drop \subseteq Members[rest.f]
        /\ RowType(edits, rest.f, rest.row)

CountType ==
    /\ edits \in 0 .. MaxEdits /\ restores \in 0 .. MaxRestores /\ crashes \in 0 .. MaxCrashes
    /\ owed \subseteq Known(edits)
    /\ pins \subseteq Neurons

TypeInv == StoreType /\ TextType /\ CompType /\ RestType /\ CountType

-----------------------------------------------------------------------------
(* Lemmas about the building blocks *)

LEMMA Sets ==
  ASSUME NEW f \in Fibers, NEW t
  PROVE  /\ Anchor[f] \in Members[f]
         /\ Members[f] \subseteq Neurons
         /\ Written(f, t) \subseteq Members[f]
         /\ Anchor[f] \in Written(f, t)
         /\ f \notin Neurons
BY ConstantsAssumption DEF Written

LEMMA TargetEmpty ==
  ASSUME NEW f, NEW t
  PROVE  Target(f, t).words = {}
BY DEF Target, Placeholder, Summary

LEMMA JoinedWords ==
  ASSUME NEW f \in Fibers, NEW n \in Members[f]
  PROVE  content[n].words \subseteq Joined(Live(f)).words
BY DEF Joined, Live

LEMMA JoinedKnown ==
  ASSUME TypeInv, NEW f \in Fibers
  PROVE  Joined(Live(f)).words \subseteq Known(edits)
BY Sets DEF Joined, Live, TypeInv, TextType

LEMMA InitType == Init => TypeInv
<1> SUFFICES ASSUME Init PROVE TypeInv
  OBVIOUS
<1> USE ConstantsAssumption
<1>1. StoreType
  BY DEF Init, StoreType
<1>2. TextType
  <2>1. \A n \in Neurons : content[n].words \subseteq Known(edits) /\ KnownTexts(edits, snap[n])
    BY DEF Init, Known, KnownTexts, UserText
  <2>2. \A f \in Fibers : KnownTexts(edits, backup[f])
    BY DEF Init, KnownTexts
  <2>3. \A f \in Fibers : RowType(edits, f, fiber[f])
    BY DEF Init, RowType
  <2> QED
    BY <2>1, <2>2, <2>3 DEF TextType
<1>3. CompType /\ RestType
  BY DEF Init, CompType, RestType, Compressing, Restoring, Idle
<1>4. CountType
  BY DEF Init, CountType, Known
<1> QED
  BY <1>1, <1>2, <1>3, <1>4 DEF TypeInv

LEMMA KnownGrows ==
  ASSUME NEW k \in Nat
  PROVE  /\ Known(k) \subseteq Known(k + 1)
         /\ \A S : KnownTexts(k, S) => KnownTexts(k + 1, S)
         /\ \A f, i : IntentType(k, f, i) => IntentType(k + 1, f, i)
         /\ \A f, r : RowType(k, f, r) => RowType(k + 1, f, r)
<1>1. Known(k) \subseteq Known(k + 1)
  BY DEF Known
<1>2. \A S : KnownTexts(k, S) => KnownTexts(k + 1, S)
  BY <1>1 DEF KnownTexts
<1>3. \A f, i : IntentType(k, f, i) => IntentType(k + 1, f, i)
  BY <1>2 DEF IntentType
<1> QED
  BY <1>1, <1>2, <1>3 DEF RowType

LEMMA EditType ==
  ASSUME TypeInv, NEW n \in Neurons, Edit(n)
  PROVE  TypeInv'
<1>1. edits \in Nat /\ edits' = edits + 1 /\ edits' \in 0 .. MaxEdits
  BY ConstantsAssumption DEF TypeInv, CountType, Edit
<1>2. UserText(n, edits + 1).words = {<<n, edits + 1>>} /\ <<n, edits + 1>> \in Known(edits + 1)
  BY <1>1 DEF UserText, Known
<1>3. StoreType'
  BY DEF TypeInv, StoreType, Edit
<1>4. TextType'
  BY <1>1, <1>2, KnownGrows DEF TypeInv, TextType, StoreType, Edit
<1>5. CompType'
  BY <1>1, KnownGrows DEF TypeInv, CompType, Compressing, Edit
<1>6. RestType'
  BY <1>1, KnownGrows DEF TypeInv, RestType, Restoring, Edit
<1>7. CountType'
  BY <1>1, <1>2, KnownGrows DEF TypeInv, CountType, Edit
<1> QED
  BY <1>3, <1>4, <1>5, <1>6, <1>7 DEF TypeInv

LEMMA PinType ==
  ASSUME TypeInv, NEW f \in Fibers, Pin(f)
  PROVE  TypeInv'
<1>1. edits \in Nat /\ edits' = edits + 1 /\ edits' \in 0 .. MaxEdits
  BY ConstantsAssumption DEF TypeInv, CountType, Pin
<1>2. PICK p \in BOOLEAN : fiber' = [fiber EXCEPT ![f].pinned = p]
  BY DEF Pin
<1>3. RowType(edits, f, fiber'[f])
  BY <1>2 DEF TypeInv, TextType, StoreType, RowType
<1>4. StoreType'
  BY <1>2 DEF TypeInv, StoreType, Pin
<1>5. TextType'
  BY <1>1, <1>2, <1>3, KnownGrows DEF TypeInv, TextType, StoreType, Pin
<1>6. CompType'
  BY <1>1, KnownGrows DEF TypeInv, CompType, Compressing, Pin
<1>7. RestType'
  BY <1>1, KnownGrows DEF TypeInv, RestType, Restoring, Pin
<1>8. CountType'
  BY <1>1, KnownGrows DEF TypeInv, CountType, Pin
<1> QED
  BY <1>4, <1>5, <1>6, <1>7, <1>8 DEF TypeInv

LEMMA StartPassType ==
  ASSUME TypeInv, StartPass
  PROVE  TypeInv'
<1>1. PinnedNeurons \subseteq Neurons
  BY Sets DEF PinnedNeurons
<1> QED
  BY <1>1 DEF TypeInv, StoreType, TextType, CompType, RestType, CountType, StartPass, rows,
     counters, Compressing, Restoring

LEMMA NewIntentType ==
  ASSUME TypeInv, NEW f \in Fibers, NEW t \in Tiers
  PROVE  IntentType(edits, f, NewIntent(f, t))
<1>1. NewIntent(f, t).tier = t
  BY DEF NewIntent
<1>2. KnownTexts(edits, NewIntent(f, t).backup)
  BY Sets DEF NewIntent, Joined, Live, KnownTexts, TypeInv, TextType
<1>3. \A n \in Members[f] : KnownTexts(edits, NewIntent(f, t).snaps[n])
  BY Sets DEF NewIntent, KnownTexts, TypeInv, TextType
<1> QED
  BY <1>1, <1>2, <1>3 DEF IntentType

LEMMA CompressType ==
  ASSUME TypeInv, NEW f \in Fibers, Compress(f)
  PROVE  TypeInv'
<1>1. PICK t \in Tiers :
        comp' = [pc |-> "saving", f |-> f, row |-> fiber[f], intent |-> NewIntent(f, t),
                 save |-> Missing(f, t),
                 todo |-> IF t = 4 THEN StillToWrite(f, t) ELSE Written(f, t)]
  BY DEF Compress
<1>2. comp'.intent.tier = t
  BY <1>1 DEF NewIntent
<1>3. comp'.save \subseteq {f} \cup Members[f]
  BY <1>1 DEF Missing
<1>4. comp'.todo \subseteq Written(f, t)
  BY <1>1 DEF StillToWrite
<1>5. CompType'
  BY <1>1, <1>2, <1>3, <1>4, NewIntentType
     DEF CompType, TypeInv, TextType, Compress, counters, rows
<1> QED
  BY <1>5 DEF TypeInv, StoreType, TextType, RestType, CountType, Compress, rows, counters,
     Restoring

LEMMA ResumeType ==
  ASSUME TypeInv, NEW f \in Fibers, Resume(f)
  PROVE  TypeInv'
<1>1. PICK i \in fiber[f].intent :
        comp' = [pc |-> "writing", f |-> f, row |-> fiber[f], intent |-> i,
                 save |-> {}, todo |-> StillToWrite(f, i.tier)]
  BY DEF Resume
<1>2. RowType(edits, f, fiber[f]) /\ IntentType(edits, f, i)
  BY <1>1 DEF TypeInv, TextType, RowType
<1>3. comp'.todo \subseteq Written(f, i.tier)
  BY <1>1 DEF StillToWrite
<1>4. CompType'
  BY <1>1, <1>2, <1>3 DEF CompType, Resume, counters, rows
<1> QED
  BY <1>4 DEF TypeInv, StoreType, TextType, RestType, CountType, Resume, rows, counters,
     Restoring

\* What is saved, written into the fiber or written into a neuron is typed.
LEMMA CompressionType ==
  ASSUME TypeInv, CompressionSteps
  PROVE  TypeInv'
<1> USE DEF TypeInv
<1>1. CASE SaveBackup
  <2>1. TextType'
    BY <1>1 DEF TextType, StoreType, CompType, IntentType, SaveBackup, counters
  <2>2. CompType'
    BY <1>1 DEF CompType, Compressing, SaveBackup, counters
  <2> QED
    BY <1>1, <2>1, <2>2
       DEF StoreType, RestType, CountType, SaveBackup, counters, Restoring
<1>2. CASE WriteIntent
  <2>1. Compressing
    BY <1>2, ConstantsAssumption DEF WriteIntent, Compressing
  <2>2. RowType(edits, comp.f, [comp.row EXCEPT !.intent = {comp.intent}])
    BY <2>1 DEF CompType, RowType
  <2>3. TextType'
    BY <1>2, <2>1, <2>2 DEF TextType, StoreType, WriteIntent, counters
  <2>4. CompType'
    BY <1>2, <2>1 DEF CompType, Compressing, WriteIntent, counters
  <2> QED
    BY <1>2, <2>3, <2>4
       DEF StoreType, RestType, CountType, WriteIntent, counters, Restoring
<1>3. CASE WriteFiber
  <2>1. Compressing
    BY <1>3 DEF WriteFiber, Compressing
  <2>2. RowType(edits, comp.f, Finished(comp.f, comp.row, comp.intent))
    BY <2>1 DEF CompType, RowType, IntentType, Finished
  <2>3. TextType'
    BY <1>3, <2>1, <2>2 DEF TextType, StoreType, WriteFiber, counters
  <2>4. CompType'
    BY <1>3 DEF CompType, Compressing, WriteFiber, Idle
  <2> QED
    BY <1>3, <2>3, <2>4
       DEF StoreType, RestType, CountType, WriteFiber, counters, Restoring
<1>4. ASSUME NEW n \in Neurons, SaveSnapshot(n)
      PROVE  TypeInv'
  <2>1. n \in Members[comp.f] /\ comp.f \in Fibers
    BY <1>4, Sets DEF CompType, SaveSnapshot
  <2>2. TextType'
    BY <1>4, <2>1 DEF TextType, StoreType, CompType, IntentType, SaveSnapshot, counters
  <2>3. CompType'
    BY <1>4 DEF CompType, Compressing, SaveSnapshot, counters
  <2> QED
    BY <1>4, <2>2, <2>3
       DEF StoreType, RestType, CountType, SaveSnapshot, counters, Restoring
<1>5. ASSUME NEW n \in Neurons, WriteNeuron(n)
      PROVE  TypeInv'
  <2>1. Compressing
    BY <1>5 DEF WriteNeuron, Compressing
  <2>2. TextType'
    BY <1>5, TargetEmpty DEF TextType, StoreType, WriteNeuron, counters
  <2>3. CompType'
    BY <1>5, <2>1 DEF CompType, Compressing, WriteNeuron, counters
  <2> QED
    BY <1>5, <2>2, <2>3
       DEF StoreType, RestType, CountType, WriteNeuron, Forfeit, counters, Restoring
<1> QED
  BY <1>1, <1>2, <1>3, <1>4, <1>5 DEF CompressionSteps

LEMMA BeginRestoreType ==
  ASSUME TypeInv, NEW f \in Fibers, NEW texts, NEW todo, NEW drop,
         BeginRestore(f, texts, todo, drop),
         todo \subseteq Members[f],
         \A n \in Members[f] : n = Anchor[f] \/ drop # {f} => KnownTexts(edits, texts[n]),
         (drop = {f} /\ todo \subseteq {Anchor[f]}) \/ drop \subseteq Members[f]
  PROVE  TypeInv'
<1>1. RestType'
  BY DEF TypeInv, TextType, RestType, BeginRestore
<1>2. CountType'
  BY ConstantsAssumption DEF TypeInv, CountType, BeginRestore, rows
<1> QED
  BY <1>1, <1>2 DEF TypeInv, StoreType, TextType, CompType, BeginRestore, rows, Compressing

LEMMA RecoverType ==
  ASSUME TypeInv, NEW f \in Fibers, Recover(f) \/ Decompress(f)
  PROVE  TypeInv'
<1>1. CASE Recover(f)
  <2> DEFINE texts == [n \in Members[f] |-> snap[n]]
             todo == {n \in Members[f] : snap[n] # {content[n]}}
  <2>1. \A n \in Members[f] : KnownTexts(edits, texts[n])
    BY Sets DEF TypeInv, TextType
  <2>2. BeginRestore(f, texts, todo, Members[f]) /\ todo \subseteq Members[f]
    BY <1>1 DEF Recover
  <2> HIDE DEF texts, todo
  <2> QED
    BY <2>1, <2>2, BeginRestoreType
<1>2. CASE Decompress(f)
  <2> DEFINE texts == [n \in {Anchor[f]} |-> backup[f]]
  <2>1. BeginRestore(f, texts, {Anchor[f]}, {f}) /\ Anchor[f] \in Members[f]
    BY <1>2, Sets DEF Decompress
  <2>2. KnownTexts(edits, texts[Anchor[f]])
    BY DEF TypeInv, TextType
  <2> HIDE DEF texts
  <2> QED
    BY <2>1, <2>2, BeginRestoreType
<1> QED
  BY <1>1, <1>2

LEMMA RestoreType ==
  ASSUME TypeInv, RestoreSteps
  PROVE  TypeInv'
<1> USE DEF TypeInv
<1>1. CASE ResetFiber
  <2>1. Restoring
    BY <1>1 DEF ResetFiber, Restoring
  <2>2. RowType(edits, rest.f, Restored(rest.row))
    BY <2>1 DEF RestType, RowType, Restored
  <2>3. TextType'
    BY <1>1, <2>1, <2>2 DEF TextType, StoreType, ResetFiber, counters
  <2>4. RestType'
    BY <1>1, <2>1 DEF RestType, Restoring, ResetFiber, counters
  <2> QED
    BY <1>1, <2>3, <2>4
       DEF StoreType, CompType, CountType, ResetFiber, counters, Compressing
<1>2. CASE DropBackup
  BY <1>2 DEF StoreType, TextType, KnownTexts, CompType, RestType, CountType, DropBackup, Forfeit, Idle,
     counters, Compressing, Restoring
<1>3. ASSUME NEW n \in Neurons, RestoreNeuron(n)
      PROVE  TypeInv'
  <2>1. Restoring /\ n \in rest.todo
    BY <1>3 DEF RestoreNeuron
  <2>2. KnownTexts(edits, rest.texts[n])
    BY <2>1, Sets DEF RestType
  <2>3. TextType'
    BY <1>3, <2>2 DEF TextType, StoreType, KnownTexts, RestoreNeuron, counters
  <2>4. RestType'
    BY <1>3, <2>1 DEF RestType, Restoring, RestoreNeuron, counters
  <2>5. CountType'
    BY <1>3 DEF CountType, RestoreNeuron, counters
  <2> QED
    BY <1>3, <2>3, <2>4, <2>5 DEF StoreType, CompType, RestoreNeuron, counters, Compressing
<1>4. ASSUME NEW n \in Neurons, DropSnapshot(n)
      PROVE  TypeInv'
  <2>1. Restoring /\ n \in rest.drop
    BY <1>4 DEF DropSnapshot, Restoring
  <2>2. rest.drop \subseteq Members[rest.f] /\ rest.f \notin Neurons
    BY <2>1, Sets DEF RestType
  <2>3. RestType'
    BY <1>4, <2>1, <2>2 DEF RestType, Restoring, DropSnapshot, Idle, counters
  <2>4. TextType'
    BY <1>4 DEF TextType, StoreType, KnownTexts, DropSnapshot, counters
  <2> QED
    BY <1>4, <2>3, <2>4 DEF StoreType, CompType, CountType, DropSnapshot, Forfeit, counters, Compressing
<1> QED
  BY <1>1, <1>2, <1>3, <1>4 DEF RestoreSteps

LEMMA CrashType ==
  ASSUME TypeInv, Crash
  PROVE  TypeInv'
BY ConstantsAssumption
   DEF TypeInv, StoreType, TextType, CompType, RestType, CountType, Crash, rows, Idle,
       Compressing, Restoring

LEMMA StutterType ==
  ASSUME TypeInv, UNCHANGED vars
  PROVE  TypeInv'
BY DEF TypeInv, StoreType, TextType, CompType, RestType, CountType, vars, rows, counters,
   Compressing, Restoring

LEMMA StepType == TypeInv /\ [Next]_vars => TypeInv'
<1> SUFFICES ASSUME TypeInv, [Next]_vars PROVE TypeInv'
  OBVIOUS
<1>1. CASE \E n \in Neurons : Edit(n)
  BY <1>1, EditType
<1>2. CASE \E f \in Fibers : Pin(f)
  BY <1>2, PinType
<1>3. CASE \E f \in Fibers : Compress(f)
  BY <1>3, CompressType
<1>4. CASE \E f \in Fibers : Resume(f)
  BY <1>4, ResumeType
<1>5. CASE \E f \in Fibers : Recover(f) \/ Decompress(f)
  BY <1>5, RecoverType
<1>6. CASE StartPass \/ CompressionSteps \/ RestoreSteps \/ Crash
  BY <1>6, StartPassType, CompressionType, RestoreType, CrashType
<1>7. CASE UNCHANGED vars
  BY <1>7, StutterType
<1> QED
  BY <1>1, <1>2, <1>3, <1>4, <1>5, <1>6, <1>7 DEF Next

HistoryType == touched \cup dropped \cup stale \subseteq Neurons

LEMMA HistoryStep == TypeInv /\ HistoryType /\ [Next]_vars => HistoryType'
<1> SUFFICES ASSUME TypeInv, HistoryType, [Next]_vars PROVE HistoryType'
  OBVIOUS
<1> USE DEF HistoryType, others, WithRead
<1>1. CASE CompressionSteps
  BY <1>1 DEF CompressionSteps, SaveBackup, WriteIntent, WriteFiber, SaveSnapshot, WriteNeuron
<1>2. CASE RestoreSteps
  <2>1. CASE DropBackup
    BY <2>1, Sets DEF DropBackup, Restoring, TypeInv, RestType
  <2> QED
    BY <1>2, <2>1 DEF RestoreSteps, ResetFiber, RestoreNeuron, DropSnapshot
<1>3. CASE \E n \in Neurons : Edit(n)
  BY <1>3 DEF Edit
<1>4. CASE \E f \in Fibers : Pin(f) \/ Compress(f) \/ Resume(f) \/ Recover(f) \/ Decompress(f)
  BY <1>4 DEF Pin, Compress, Resume, Recover, Decompress, BeginRestore
<1>5. CASE StartPass \/ Crash \/ UNCHANGED vars
  BY <1>5 DEF StartPass, Crash, vars
<1> QED
  BY <1>1, <1>2, <1>3, <1>4, <1>5 DEF Next

LEMMA Typed == Spec => [](TypeInv /\ HistoryType)
<1>1. Init => HistoryType
  BY DEF Init, HistoryType
<1> QED
  BY <1>1, InitType, StepType, HistoryStep, PTL DEF Spec

(***************************************************************************)
(* The variables of a compression keep their types, whatever the fibers    *)
(* share and whatever a crash, an edit or an overlapping restore does.     *)
(***************************************************************************)
THEOREM TypeCorrect == Spec => []TypeOK
<1>1. TypeInv /\ HistoryType => TypeOK
  <2> SUFFICES ASSUME TypeInv, HistoryType PROVE TypeOK
    OBVIOUS
  <2>1. Known(edits) \subseteq Words
    BY ConstantsAssumption DEF Known, Words, TypeInv, CountType
  <2>2. \A f \in Fibers : fiber[f].pinned \in BOOLEAN /\ fiber[f].tier \in {Full} \cup Tiers
    BY DEF TypeInv, TextType, RowType
  <2>3. Compressing => comp.todo \subseteq Members[comp.f]
    BY Sets DEF TypeInv, CompType
  <2> QED
    BY <2>1, <2>2, <2>3
       DEF TypeOK, TypeInv, TextType, KnownTexts, CompType, RestType, CountType, HistoryType
<1> QED
  BY <1>1, Typed, PTL

-----------------------------------------------------------------------------
(***************************************************************************)
(* The inductive invariant. Wherever a text is about to be overwritten or  *)
(* dropped, what is owed of it is elsewhere: a source in its backup or     *)
(* snapshots, a restored text in its neuron. The receipt links the two     *)
(* ways, so that a trusted receipt lets an old backup or snapshot stand    *)
(* for what the neuron holds now.                                          *)
(***************************************************************************)
AtMostOne(S) == \A x, y \in S : x = y

Covers(S, text) == \A saved \in S : text.words \subseteq saved.words

ReceiptGood(f, r) ==
    /\ r.result[Anchor[f]].words = {}
    /\ \A n \in Members[f] : Covers(r.snaps[n], r.result[n])

IntentGood(f, i) ==
    /\ AtMostOne(i.backup)
    /\ \A n \in Members[f] : AtMostOne(i.snaps[n])
    /\ Reversible(i.tier) =>
          /\ i.backup # {} /\ Covers(i.backup, i.source[Anchor[f]])
          /\ \A n \in Members[f] : i.snaps[n] = {}
    /\ Destructive(i.tier) =>
          \A n \in Members[f] : i.snaps[n] # {} /\ Covers(i.snaps[n], i.source[n])

RowGood(f, row) ==
    /\ AtMostOne(row.receipt)
    /\ \A r \in row.receipt : ReceiptGood(f, r)
    /\ ~Destructive(row.tier) => \A r \in row.receipt : \A n \in Members[f] : r.snaps[n] = {}
    /\ row.tier = Full => row.receipt = {}
    /\ \A i \in row.intent : IntentGood(f, i) /\ i.tier > row.tier

StoreGood ==
    /\ \A f \in Fibers : AtMostOne(backup[f]) /\ RowGood(f, fiber[f])
    /\ \A n \in Neurons : AtMostOne(snap[n])

CompGood ==
    Compressing =>
        /\ IntentGood(comp.f, comp.intent)
        /\ RowGood(comp.f, comp.row) /\ comp.intent.tier > comp.row.tier
        /\ comp.pc = "writing" => comp.save = {}
        /\ \/ Reversible(comp.intent.tier) /\ comp.save \subseteq {comp.f}
           \/ Destructive(comp.intent.tier) /\ comp.save \subseteq Members[comp.f]
        /\ IF comp.f \in comp.save THEN backup[comp.f] = {}
           ELSE backup[comp.f] = comp.intent.backup \/ Anchor[comp.f] \in dropped
        /\ Destructive(comp.intent.tier) =>
              \A n \in Members[comp.f] :
                  IF n \in comp.save THEN snap[n] = {}
                  ELSE snap[n] = comp.intent.snaps[n] \/ n \in dropped
        /\ \A n \in Members[comp.f] \ touched :
              /\ n \in comp.todo => content[n].words \cap owed \subseteq comp.intent.source[n].words
              /\ \/ n \in comp.todo
                 \/ content[n] = Result(comp.f, comp.intent.tier, comp.intent.source)[n]
              /\ comp.pc = "saving" => \A r \in comp.row.receipt : content[n] = r.result[n]

Restorable(n) == n = Anchor[rest.f] \/ rest.drop # {rest.f}

RestGood ==
    Restoring =>
        /\ rest.pc = "dropping" => rest.todo = {}
        /\ \A n \in Members[rest.f] : Restorable(n) => AtMostOne(rest.texts[n])
        /\ IF rest.drop = {rest.f}
           THEN rest.texts[Anchor[rest.f]] = backup[rest.f] /\ backup[rest.f] # {}
           ELSE \A n \in rest.drop : rest.texts[n] = snap[n] /\ snap[n] # {}
        /\ \A n \in rest.todo \ stale : rest.row.receipt # {} =>
              \A text \in rest.texts[n] : content[n].words \cap owed \subseteq text.words
        /\ \A n \in Members[rest.f] \ (rest.todo \cup stale) : Restorable(n) =>
              \A text \in rest.texts[n] : text.words \cap owed \subseteq content[n].words

SafeInv == NothingLost /\ StoreGood /\ CompGood /\ RestGood

Held(w) ==
    \/ \E n \in Neurons : w \in content[n].words
    \/ \E f \in Fibers : \E text \in backup[f] : w \in text.words
    \/ \E n \in Neurons : \E text \in snap[n] : w \in text.words

WordsOf(c, b, s) ==
    UNION {text.words : text \in {c[n] : n \in Neurons}
                              \cup (UNION {b[f] : f \in Fibers})
                              \cup (UNION {s[n] : n \in Neurons})}

LEMMA UnionOfWords ==
  ASSUME NEW c, NEW b, NEW s, NEW w
  PROVE  w \in WordsOf(c, b, s) <=>
           \/ \E n \in Neurons : w \in c[n].words
           \/ \E f \in Fibers : \E text \in b[f] : w \in text.words
           \/ \E n \in Neurons : \E text \in s[n] : w \in text.words
<1> DEFINE X == {c[n] : n \in Neurons}
           Y == UNION {b[f] : f \in Fibers}
           Z == UNION {s[n] : n \in Neurons}
<1>1. \A text : text \in X <=> \E n \in Neurons : text = c[n]
  OBVIOUS
<1>2. \A text : text \in Y <=> \E f \in Fibers : text \in b[f]
  OBVIOUS
<1>3. \A text : text \in Z <=> \E n \in Neurons : text \in s[n]
  OBVIOUS
<1> HIDE DEF X, Y, Z
<1>4. w \in UNION {text.words : text \in X \cup Y \cup Z} <=>
        \E text \in X \cup Y \cup Z : w \in text.words
  OBVIOUS
<1>5. (\E text \in X \cup Y \cup Z : w \in text.words) <=>
           \/ \E n \in Neurons : w \in c[n].words
           \/ \E f \in Fibers : \E text \in b[f] : w \in text.words
           \/ \E n \in Neurons : \E text \in s[n] : w \in text.words
  BY <1>1, <1>2, <1>3
<1> QED
  BY <1>4, <1>5 DEF X, Y, Z, WordsOf

LEMMA SavedIsHeld ==
  /\ NothingLost <=> \A w \in owed : Held(w)
  /\ NothingLost' <=> \A w \in owed' : Held(w)'
<1>s. Saved = WordsOf(content, backup, snap)
  BY DEF Saved, WordsOf
<1>t. Saved' = WordsOf(content', backup', snap')
  BY DEF Saved, WordsOf
<1>1. \A w : w \in Saved <=> Held(w)
  BY <1>s, UnionOfWords DEF Held
<1>2. \A w : w \in Saved' <=> Held(w)'
  BY <1>t, UnionOfWords DEF Held
<1> QED
  BY <1>1, <1>2 DEF NothingLost

LEMMA InitSafe == Init => SafeInv
<1> SUFFICES ASSUME Init PROVE SafeInv
  OBVIOUS
<1>1. NothingLost
  <2>1. \A w \in owed : Held(w)
    BY DEF Init, Held, UserText
  <2> QED
    BY <2>1, SavedIsHeld
<1>2. StoreGood
  BY DEF Init, StoreGood, RowGood, AtMostOne
<1>3. CompGood /\ RestGood
  BY DEF Init, CompGood, RestGood, Compressing, Restoring, Idle
<1> QED
  BY <1>1, <1>2, <1>3 DEF SafeInv

\* A step that leaves alone what a compression has read, but for what it puts
\* into touched and dropped, keeps the compression good.
LEMMA CompKept ==
  ASSUME TypeInv, SafeInv, UNCHANGED comp,
         Compressing =>
           /\ touched \subseteq touched' /\ dropped \subseteq dropped'
           /\ \A n \in Members[comp.f] \ touched' :
                 content'[n] = content[n] /\ content[n].words \cap owed' \subseteq owed
           /\ \A n \in Members[comp.f] :
                 snap'[n] = snap[n] \/ (snap'[n] = {} /\ n \in dropped')
           /\ \/ backup'[comp.f] = backup[comp.f]
              \/ backup'[comp.f] = {} /\ Anchor[comp.f] \in dropped'
  PROVE  CompGood'
<1> SUFFICES ASSUME Compressing PROVE CompGood'
  BY DEF CompGood, Compressing
<1> Compressing' /\ UNCHANGED comp
  BY DEF Compressing
<1>1. IF comp.f \in comp.save THEN backup'[comp.f] = {}
      ELSE backup'[comp.f] = comp.intent.backup \/ Anchor[comp.f] \in dropped'
  BY DEF SafeInv, CompGood
<1>2. Destructive(comp.intent.tier) =>
        \A n \in Members[comp.f] :
          IF n \in comp.save THEN snap'[n] = {}
          ELSE snap'[n] = comp.intent.snaps[n] \/ n \in dropped'
  BY DEF SafeInv, CompGood
<1>3. ASSUME NEW n \in Members[comp.f] \ touched'
      PROVE  /\ n \in comp.todo =>
                   content'[n].words \cap owed' \subseteq comp.intent.source[n].words
             /\ \/ n \in comp.todo
                \/ content'[n] = Result(comp.f, comp.intent.tier, comp.intent.source)[n]
             /\ comp.pc = "saving" => \A r \in comp.row.receipt : content'[n] = r.result[n]
  <2>1. n \in Members[comp.f] \ touched /\ content'[n] = content[n]
        /\ content[n].words \cap owed' \subseteq owed
    BY <1>3
  <2> QED
    BY <2>1 DEF SafeInv, CompGood
<1> QED
  BY <1>1, <1>2, <1>3 DEF SafeInv, CompGood

\* The same of a restore, and what a step puts into stale.
LEMMA RestKept ==
  ASSUME TypeInv, SafeInv, UNCHANGED rest,
         Restoring =>
           /\ stale \subseteq stale'
           /\ \A n \in Members[rest.f] \ stale' :
                 /\ content'[n] = content[n] /\ content[n].words \cap owed' \subseteq owed
                 /\ Restorable(n) => \A text \in rest.texts[n] : text.words \cap owed' \subseteq owed
           /\ \A n \in Members[rest.f] : snap[n] # {} => snap'[n] = snap[n]
           /\ backup[rest.f] # {} => backup'[rest.f] = backup[rest.f]
  PROVE  RestGood'
<1> SUFFICES ASSUME Restoring PROVE RestGood'
  BY DEF RestGood, Restoring
<1> Restoring' /\ UNCHANGED rest /\ \A n : Restorable(n)' <=> Restorable(n)
  BY DEF Restoring, Restorable
<1>1. IF rest.drop = {rest.f}
      THEN rest.texts[Anchor[rest.f]] = backup'[rest.f] /\ backup'[rest.f] # {}
      ELSE \A n \in rest.drop : rest.texts[n] = snap'[n] /\ snap'[n] # {}
  BY DEF SafeInv, RestGood, TypeInv, RestType
<1>2. rest.todo \subseteq Members[rest.f]
  BY DEF TypeInv, RestType
<1>3. ASSUME NEW n \in rest.todo \ stale', rest.row.receipt # {}, NEW text \in rest.texts[n]
      PROVE  content'[n].words \cap owed' \subseteq text.words
  <2>1. n \in rest.todo \ stale /\ content'[n] = content[n]
        /\ content[n].words \cap owed' \subseteq owed
    BY <1>2, <1>3
  <2>2. content[n].words \cap owed \subseteq text.words
    BY <1>3, <2>1 DEF SafeInv, RestGood
  <2> QED
    BY <2>1, <2>2
<1>4. ASSUME NEW n \in Members[rest.f] \ (rest.todo \cup stale'), Restorable(n),
             NEW text \in rest.texts[n]
      PROVE  text.words \cap owed' \subseteq content'[n].words
  <2>1. n \in Members[rest.f] \ (rest.todo \cup stale) /\ content'[n] = content[n]
        /\ text.words \cap owed' \subseteq owed
    BY <1>4
  <2>2. text.words \cap owed \subseteq content[n].words
    BY <1>4, <2>1 DEF SafeInv, RestGood
  <2> QED
    BY <2>1, <2>2
<1> QED
  BY <1>1, <1>3, <1>4 DEF SafeInv, RestGood

\* A step that leaves the store, and owes nothing new, keeps both calls.
LEMMA StoreStays ==
  ASSUME SafeInv, UNCHANGED rows, owed' \subseteq owed
  PROVE  NothingLost' /\ StoreGood'
<1>1. NothingLost'
  BY SavedIsHeld DEF SafeInv, Held, rows
<1> QED
  BY <1>1 DEF SafeInv, StoreGood, rows

LEMMA CompStays ==
  ASSUME TypeInv, SafeInv, UNCHANGED <<comp, content, backup, snap, owed, touched, dropped>>
  PROVE  CompGood'
BY CompKept

LEMMA RestStays ==
  ASSUME TypeInv, SafeInv, UNCHANGED <<rest, content, backup, snap, owed, stale>>
  PROVE  RestGood'
BY RestKept

LEMMA WithReadHas ==
  ASSUME NEW call, NEW changed, NEW n
  PROVE  /\ changed \subseteq WithRead(call, changed, n)
         /\ WithRead(call, changed, n) \subseteq changed \cup {n}
         /\ call.pc # "idle" /\ n \in Members[call.f] => n \in WithRead(call, changed, n)
BY DEF WithRead

LEMMA EditSafe ==
  ASSUME TypeInv, SafeInv, NEW n \in Neurons, Edit(n)
  PROVE  SafeInv'
<1> DEFINE new == <<n, edits + 1>>
<1>1. /\ content' = [content EXCEPT ![n] = UserText(n, edits + 1)]
      /\ UserText(n, edits + 1).words = {new}
      /\ new \notin Known(edits)
  BY DEF Edit, UserText, Known, TypeInv, CountType
<1>2. /\ content'[n].words = {new}
      /\ \A m \in Neurons : m # n => content'[m] = content[m]
  BY <1>1 DEF TypeInv, StoreType
<1>3. /\ owed' = (owed \ content[n].words) \cup {new}
      /\ touched' = WithRead(comp, touched, n) /\ stale' = WithRead(rest, stale, n)
      /\ UNCHANGED <<backup, snap, fiber, comp, rest, dropped>>
  BY DEF Edit
<1>4. \A m \in Neurons : new \notin content[m].words
  BY <1>1 DEF TypeInv, TextType
<1> HIDE DEF new
<1>5. NothingLost'
  <2> SUFFICES ASSUME NEW w \in owed' PROVE Held(w)'
    BY SavedIsHeld
  <2>1. CASE w = new
    BY <1>2, <2>1 DEF Held
  <2>2. CASE w # new
    <3>1. Held(w) /\ w \notin content[n].words
      BY <1>3, <2>2, SavedIsHeld DEF SafeInv
    <3> QED
      BY <1>2, <1>3, <3>1 DEF Held
  <2> QED
    BY <2>1, <2>2
<1>6. StoreGood'
  BY <1>3 DEF SafeInv, StoreGood
<1>7. CompGood'
  <2>1. ASSUME Compressing, NEW m \in Members[comp.f] \ touched'
        PROVE  content'[m] = content[m] /\ content[m].words \cap owed' \subseteq owed
    <3>1. m \in Neurons /\ m # n
      BY <1>3, <2>1, Sets, WithReadHas DEF TypeInv, CompType, Compressing
    <3> QED
      BY <1>2, <1>3, <1>4, <3>1
  <2>2. touched \subseteq touched'
    BY <1>3, WithReadHas
  <2> QED
    BY <1>3, <2>1, <2>2, CompKept
<1>8. RestGood'
  <2>1. ASSUME Restoring, NEW m \in Members[rest.f] \ stale'
        PROVE  /\ content'[m] = content[m] /\ content[m].words \cap owed' \subseteq owed
               /\ Restorable(m) => \A text \in rest.texts[m] : text.words \cap owed' \subseteq owed
    <3>1. m \in Neurons /\ m # n
      BY <1>3, <2>1, Sets, WithReadHas DEF TypeInv, RestType, Restoring
    <3>2. ASSUME Restorable(m), NEW text \in rest.texts[m]
          PROVE  new \notin text.words
      BY <1>1, <2>1, <3>2 DEF Restorable, TypeInv, RestType, KnownTexts, new
    <3> QED
      BY <1>2, <1>3, <1>4, <3>1, <3>2
  <2>2. stale \subseteq stale'
    BY <1>3, WithReadHas
  <2> QED
    BY <1>3, <2>1, <2>2, RestKept
<1> QED
  BY <1>5, <1>6, <1>7, <1>8 DEF SafeInv

LEMMA PinSafe ==
  ASSUME TypeInv, SafeInv, NEW f \in Fibers, Pin(f)
  PROVE  SafeInv'
<1>1. PICK p \in BOOLEAN : fiber' = [fiber EXCEPT ![f].pinned = p]
  BY DEF Pin
<1>2. \A g \in Fibers : /\ fiber'[g].receipt = fiber[g].receipt
                        /\ fiber'[g].intent = fiber[g].intent
                        /\ fiber'[g].tier = fiber[g].tier
  BY <1>1 DEF TypeInv, StoreType, TextType, RowType
<1>u. UNCHANGED <<content, backup, snap, comp, rest, owed, others>>
  BY DEF Pin
<1>3. NothingLost'
  BY <1>u, SavedIsHeld DEF SafeInv, Held
<1>4. StoreGood'
  <2>1. \A g \in Fibers : RowGood(g, fiber[g]) => RowGood(g, fiber'[g])
    BY <1>2 DEF RowGood
  <2> QED
    BY <1>u, <2>1 DEF SafeInv, StoreGood
<1>5. CompGood' /\ RestGood'
  BY <1>u, CompStays, RestStays DEF others
<1> QED
  BY <1>3, <1>4, <1>5 DEF SafeInv

\* An anchor that a trusted receipt speaks of has no words left to lose.
LEMMA NewIntentGood ==
  ASSUME TypeInv, SafeInv, NEW f \in Fibers, NEW t \in Tiers, MayCompress(f, t)
  PROVE  IntentGood(f, NewIntent(f, t)) /\ NewIntent(f, t).tier > fiber[f].tier
<1> DEFINE i == NewIntent(f, t)
<1>1. /\ i.tier = t /\ t > fiber[f].tier
      /\ \A n \in Members[f] : i.source[n] = content[n]
      /\ i.backup = IF Reversible(t) /\ backup[f] = {} THEN {Joined(Live(f))} ELSE backup[f]
      /\ \A n \in Members[f] : i.snaps[n] =
            IF Reversible(t) THEN {} ELSE IF snap[n] = {} THEN {content[n]} ELSE snap[n]
  BY DEF NewIntent, MayCompress, Live
<1> HIDE DEF i
<1>2. RowGood(f, fiber[f]) /\ AtMostOne(backup[f])
  BY DEF SafeInv, StoreGood
<1>3. \A n \in Members[f] : AtMostOne(snap[n])
  BY Sets DEF SafeInv, StoreGood
<1>4. AtMostOne(i.backup) /\ \A n \in Members[f] : AtMostOne(i.snaps[n])
  BY <1>1, <1>2, <1>3 DEF AtMostOne
<1>5. ASSUME Reversible(t)
      PROVE  i.backup # {} /\ Covers(i.backup, i.source[Anchor[f]])
  <2>1. Anchor[f] \in Members[f]
    BY Sets
  <2>2. CASE backup[f] \subseteq {Joined(Live(f))}
    <3>1. i.backup = {Joined(Live(f))}
      BY <1>1, <1>5, <2>2
    <3> QED
      BY <1>1, <2>1, <3>1, JoinedWords DEF Covers
  <2>3. CASE backup[f] # {} /\ Trusted(f)
    <3>1. content[Anchor[f]].words = {}
      BY <1>2, <2>1, <2>3 DEF Trusted, LineageMatches, RowGood, ReceiptGood
    <3> QED
      BY <1>1, <2>1, <2>3, <3>1 DEF Covers
  <2> QED
    BY <2>2, <2>3 DEF MayCompress, BackupAgrees
<1>6. ASSUME Destructive(t), NEW n \in Members[f]
      PROVE  i.snaps[n] # {} /\ Covers(i.snaps[n], i.source[n])
  <2>1. ~Reversible(t)
    BY <1>6 DEF Destructive, Reversible
  <2>2. CASE snap[n] \subseteq {content[n]}
    BY <1>1, <2>1, <2>2 DEF Covers
  <2>3. CASE snap[n] # {} /\ Trusted(f) /\ \E r \in fiber[f].receipt : r.snaps[n] = snap[n]
    <3>1. PICK r \in fiber[f].receipt : r.snaps[n] = snap[n]
      BY <2>3
    <3>2. content[n] = r.result[n]
      BY <1>2, <2>3 DEF Trusted, LineageMatches, RowGood, AtMostOne
    <3>3. Covers(snap[n], content[n])
      BY <1>2, <3>1, <3>2 DEF RowGood, ReceiptGood
    <3> QED
      BY <1>1, <2>1, <2>3, <3>3
  <2> QED
    BY <1>6, <2>2, <2>3 DEF MayCompress, SnapshotAgrees
<1>7. \A n \in Members[f] : Reversible(t) => i.snaps[n] = {}
  BY <1>1
<1> QED
  BY <1>1, <1>4, <1>5, <1>6, <1>7 DEF IntentGood, i

\* What a compression begins with: the intent is good, and of what the neurons hold.
LEMMA CompressSafe ==
  ASSUME TypeInv, SafeInv, NEW f \in Fibers, Compress(f)
  PROVE  SafeInv'
<1>1. PICK t \in Tiers :
        /\ MayCompress(f, t)
        /\ comp' = [pc |-> "saving", f |-> f, row |-> fiber[f], intent |-> NewIntent(f, t),
                    save |-> Missing(f, t),
                    todo |-> IF t = 4 THEN StillToWrite(f, t) ELSE Written(f, t)]
  BY DEF Compress
<1>2. UNCHANGED <<rest, rows, owed, stale>>
  BY DEF Compress, others
<1>i. /\ NewIntent(f, t).tier = t
      /\ \A n \in Members[f] : NewIntent(f, t).source[n] = content[n]
      /\ NewIntent(f, t).backup =
            IF Reversible(t) /\ backup[f] = {} THEN {Joined(Live(f))} ELSE backup[f]
      /\ \A n \in Members[f] : NewIntent(f, t).snaps[n] =
            IF Reversible(t) THEN {} ELSE IF snap[n] = {} THEN {content[n]} ELSE snap[n]
  BY DEF NewIntent, Live
<1>s. f \notin Neurons /\ Members[f] \subseteq Neurons /\ Written(f, t) \subseteq Members[f]
  BY Sets
<1>k. Reversible(t) <=> ~Destructive(t)
  BY ConstantsAssumption DEF Reversible, Destructive
<1>3. CompGood'
  <2>1. comp'.todo \subseteq Members[f]
    BY <1>1, <1>s DEF StillToWrite
  <2>2. /\ f \in Missing(f, t) => backup[f] = {}
        /\ f \notin Missing(f, t) => backup[f] = NewIntent(f, t).backup
    BY <1>i, <1>s, <1>k DEF Missing
  <2>3. Destructive(t) => \A n \in Members[f] :
          IF n \in Missing(f, t) THEN snap[n] = {} ELSE snap[n] = NewIntent(f, t).snaps[n]
    BY <1>i, <1>k DEF Missing
  <2>4. \/ Reversible(t) /\ Missing(f, t) \subseteq {f}
        \/ Destructive(t) /\ Missing(f, t) \subseteq Members[f]
    BY <1>k DEF Missing
  <2>5. \A n \in Members[f] :
          n \in comp'.todo \/ content[n] = Result(f, t, NewIntent(f, t).source)[n]
    BY <1>1, <1>i DEF Result, StillToWrite
  <2>6. RowGood(f, fiber[f])
    BY DEF SafeInv, StoreGood
  <2>7. /\ comp'.pc = "saving" /\ comp'.f = f /\ comp'.row = fiber[f]
        /\ comp'.intent = NewIntent(f, t) /\ comp'.save = Missing(f, t)
    BY <1>1
  <2>8. UNCHANGED <<content, backup, snap, fiber>>
    BY <1>2 DEF rows
  <2>9. IntentGood(f, NewIntent(f, t)) /\ NewIntent(f, t).tier > fiber[f].tier
    BY <1>1, NewIntentGood
  <2>10. \A n \in comp'.todo : content[n].words \cap owed \subseteq NewIntent(f, t).source[n].words
    BY <1>i, <2>1
  <2>11. \A r \in fiber[f].receipt : \A n \in Members[f] : content[n] = r.result[n]
    BY <1>1, <2>6 DEF MayCompress, BackupAgrees, Trusted, LineageMatches, RowGood, AtMostOne
  <2> HIDE DEF Missing
  <2> QED
    BY <1>2, <1>i, <2>2, <2>3, <2>4, <2>5, <2>6, <2>7, <2>8, <2>9, <2>10, <2>11 DEF CompGood
<1> QED
  BY <1>2, <1>3, StoreStays, RestStays DEF SafeInv, rows

LEMMA ResumeSafe ==
  ASSUME TypeInv, SafeInv, NEW f \in Fibers, Resume(f)
  PROVE  SafeInv'
<1>1. PICK i \in fiber[f].intent :
        /\ SavedAsPrepared(f, i)
        /\ SourceOrTarget(f, i)
        /\ comp' = [pc |-> "writing", f |-> f, row |-> fiber[f], intent |-> i,
                    save |-> {}, todo |-> StillToWrite(f, i.tier)]
  BY DEF Resume
<1>2. UNCHANGED <<rest, rows, owed, stale>>
  BY DEF Resume, others
<1>3. CompGood'
  <2>1. RowGood(f, fiber[f]) /\ IntentGood(f, i) /\ i.tier > fiber[f].tier
    BY <1>1 DEF SafeInv, StoreGood, RowGood
  <2>2. StillToWrite(f, i.tier) \subseteq Members[f]
    BY Sets DEF StillToWrite
  <2>3. \A n \in StillToWrite(f, i.tier) : content[n] = i.source[n]
    BY <1>1, <2>2 DEF SourceOrTarget, StillToWrite, Result
  <2>4. \A n \in Members[f] :
          n \in StillToWrite(f, i.tier) \/ content[n] = Result(f, i.tier, i.source)[n]
    BY <1>1 DEF SourceOrTarget, StillToWrite, Result
  <2>5. UNCHANGED <<content, backup, snap, fiber>>
    BY <1>2 DEF rows
  <2>6. /\ comp'.pc = "writing" /\ comp'.f = f /\ comp'.row = fiber[f] /\ comp'.intent = i
        /\ comp'.save = {} /\ comp'.todo = StillToWrite(f, i.tier)
    BY <1>1
  <2>7. Reversible(i.tier) \/ Destructive(i.tier)
    <3>1. i.tier \in 1 .. 4
      BY <1>1, ConstantsAssumption DEF TypeInv, TextType, RowType, IntentType
    <3> QED
      BY <3>1 DEF Reversible, Destructive
  <2>8. Destructive(i.tier) => \A n \in Members[f] : snap[n] = i.snaps[n]
    BY <1>1 DEF SavedAsPrepared
  <2>9. backup[f] = i.backup
    BY <1>1 DEF SavedAsPrepared
  <2> QED
    BY <1>2, <2>1, <2>3, <2>4, <2>5, <2>6, <2>7, <2>8, <2>9 DEF CompGood
<1> QED
  BY <1>2, <1>3, StoreStays, RestStays DEF SafeInv, rows

LEMMA SaveSafe ==
  ASSUME TypeInv, SafeInv, SaveBackup \/ \E n \in Neurons : SaveSnapshot(n)
  PROVE  SafeInv'
<1>1. CASE SaveBackup
  <2> DEFINE f == comp.f
  <2>1. /\ Compressing /\ f \in Fibers /\ f \notin Neurons /\ f \in comp.save
        /\ Members[f] \subseteq Neurons
    BY <1>1, Sets DEF SaveBackup, TypeInv, CompType
  <2>2. backup[f] = {} /\ AtMostOne(comp.intent.backup)
    BY <2>1 DEF SafeInv, CompGood, IntentGood
  <2>3. /\ backup'[f] = comp.intent.backup
        /\ \A g \in Fibers : g # f => backup'[g] = backup[g]
        /\ UNCHANGED <<content, snap, fiber, rest, owed, touched, dropped, stale>>
    BY <1>1, <2>1 DEF SaveBackup, TypeInv, StoreType, others
  <2>4. /\ comp'.pc = comp.pc /\ comp'.f = f /\ comp'.row = comp.row
        /\ comp'.intent = comp.intent /\ comp'.save = {} /\ comp'.todo = comp.todo
    BY <1>1, <2>1 DEF SaveBackup, TypeInv, CompType
  <2>5. NothingLost'
    <3> SUFFICES ASSUME NEW w \in owed' PROVE Held(w)'
      BY SavedIsHeld
    <3>1. Held(w)
      BY <2>3, SavedIsHeld DEF SafeInv
    <3> QED
      BY <2>2, <2>3, <3>1 DEF Held
  <2>6. StoreGood'
    BY <2>2, <2>3 DEF SafeInv, StoreGood
  <2>7. CompGood'
    <3>1. Reversible(comp.intent.tier) /\ ~Destructive(comp.intent.tier)
      BY <2>1 DEF SafeInv, CompGood, Reversible, Destructive
    <3> QED
      BY <2>1, <2>3, <2>4, <3>1 DEF SafeInv, CompGood
  <2>8. RestGood'
    <3>1. Restoring => rest.f \in Fibers
      BY DEF TypeInv, RestType
    <3> QED
      BY <2>2, <2>3, <3>1, RestKept
  <2> QED
    BY <2>5, <2>6, <2>7, <2>8 DEF SafeInv
<1>2. ASSUME NEW n \in Neurons, SaveSnapshot(n)
      PROVE  SafeInv'
  <2> DEFINE f == comp.f
  <2>1. /\ Compressing /\ f \in Fibers /\ f # n /\ n \in comp.save
        /\ Members[f] \subseteq Neurons
        /\ n \in Members[f]
    BY <1>2, Sets DEF SaveSnapshot, TypeInv, CompType
  <2>2. Destructive(comp.intent.tier) /\ comp.save \subseteq Members[f] /\ f \notin comp.save
    BY <2>1, Sets DEF SafeInv, CompGood
  <2>3. snap[n] = {} /\ AtMostOne(comp.intent.snaps[n])
    BY <2>1, <2>2 DEF SafeInv, CompGood, IntentGood
  <2>4. /\ snap'[n] = comp.intent.snaps[n]
        /\ \A m \in Neurons : m # n => snap'[m] = snap[m]
        /\ UNCHANGED <<content, backup, fiber, rest, owed, touched, dropped, stale>>
    BY <1>2, <2>1 DEF SaveSnapshot, TypeInv, StoreType, others
  <2>5. /\ comp'.pc = comp.pc /\ comp'.f = f /\ comp'.row = comp.row
        /\ comp'.intent = comp.intent /\ comp'.save = comp.save \ {n}
        /\ comp'.todo = comp.todo
    BY <1>2, <2>1 DEF SaveSnapshot, TypeInv, CompType
  <2>6. NothingLost'
    <3> SUFFICES ASSUME NEW w \in owed' PROVE Held(w)'
      BY SavedIsHeld
    <3>1. Held(w)
      BY <2>4, SavedIsHeld DEF SafeInv
    <3> QED
      BY <2>3, <2>4, <3>1 DEF Held
  <2>7. StoreGood'
    BY <2>3, <2>4 DEF SafeInv, StoreGood
  <2>8. CompGood'
    <3>1. \A m \in Members[f] : IF m \in comp'.save THEN snap'[m] = {}
                                ELSE snap'[m] = comp.intent.snaps[m] \/ m \in dropped
      BY <2>1, <2>2, <2>4, <2>5 DEF SafeInv, CompGood
    <3>2. Compressing' /\ f \notin comp'.save /\ comp'.save \subseteq Members[f]
          /\ (comp.pc = "writing" => comp'.save = {})
      BY <2>1, <2>2, <2>5 DEF Compressing, SafeInv, CompGood
    <3> QED
      BY <2>1, <2>2, <2>4, <2>5, <3>1, <3>2 DEF SafeInv, CompGood
  <2>9. RestGood'
    <3>1. Restoring => Members[rest.f] \subseteq Neurons
      BY Sets DEF TypeInv, RestType
    <3> QED
      BY <2>3, <2>4, <3>1, RestKept
  <2> QED
    BY <2>6, <2>7, <2>8, <2>9 DEF SafeInv
<1> QED
  BY <1>1, <1>2

LEMMA WriteIntentSafe ==
  ASSUME TypeInv, SafeInv, WriteIntent
  PROVE  SafeInv'
<1> DEFINE f == comp.f
<1>1. Compressing /\ f \in Fibers
  BY DEF WriteIntent, Compressing, TypeInv, CompType
<1>2. /\ fiber'[f] = [comp.row EXCEPT !.intent = {comp.intent}]
      /\ \A g \in Fibers : g # f => fiber'[g] = fiber[g]
      /\ UNCHANGED <<content, backup, snap, rest, owed, touched, dropped, stale>>
  BY <1>1 DEF WriteIntent, TypeInv, StoreType, others
<1>3. /\ fiber'[f].receipt = comp.row.receipt /\ fiber'[f].tier = comp.row.tier
      /\ fiber'[f].intent = {comp.intent}
  BY <1>1, <1>2 DEF TypeInv, CompType, RowType
<1>4. /\ comp'.pc = "writing" /\ comp'.f = f /\ comp'.row = comp.row
      /\ comp'.intent = comp.intent /\ comp'.save = comp.save /\ comp.save = {}
      /\ comp'.todo = comp.todo
  BY <1>1 DEF WriteIntent, TypeInv, CompType
<1>5. NothingLost'
  BY <1>2, SavedIsHeld DEF SafeInv, Held
<1>6. RowGood(f, fiber'[f])
  BY <1>1, <1>3 DEF SafeInv, CompGood, RowGood
<1>7. StoreGood'
  BY <1>2, <1>6 DEF SafeInv, StoreGood
<1>8. CompGood'
  BY <1>1, <1>2, <1>4 DEF SafeInv, CompGood
<1> QED
  BY <1>2, <1>5, <1>7, <1>8, RestStays DEF SafeInv

\* What is overwritten is in its backup or snapshot, unless it is forfeited.
LEMMA WriteNeuronSafe ==
  ASSUME TypeInv, SafeInv, NEW n \in Neurons, WriteNeuron(n)
  PROVE  SafeInv'
<1> DEFINE f == comp.f
           t == comp.intent.tier
<1>1. /\ Compressing /\ f \in Fibers /\ n \in comp.todo /\ comp.save = {}
      /\ comp.pc = "writing" /\ comp.todo \subseteq Written(f, t) /\ t \in 1 .. 4
  BY ConstantsAssumption
     DEF WriteNeuron, Compressing, TypeInv, CompType, IntentType, SafeInv, CompGood
<1>2. /\ n \in Members[f] /\ Members[f] \subseteq Neurons /\ n \in Written(f, t)
      /\ Written(f, t) \subseteq Members[f]
  BY <1>1, Sets
<1>3. /\ content'[n] = Target(f, t)
      /\ \A m \in Neurons : m # n => content'[m] = content[m]
      /\ touched' = touched \ {n} /\ stale' = WithRead(rest, stale, n)
      /\ UNCHANGED <<backup, snap, fiber, rest, dropped>>
  BY DEF WriteNeuron, TypeInv, StoreType
<1>o. /\ owed' \subseteq owed
      /\ n \in touched \cup dropped => content[n].words \cap owed' = {}
  BY DEF WriteNeuron, Forfeit
<1>4. /\ comp'.pc = comp.pc /\ comp'.f = f /\ comp'.row = comp.row
      /\ comp'.intent = comp.intent /\ comp'.save = comp.save /\ comp'.todo = comp.todo \ {n}
  BY <1>1 DEF WriteNeuron, TypeInv, CompType
<1>5. NothingLost'
  <2> SUFFICES ASSUME NEW w \in owed' PROVE Held(w)'
    BY SavedIsHeld
  <2>1. Held(w)
    BY <1>o, SavedIsHeld DEF SafeInv
  <2>2. CASE w \notin content[n].words
    BY <1>3, <2>1, <2>2 DEF Held
  <2>3. CASE w \in content[n].words
    <3>1. n \notin touched /\ n \notin dropped
      BY <1>o, <2>3
    <3>2. w \in comp.intent.source[n].words
      BY <1>1, <1>2, <1>o, <2>3, <3>1 DEF SafeInv, CompGood
    <3>3. CASE Reversible(t)
      <4>1. n = Anchor[f]
        BY <1>2, <3>3 DEF Written, Reversible
      <4>2. backup[f] = comp.intent.backup
        BY <1>1, <3>1, <4>1 DEF SafeInv, CompGood
      <4>3. \E text \in backup[f] : w \in text.words
        BY <1>1, <3>2, <3>3, <4>1, <4>2 DEF SafeInv, CompGood, IntentGood, Covers
      <4> QED
        BY <1>1, <1>3, <4>3 DEF Held
    <3>4. CASE Destructive(t)
      <4>1. snap[n] = comp.intent.snaps[n]
        BY <1>1, <1>2, <3>1, <3>4 DEF SafeInv, CompGood
      <4>2. \E text \in snap[n] : w \in text.words
        BY <1>1, <1>2, <3>2, <3>4, <4>1 DEF SafeInv, CompGood, IntentGood, Covers
      <4> QED
        BY <1>3, <4>2 DEF Held
    <3> QED
      BY <1>1, <3>3, <3>4 DEF Reversible, Destructive
  <2> QED
    BY <2>2, <2>3
<1>6. StoreGood'
  BY <1>3 DEF SafeInv, StoreGood
<1>7. CompGood'
  <2>1. ASSUME NEW m \in Members[f] \ touched'
        PROVE  /\ m \in comp'.todo =>
                     content'[m].words \cap owed' \subseteq comp.intent.source[m].words
               /\ m \in comp'.todo \/ content'[m] = Result(f, t, comp.intent.source)[m]
    <3>1. CASE m = n
      BY <1>2, <1>3, <1>4, <3>1 DEF Result
    <3>2. CASE m # n
      <4>1. m \in Members[f] \ touched /\ content'[m] = content[m]
        BY <1>2, <1>3, <2>1, <3>2
      <4> QED
        BY <1>1, <1>4, <1>o, <3>2, <4>1 DEF SafeInv, CompGood
    <3> QED
      BY <3>1, <3>2
  <2> QED
    BY <1>1, <1>3, <1>4, <2>1 DEF SafeInv, CompGood
<1>8. RestGood'
  <2>1. ASSUME Restoring, NEW m \in Members[rest.f] \ stale'
        PROVE  content'[m] = content[m]
    <3>1. m \in Neurons /\ m # n
      BY <1>3, <2>1, Sets, WithReadHas DEF TypeInv, RestType, Restoring
    <3> QED
      BY <1>3, <3>1
  <2>2. stale \subseteq stale'
    BY <1>3, WithReadHas
  <2> QED
    BY <1>3, <1>o, <2>1, <2>2, RestKept
<1> QED
  BY <1>5, <1>6, <1>7, <1>8 DEF SafeInv

\* The receipt of a completed compression is good because its intent is.
LEMMA WriteFiberSafe ==
  ASSUME TypeInv, SafeInv, WriteFiber
  PROVE  SafeInv'
<1> DEFINE f == comp.f
           i == comp.intent
           new == Receipt(f, comp.row, i)
<1>1. /\ Compressing /\ f \in Fibers /\ i.tier \in 1 .. 4
      /\ IntentGood(f, i) /\ RowGood(f, comp.row) /\ i.tier > comp.row.tier
      /\ comp.row.tier \in {Full} \cup (1 .. 4)
  BY ConstantsAssumption
     DEF WriteFiber, Compressing, TypeInv, CompType, IntentType, RowType, SafeInv, CompGood
<1>2. /\ fiber'[f] = Finished(f, comp.row, i)
      /\ \A g \in Fibers : g # f => fiber'[g] = fiber[g]
      /\ UNCHANGED <<content, backup, snap, rest, owed, stale>>
      /\ comp' = Idle
  BY <1>1 DEF WriteFiber, TypeInv, StoreType
<1>k. Reversible(i.tier) <=> ~Destructive(i.tier)
  BY <1>1 DEF Reversible, Destructive
<1>3. \A n \in Members[f] : new.snaps[n] = i.snaps[n]
  <2>1. CASE Destructive(i.tier)
    BY <1>k, <2>1 DEF Receipt
  <2>2. CASE Reversible(i.tier)
    <3>1. ~Destructive(comp.row.tier)
      BY <1>1, <2>2 DEF Reversible, Destructive, Full
    <3>2. \A n \in Members[f] : UNION {r.snaps[n] : r \in comp.row.receipt} = {}
      BY <1>1, <3>1 DEF RowGood
    <3>3. \A n \in Members[f] :
            new.snaps[n] = i.snaps[n] \cup (UNION {r.snaps[n] : r \in comp.row.receipt})
      BY <2>2 DEF Receipt
    <3> QED
      BY <3>2, <3>3
  <2> QED
    BY <1>k, <2>1, <2>2
<1>4. \A n \in Members[f] : new.result[n] =
          IF n \in Written(f, i.tier) THEN Target(f, i.tier) ELSE i.source[n]
  BY DEF Receipt, Result
<1> HIDE DEF new
<1>5. ReceiptGood(f, new)
  <2>1. new.result[Anchor[f]].words = {}
    BY <1>1, <1>4, Sets, TargetEmpty
  <2>2. ASSUME NEW n \in Members[f]
        PROVE  Covers(new.snaps[n], new.result[n])
    <3>1. CASE n \in Written(f, i.tier)
      BY <1>4, <3>1, TargetEmpty DEF Covers
    <3>2. CASE n \notin Written(f, i.tier)
      BY <1>1, <1>k, <1>3, <1>4, <3>2 DEF IntentGood, Covers
    <3> QED
      BY <3>1, <3>2
  <2> QED
    BY <2>1, <2>2 DEF ReceiptGood
<1>6. /\ fiber'[f].receipt = {new} /\ fiber'[f].intent = {} /\ fiber'[f].tier = i.tier
  BY <1>2 DEF Finished, new
<1>7. RowGood(f, fiber'[f])
  BY <1>1, <1>k, <1>3, <1>5, <1>6 DEF RowGood, AtMostOne, IntentGood, Full
<1>8. NothingLost'
  BY <1>2, SavedIsHeld DEF SafeInv, Held
<1>9. StoreGood'
  BY <1>2, <1>7 DEF SafeInv, StoreGood
<1> QED
  BY <1>2, <1>8, <1>9, RestStays DEF SafeInv, CompGood, Compressing, Idle

LEMMA RecoverSafe ==
  ASSUME TypeInv, SafeInv, NEW f \in Fibers, Recover(f) \/ Decompress(f)
  PROVE  SafeInv'
<1> Members[f] \subseteq Neurons /\ Anchor[f] \in Members[f] /\ f \notin Neurons
  BY Sets
<1> RowGood(f, fiber[f]) /\ AtMostOne(backup[f]) /\ \A n \in Members[f] : AtMostOne(snap[n])
  BY DEF SafeInv, StoreGood
<1>1. UNCHANGED <<rows, owed, comp, touched, dropped>>
  BY DEF Recover, Decompress, BeginRestore, others
<1>u. UNCHANGED <<content, backup, snap>>
  BY <1>1 DEF rows
<1>2. CASE Recover(f)
  <2>1. /\ rest'.pc = "restoring" /\ rest'.f = f /\ rest'.row = fiber[f]
        /\ rest'.texts = [n \in Members[f] |-> snap[n]]
        /\ rest'.todo = {n \in Members[f] : snap[n] # {content[n]}}
        /\ rest'.drop = Members[f]
    BY <1>2 DEF Recover, BeginRestore
  <2>2. PICK r \in fiber[f].receipt :
          \A n \in Members[f] : snap[n] = r.snaps[n] /\ snap[n] # {}
    BY <1>2 DEF Recover
  <2>3. \A n \in Members[f] : content[n] \in {r.result[n]} \cup snap[n]
    BY <1>2 DEF Recover, LineageMatches, RowGood, AtMostOne
  <2>4. \A n \in Members[f] : content[n] \in snap[n] => snap[n] = {content[n]}
    BY DEF AtMostOne
  <2>5. \A n \in Members[f] : Covers(snap[n], r.result[n])
    BY <2>2 DEF RowGood, ReceiptGood
  <2>6. ASSUME NEW n \in rest'.todo, NEW text \in rest'.texts[n]
        PROVE  content[n].words \cap owed \subseteq text.words
    BY <2>1, <2>3, <2>4, <2>5, <2>6 DEF Covers
  <2>7. ASSUME NEW n \in Members[f] \ rest'.todo, NEW text \in rest'.texts[n]
        PROVE  text.words \cap owed \subseteq content[n].words
    BY <2>1, <2>7
  <2>8. RestGood'
    BY <1>1, <1>u, <2>1, <2>2, <2>6, <2>7 DEF RestGood, Restorable
  <2> QED
    BY <1>1, <1>u, <2>8, StoreStays, CompStays DEF SafeInv
<1>3. CASE Decompress(f)
  <2>1. /\ rest'.pc = "restoring" /\ rest'.f = f /\ rest'.row = fiber[f]
        /\ rest'.texts = [n \in {Anchor[f]} |-> backup[f]]
        /\ rest'.todo = {Anchor[f]} /\ rest'.drop = {f} /\ backup[f] # {}
    BY <1>3 DEF Decompress, BeginRestore
  <2>2. ASSUME rest'.row.receipt # {}, NEW text \in backup[f]
        PROVE  content[Anchor[f]].words \cap owed \subseteq text.words
    <3>1. PICK r \in fiber[f].receipt : content[Anchor[f]] \in {r.result[Anchor[f]]} \cup backup[f]
      BY <1>3, <2>1, <2>2 DEF Decompress, LineageMatches
    <3> QED
      BY <2>2, <3>1 DEF RowGood, ReceiptGood, AtMostOne
  <2>3. RestGood'
    BY <1>1, <1>u, <2>1, <2>2 DEF RestGood, Restorable
  <2> QED
    BY <1>1, <1>u, <2>3, StoreStays, CompStays DEF SafeInv
<1> QED
  BY <1>2, <1>3

LEMMA RestoreNeuronSafe ==
  ASSUME TypeInv, SafeInv, NEW n \in Neurons, RestoreNeuron(n)
  PROVE  SafeInv'
<1>1. /\ Restoring /\ n \in rest.todo /\ n \in Members[rest.f]
      /\ Members[rest.f] \subseteq Neurons /\ rest.f \in Fibers
      /\ Anchor[rest.f] \in Members[rest.f] /\ rest.f \notin Neurons
  BY Sets DEF RestoreNeuron, TypeInv, RestType
<1>2. Restorable(n) /\ AtMostOne(rest.texts[n])
  BY <1>1 DEF Restorable, TypeInv, RestType, SafeInv, RestGood
<1>3. PICK text \in rest.texts[n] :
        /\ content' = [content EXCEPT ![n] = text]
        /\ owed' = IF n \in stale \/ rest.row.receipt = {}
                   THEN owed \ (content[n].words \ text.words) ELSE owed
  BY DEF RestoreNeuron
<1>4. /\ content'[n] = text
      /\ \A m \in Neurons : m # n => content'[m] = content[m]
      /\ owed' \subseteq owed
      /\ content[n].words \cap owed' \subseteq text.words
  BY <1>1, <1>3 DEF TypeInv, StoreType, SafeInv, RestGood
<1>5. /\ UNCHANGED <<backup, snap, fiber, comp, dropped>>
      /\ touched' = WithRead(comp, touched, n) /\ stale' = stale \ {n}
  BY DEF RestoreNeuron
<1>6. /\ rest'.pc = rest.pc /\ rest'.f = rest.f /\ rest'.row = rest.row
      /\ rest'.texts = rest.texts /\ rest'.drop = rest.drop /\ rest'.todo = rest.todo \ {n}
  BY <1>1 DEF RestoreNeuron, TypeInv, RestType
<1>7. NothingLost'
  <2> SUFFICES ASSUME NEW w \in owed' PROVE Held(w)'
    BY SavedIsHeld
  <2>1. Held(w)
    BY <1>4, SavedIsHeld DEF SafeInv
  <2> QED
    BY <1>4, <1>5, <2>1 DEF Held
<1>8. RestGood'
  <2>1. rest.todo \subseteq Neurons
    BY <1>1 DEF TypeInv, RestType
  <2>2. ASSUME NEW m \in rest'.todo \ stale', rest.row.receipt # {}, NEW x \in rest.texts[m]
        PROVE  content'[m].words \cap owed' \subseteq x.words
    <3>1. m \in rest.todo \ stale /\ m # n
      BY <1>5, <1>6, <2>2
    <3>2. content[m].words \cap owed \subseteq x.words
      BY <1>1, <2>2, <3>1 DEF SafeInv, RestGood
    <3> QED
      BY <1>4, <2>1, <3>1, <3>2
  <2>3. ASSUME NEW m \in Members[rest.f] \ (rest'.todo \cup stale'), Restorable(m),
               NEW x \in rest.texts[m]
        PROVE  x.words \cap owed' \subseteq content'[m].words
    <3>1. CASE m = n
      BY <1>2, <1>4, <2>3, <3>1 DEF AtMostOne
    <3>2. CASE m # n
      <4>1. m \in Members[rest.f] \ (rest.todo \cup stale)
        BY <1>5, <1>6, <2>3, <3>2
      <4>2. x.words \cap owed \subseteq content[m].words
        BY <1>1, <2>3, <4>1 DEF SafeInv, RestGood
      <4> QED
        BY <1>1, <1>4, <3>2, <4>2
    <3> QED
      BY <3>1, <3>2
  <2> QED
    BY <1>1, <1>5, <1>6, <2>2, <2>3 DEF SafeInv, RestGood, Restoring, Restorable
<1>9. CompGood'
  <2>1. ASSUME Compressing, NEW m \in Members[comp.f] \ touched'
        PROVE  content'[m] = content[m]
    <3>1. m \in Neurons /\ m # n
      BY <1>5, <2>1, Sets, WithReadHas DEF TypeInv, CompType, Compressing
    <3> QED
      BY <1>4, <3>1
  <2>2. touched \subseteq touched'
    BY <1>5, WithReadHas
  <2> QED
    BY <1>4, <1>5, <2>1, <2>2, CompKept
<1> QED
  BY <1>5, <1>7, <1>8, <1>9 DEF SafeInv, StoreGood

LEMMA ResetFiberSafe ==
  ASSUME TypeInv, SafeInv, ResetFiber
  PROVE  SafeInv'
<1>1. Restoring /\ rest.f \in Fibers
  BY DEF ResetFiber, Restoring, TypeInv, RestType
<1>2. /\ fiber'[rest.f] = Restored(rest.row)
      /\ \A g \in Fibers : g # rest.f => fiber'[g] = fiber[g]
      /\ UNCHANGED <<content, backup, snap, comp, owed, touched, dropped, stale>>
  BY <1>1 DEF ResetFiber, TypeInv, StoreType, others
<1>3. /\ rest'.pc = "dropping" /\ rest'.f = rest.f /\ rest'.row = rest.row
      /\ rest'.texts = rest.texts /\ rest'.drop = rest.drop /\ rest'.todo = {} /\ rest.todo = {}
  BY <1>1 DEF ResetFiber, TypeInv, RestType
<1>4. NothingLost'
  BY <1>2, SavedIsHeld DEF SafeInv, Held
<1>5. StoreGood'
  <2>1. RowGood(rest.f, Restored(rest.row))
    BY DEF RowGood, Restored, AtMostOne
  <2> QED
    BY <1>2, <2>1 DEF SafeInv, StoreGood
<1>6. RestGood'
  BY <1>1, <1>2, <1>3 DEF SafeInv, RestGood, Restoring, Restorable
<1> QED
  BY <1>2, <1>4, <1>5, <1>6, CompStays DEF SafeInv

\* What is dropped is in the neurons again, unless it is forfeited.
LEMMA DropSafe ==
  ASSUME TypeInv, SafeInv, DropBackup \/ \E n \in Neurons : DropSnapshot(n)
  PROVE  SafeInv'
<1> DEFINE f == rest.f
<1>1. /\ Restoring /\ f \in Fibers /\ rest.todo = {}
      /\ Members[f] \subseteq Neurons /\ Anchor[f] \in Members[f] /\ f \notin Neurons
  BY Sets DEF DropBackup, DropSnapshot, Restoring, TypeInv, RestType, SafeInv, RestGood
<1>c. Compressing => comp.f \in Fibers /\ Members[comp.f] \subseteq Neurons
  BY Sets DEF TypeInv, CompType
<1>2. CASE DropBackup
  <2>1. /\ backup'[f] = {}
        /\ \A g \in Fibers : g # f => backup'[g] = backup[g]
        /\ UNCHANGED <<content, snap, fiber, comp, touched>> /\ rest' = Idle /\ rest.drop = {f}
    BY <1>1, <1>2 DEF DropBackup, TypeInv, StoreType
  <2>o. /\ owed' \subseteq owed /\ dropped \subseteq dropped'
        /\ Compressing /\ comp.f = f => Anchor[f] \in dropped'
        /\ Anchor[f] \in stale => \A text \in backup[f] : text.words \cap owed' = {}
    BY <1>2 DEF DropBackup, Forfeit
  <2>2. NothingLost'
    <3> SUFFICES ASSUME NEW w \in owed' PROVE Held(w)'
      BY SavedIsHeld
    <3>1. Held(w) /\ w \in owed
      BY <2>o, SavedIsHeld DEF SafeInv
    <3>2. (\E text \in backup[f] : w \in text.words) => w \in content[Anchor[f]].words
      BY <1>1, <2>1, <2>o, <3>1 DEF SafeInv, RestGood, Restorable
    <3> QED
      BY <1>1, <2>1, <3>1, <3>2 DEF Held
  <2>3. StoreGood'
    BY <2>1 DEF SafeInv, StoreGood, AtMostOne
  <2>4. CompGood'
    BY <1>c, <2>1, <2>o, CompKept
  <2>5. RestGood'
    BY <2>1 DEF RestGood, Restoring, Idle
  <2> QED
    BY <2>2, <2>3, <2>4, <2>5 DEF SafeInv
<1>3. ASSUME NEW n \in Neurons, DropSnapshot(n)
      PROVE  SafeInv'
  <2>1. /\ snap'[n] = {}
        /\ \A m \in Neurons : m # n => snap'[m] = snap[m]
        /\ UNCHANGED <<content, backup, fiber, comp, touched>> /\ n \in rest.drop
    BY <1>3 DEF DropSnapshot, TypeInv, StoreType
  <2>o. /\ owed' \subseteq owed /\ dropped' = WithRead(comp, dropped, n)
        /\ n \in stale => \A text \in snap[n] : text.words \cap owed' = {}
    BY <1>3 DEF DropSnapshot, Forfeit
  <2>2. rest.drop # {f} /\ rest.drop \subseteq Members[f]
    BY <1>1, <2>1 DEF TypeInv, RestType
  <2>3. NothingLost'
    <3> SUFFICES ASSUME NEW w \in owed' PROVE Held(w)'
      BY SavedIsHeld
    <3>1. Held(w) /\ w \in owed
      BY <2>o, SavedIsHeld DEF SafeInv
    <3>2. (\E text \in snap[n] : w \in text.words) => w \in content[n].words
      BY <1>1, <2>1, <2>2, <2>o, <3>1 DEF SafeInv, RestGood, Restorable
    <3> QED
      BY <2>1, <3>1, <3>2 DEF Held
  <2>4. StoreGood'
    BY <2>1 DEF SafeInv, StoreGood, AtMostOne
  <2>5. RestGood'
    <3>1. CASE rest' = Idle
      BY <3>1 DEF RestGood, Restoring, Idle
    <3>2. CASE rest' = [rest EXCEPT !.drop = @ \ {n}] /\ rest.drop # {n} /\ UNCHANGED stale
      <4>1. /\ rest'.pc = rest.pc /\ rest'.f = f /\ rest'.row = rest.row
            /\ rest'.texts = rest.texts /\ rest'.todo = {} /\ rest'.drop = rest.drop \ {n}
        BY <1>1, <3>2 DEF TypeInv, RestType
      <4>2. rest'.drop # {f}
        BY <1>1, <2>2, <4>1
      <4>3. \A m \in rest'.drop : rest'.texts[m] = snap'[m] /\ snap'[m] # {}
        BY <1>1, <2>1, <2>2, <4>1 DEF SafeInv, RestGood
      <4>4. \A m \in Members[f] : AtMostOne(rest.texts[m])
        BY <1>1, <2>2 DEF SafeInv, RestGood, Restorable
      <4>5. \A m \in Members[f] \ stale :
              \A text \in rest.texts[m] : text.words \cap owed' \subseteq content[m].words
        BY <1>1, <2>2, <2>o DEF SafeInv, RestGood, Restorable
      <4> QED
        BY <1>1, <2>1, <3>2, <4>1, <4>2, <4>3, <4>4, <4>5 DEF RestGood
    <3> QED
      BY <1>3, <3>1, <3>2 DEF DropSnapshot
  <2>6. CompGood'
    <3>1. Compressing => dropped \subseteq dropped'
                         /\ (n \in Members[comp.f] => n \in dropped')
      BY <2>o, WithReadHas DEF Compressing
    <3> QED
      BY <1>c, <2>1, <2>o, <3>1, CompKept
  <2> QED
    BY <2>3, <2>4, <2>5, <2>6 DEF SafeInv
<1> QED
  BY <1>2, <1>3

LEMMA CrashSafe ==
  ASSUME TypeInv, SafeInv, Crash \/ StartPass \/ UNCHANGED vars
  PROVE  SafeInv'
<1>1. /\ UNCHANGED <<rows, owed>>
      /\ UNCHANGED <<comp, touched, dropped>> \/ comp' = Idle
      /\ UNCHANGED <<rest, stale>> \/ rest' = Idle
  BY DEF Crash, StartPass, vars, others
<1>u. UNCHANGED <<content, backup, snap>>
  BY <1>1 DEF rows
<1>2. CompGood'
  <2>1. CASE comp' = Idle
    BY <2>1 DEF CompGood, Compressing, Idle
  <2> QED
    BY <1>1, <1>u, <2>1, CompStays
<1>3. RestGood'
  <2>1. CASE rest' = Idle
    BY <2>1 DEF RestGood, Restoring, Idle
  <2> QED
    BY <1>1, <1>u, <2>1, RestStays
<1> QED
  BY <1>1, <1>2, <1>3, StoreStays DEF SafeInv

LEMMA StepSafe == TypeInv /\ SafeInv /\ [Next]_vars => SafeInv'
<1> SUFFICES ASSUME TypeInv, SafeInv, [Next]_vars PROVE SafeInv'
  OBVIOUS
<1>1. CASE \E n \in Neurons : Edit(n)
  BY <1>1, EditSafe
<1>2. CASE \E f \in Fibers : Pin(f) \/ Compress(f) \/ Resume(f) \/ Recover(f) \/ Decompress(f)
  BY <1>2, PinSafe, CompressSafe, ResumeSafe, RecoverSafe
<1>3. CASE CompressionSteps
  BY <1>3, SaveSafe, WriteIntentSafe, WriteNeuronSafe, WriteFiberSafe DEF CompressionSteps
<1>4. CASE RestoreSteps
  BY <1>4, RestoreNeuronSafe, ResetFiberSafe, DropSafe DEF RestoreSteps
<1>5. CASE StartPass \/ Crash \/ UNCHANGED vars
  BY <1>5, CrashSafe
<1> QED
  BY <1>1, <1>2, <1>3, <1>4, <1>5 DEF Next

LEMMA Safe == Spec => [](TypeInv /\ SafeInv)
<1>1. Init => TypeInv /\ SafeInv
  BY InitType, InitSafe
<1>2. TypeInv /\ SafeInv /\ [Next]_vars => (TypeInv /\ SafeInv)'
  BY StepType, StepSafe
<1> QED
  BY <1>1, <1>2, PTL DEF Spec

(***************************************************************************)
(* Compression loses nothing that a user wrote and did not replace, for    *)
(* any fibers sharing any neurons, any number of crashes, restores and     *)
(* edits, and restores that run while a compression does, except what a    *)
(* call overwrites or drops after somebody else has been at it.            *)
(***************************************************************************)
THEOREM CompressionLosesNothing == Spec => []NothingLost
<1>1. TypeInv /\ SafeInv => NothingLost
  BY DEF SafeInv
<1> QED
  BY <1>1, Safe, PTL

(***************************************************************************)
(* A receipt is of what the neurons hold when it is written, by the first  *)
(* attempt or by a replay after any number of crashes.                     *)
(***************************************************************************)
THEOREM ReceiptsTellTheTruth == Spec => ReceiptMatchesLive
<1> DEFINE Truth == \A f \in Fibers :
              fiber'[f].receipt # fiber[f].receipt =>
                \A receipt \in fiber'[f].receipt :
                  \A n \in Members[f] \ touched : content[n] = receipt.result[n]
<1> HIDE DEF Truth
<1>1. TypeInv /\ SafeInv /\ [Next]_vars => [Truth]_vars
  <2> SUFFICES ASSUME TypeInv, SafeInv, Next PROVE Truth
    BY Zenon
  <2> SUFFICES ASSUME NEW f \in Fibers, fiber'[f].receipt # fiber[f].receipt,
                      NEW receipt \in fiber'[f].receipt, NEW n \in Members[f] \ touched
               PROVE  content[n] = receipt.result[n]
    BY Zenon DEF Truth
  <2>1. CASE \E g \in Fibers : Pin(g)
    <3>1. PICK g \in Fibers, p \in BOOLEAN : fiber' = [fiber EXCEPT ![g].pinned = p]
      BY <2>1 DEF Pin
    <3>2. fiber'[f].receipt = fiber[f].receipt
      BY <3>1 DEF TypeInv, StoreType, TextType, RowType
    <3> QED
      BY <3>2
  <2>2. CASE WriteIntent
    <3>1. comp.f \in Fibers /\ Compressing
      BY <2>2 DEF WriteIntent, Compressing, TypeInv, CompType
    <3>2. /\ f # comp.f => fiber'[f] = fiber[f]
          /\ fiber'[comp.f] = [comp.row EXCEPT !.intent = {comp.intent}]
      BY <2>2, <3>1 DEF WriteIntent, TypeInv, StoreType
    <3>3. fiber'[comp.f].receipt = comp.row.receipt
      BY <3>1, <3>2 DEF TypeInv, CompType, RowType
    <3>4. comp.pc = "saving" /\ f = comp.f
      BY <2>2, <3>2 DEF WriteIntent
    <3> QED
      BY <3>1, <3>2, <3>3, <3>4 DEF SafeInv, CompGood
  <2>3. CASE WriteFiber
    <3>1. comp.f \in Fibers /\ Compressing /\ comp.todo = {}
      BY <2>3 DEF WriteFiber, Compressing, TypeInv, CompType
    <3>2. f = comp.f /\ fiber'[f] = Finished(f, comp.row, comp.intent)
      BY <2>3, <3>1 DEF WriteFiber, TypeInv, StoreType
    <3>3. receipt = Receipt(f, comp.row, comp.intent)
      BY <3>2 DEF Finished
    <3>4. receipt.result = Result(f, comp.intent.tier, comp.intent.source)
      BY <3>3 DEF Receipt
    <3> QED
      BY <3>1, <3>2, <3>4 DEF SafeInv, CompGood
  <2>4. CASE ResetFiber
    <3>1. rest.f \in Fibers
      BY <2>4 DEF ResetFiber, Restoring, TypeInv, RestType
    <3>2. f = rest.f /\ fiber'[f].receipt = {}
      BY <2>4, <3>1 DEF ResetFiber, Restored, TypeInv, StoreType
    <3> QED
      BY <3>2
  <2>5. CASE UNCHANGED fiber
    BY <2>5
  <2>6. ASSUME ~(\E g \in Fibers : Pin(g)), ~WriteIntent, ~WriteFiber, ~ResetFiber
        PROVE  UNCHANGED fiber
    BY <2>6 DEF Next, Edit, Compress, Resume, Recover, Decompress, BeginRestore, StartPass,
                CompressionSteps, RestoreSteps, Crash, SaveBackup, SaveSnapshot, WriteNeuron,
                DropBackup, RestoreNeuron, DropSnapshot, rows
  <2> QED
    BY <2>1, <2>2, <2>3, <2>4, <2>5, <2>6
<1>2. Spec => [][Truth]_vars
  BY <1>1, Safe, PTL DEF Spec
<1> QED
  BY <1>2 DEF ReceiptMatchesLive, Truth
=============================================================================
