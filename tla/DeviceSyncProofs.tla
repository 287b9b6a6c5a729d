-------------------------- MODULE DeviceSyncProofs --------------------------
(***************************************************************************)
(* TLAPS proofs about DeviceSync, for every number of devices, clients and *)
(* entities and every bound.                                               *)
(*                                                                         *)
(* Both results hold of every deployment: several processes on a device,   *)
(* requests that overlap at the hub, pages that are cut, other brains.     *)
(***************************************************************************)
EXTENDS DeviceSync, SequenceTheorems, FiniteSetTheorems, WellFoundedInduction,
        TLAPS

LogOK ==
    /\ log \in [Devices -> SUBSET Rows]
    /\ written \in [Devices -> Nat]
    /\ nextSeq \in [Clients -> Nat]
    /\ faults \in 0 .. MaxFaults

HubOK == hub \in Seq(HubRows) /\ Len(hub) <= MaxHub

InRange(x) ==
    /\ x.since \in 0 .. Len(hub)
    /\ x.top \in 0 .. Len(hub)
    /\ x.todo \subseteq OfBrain
    /\ x.missed \subseteq 1 .. Len(hub)

CallsOK ==
    /\ ex \in [Clients -> Calls]
    /\ \A c \in Clients : InRange(ex[c])

PlacesOK ==
    /\ has \in [Devices -> SUBSET Entities]
    /\ mark \in [Devices -> {NoRow} \cup 0 .. Len(hub)]
    /\ attempted \in [Clients -> BOOLEAN]
    /\ seen \in [Devices -> SUBSET (1 .. Len(hub))]
    /\ skipped \in [Devices -> SUBSET (1 .. Len(hub))]

TypeInv == LogOK /\ HubOK /\ CallsOK /\ PlacesOK

-----------------------------------------------------------------------------
(* Lemmas about the building blocks *)

LEMMA DeviceType ==
  ASSUME NEW c \in Clients
  PROVE  DeviceOf[c] \in Devices
BY SyncAssumption

LEMMA IdleType ==
  ASSUME HubOK
  PROVE  Idle \in Calls /\ InRange(Idle)
<1>1. Len(hub) \in Nat
  BY DEF HubOK
<1>2. Idle.rows \in Seq(Rows)
  BY DEF Idle
<1> QED
  BY <1>1, <1>2 DEF Idle, Calls, InRange, HubSteps, ClientSteps

\* A call that moves within its range keeps the calls typed.
LEMMA OneCall ==
  ASSUME CallsOK, UNCHANGED hub, NEW c \in Clients, NEW x \in Calls,
         InRange(x), Become(c, x)
  PROVE  CallsOK'
BY DEF CallsOK, Become, InRange, OfBrain

LEMMA RecordType ==
  ASSUME LogOK, NEW c \in Clients, NEW e \in Entities, NEW op \in Ops,
         Record(c, e, op)
  PROVE  LogOK'
<1> DEFINE d == DeviceOf[c]
<1>1. d \in Devices /\ written[d] \in Nat /\ nextSeq[c] \in Nat
  BY DeviceType DEF LogOK
<1>2. CASE written[d] < MaxRows[d] /\ UNCHANGED faults
        /\ nextSeq' = [nextSeq EXCEPT ![c] = @ + 1]
        /\ written' = [written EXCEPT ![d] = @ + 1]
        /\ log' = [log EXCEPT ![d] = @ \cup {NewRow(c, e, op)}]
  <2>1. NewRow(c, e, op) \in Rows
    BY <1>1, <1>2, SyncAssumption DEF NewRow, Rows
  <2> QED
    BY <1>1, <1>2, <2>1, SyncAssumption DEF LogOK
<1>3. CASE Fault /\ nextSeq' = [nextSeq EXCEPT ![c] = @ + 1] /\ UNCHANGED <<log, written>>
  BY <1>1, <1>3, SyncAssumption DEF LogOK, Fault
<1>4. CASE UNCHANGED <<log, written, nextSeq, faults>>
  BY <1>4 DEF LogOK
<1> QED
  BY <1>2, <1>3, <1>4 DEF Record

LEMMA FaultType ==
  ASSUME LogOK, Fault, UNCHANGED <<log, written>>, nextSeq' \in [Clients -> Nat]
  PROVE  LogOK'
BY SyncAssumption DEF LogOK, Fault

LEMMA MarkedType ==
  ASSUME NEW S \in SUBSET Rows, NEW n
  PROVE  Marked(S, n) \in SUBSET Rows
BY DEF Marked, Rows

LEMMA FirstBySeqType ==
  ASSUME NEW S \in SUBSET Rows, NEW n \in Nat, NEW q \in FirstBySeq(S, n)
  PROVE  q \in Seq(Rows)
<1>1. PICK k \in 0 .. n : q \in [1 .. k -> S]
  BY DEF FirstBySeq
<1>2. k \in Nat /\ q \in [1 .. k -> Rows]
  BY <1>1
<1> QED
  BY <1>2

LEMMA KeptType ==
  ASSUME HubOK, NEW q \in Seq(Rows)
  PROVE  Kept(q) \in Seq(Rows) /\ Len(Kept(q)) <= MaxHub - Len(hub)
<1> DEFINE k == Min2(Min2(HubCap, Len(q)), MaxHub - Len(hub))
<1>1. k \in Nat /\ k <= Len(q) /\ k <= MaxHub - Len(hub)
  BY SyncAssumption DEF Min2, HubOK
<1>2. \A i \in 1 .. k : q[i] \in Rows
  BY <1>1, ElementOfSeq
<1>3. Kept(q) = [i \in 1 .. k |-> q[i]]
  BY DEF Kept
<1> HIDE DEF k
<1>4. Kept(q) \in [1 .. k -> Rows]
  BY <1>2, <1>3
<1>5. Kept(q) \in Seq(Rows) /\ Len(Kept(q)) = k
  BY <1>1, <1>4
<1> QED
  BY <1>1, <1>5

\* Appending leaves what is there where it is.
LEMMA HubGrows ==
  ASSUME HubOK, CallsOK, NEW c \in Clients, HubAppend(c)
  PROVE  /\ HubOK'
         /\ Len(hub') = Len(hub) + Len(Kept(ex[c].rows))
         /\ Len(Kept(ex[c].rows)) \in Nat
         /\ \A i \in 1 .. Len(hub) : hub'[i] = hub[i]
<1> DEFINE q == Kept(ex[c].rows)
           k == Len(q)
           t == [i \in 1 .. k |->
                  [dev |-> DeviceOf[c], id |-> q[i].id, ent |-> q[i].ent, op |-> q[i].op]]
<1>1. ex[c].rows \in Seq(Rows) /\ hub' = hub \o t
  BY DEF CallsOK, Calls, HubAppend
<1>2. q \in Seq(Rows) /\ k \in Nat /\ k <= MaxHub - Len(hub)
  BY <1>1, KeptType
<1>3. ASSUME NEW i \in 1 .. k
      PROVE  t[i] \in HubRows
  <2>1. q[i] \in Rows
    BY <1>2, <1>3, ElementOfSeq
  <2> QED
    BY <1>3, <2>1, DeviceType DEF Rows, HubRows, OwnRows
<1>4. t \in Seq(HubRows) /\ Len(t) = k
  <2>1. t \in [1 .. k -> HubRows]
    BY <1>3
  <2> HIDE DEF k, t
  <2> QED
    BY <1>2, <2>1
<1> HIDE DEF t
<1>5. hub \in Seq(HubRows) /\ Len(hub) \in Nat
  BY DEF HubOK
<1>6. /\ hub' \in Seq(HubRows)
      /\ Len(hub') = Len(hub) + k
      /\ \A i \in 1 .. Len(hub) + k :
            hub'[i] = IF i <= Len(hub) THEN hub[i] ELSE t[i - Len(hub)]
  <2> HIDE DEF k
  <2>1. /\ hub \o t \in Seq(HubRows)
        /\ Len(hub \o t) = Len(hub) + Len(t)
        /\ \A i \in 1 .. Len(hub) + Len(t) :
              (hub \o t)[i] = IF i <= Len(hub) THEN hub[i] ELSE t[i - Len(hub)]
    BY <1>4, <1>5, ConcatProperties
  <2> QED
    BY <1>1, <1>4, <2>1
<1>7. Len(hub') <= MaxHub /\ \A i \in 1 .. Len(hub) : hub'[i] = hub[i]
  <2> HIDE DEF k
  <2> QED
    BY <1>2, <1>5, <1>6, SyncAssumption
<1> QED
  BY <1>2, <1>6, <1>7 DEF HubOK

LEMMA ForeignGrows ==
  ASSUME HubOK, OtherBrain
  PROVE  /\ HubOK'
         /\ Len(hub') = Len(hub) + 1
         /\ \A i \in 1 .. Len(hub) : hub'[i] = hub[i]
<1>1. /\ hub \in Seq(HubRows) /\ Len(hub) \in Nat /\ Foreign \in HubRows
      /\ hub' = Append(hub, Foreign) /\ Len(hub) < MaxHub
  BY DEF HubOK, OtherBrain, HubRows
<1>2. /\ hub' \in Seq(HubRows) /\ Len(hub') = Len(hub) + 1
      /\ \A i \in 1 .. Len(hub) : hub'[i] = hub[i]
  BY <1>1, AppendProperties
<1> QED
  BY <1>1, <1>2, SyncAssumption DEF HubOK

LEMMA LeastNatural ==
  ASSUME NEW T \in SUBSET Nat, T # {}
  PROVE  \E x \in T : \A y \in T : x <= y
<1>1. IsWellFoundedOn(OpToRel(<, Nat), Nat)
  BY NatLessThanWellFounded
<1>2. PICK x \in T : \A y \in T : ~ (<<y, x>> \in OpToRel(<, Nat))
  BY <1>1, WFMin
<1>3. \A y \in T : ~(y < x)
  BY <1>2 DEF OpToRel
<1> QED
  BY <1>3

\* The maximum is taken of the ids of this brain.
LEMMA MaxIdType ==
  ASSUME HubOK
  PROVE  MaxId \in 0 .. Len(hub)
<1> DEFINE T == {n \in Nat : \A i \in OfBrain : i <= n}
<1>1. Len(hub) \in Nat /\ OfBrain \subseteq 1 .. Len(hub)
  BY DEF HubOK, OfBrain
<1>2. Len(hub) \in T
  BY <1>1
<1>3. PICK m \in T : \A n \in T : m <= n
  BY <1>2, LeastNatural
<1>4. m \in OfBrain \cup {0}
  <2>1. SUFFICES ASSUME m \notin OfBrain, m # 0 PROVE FALSE
    OBVIOUS
  <2>2. m - 1 \in T
    BY <1>1, <1>3, <2>1
  <2> QED
    BY <1>3, <2>2
<1>5. \E n \in OfBrain \cup {0} : \A i \in OfBrain : i <= n
  BY <1>3, <1>4
<1>6. MaxId \in OfBrain \cup {0}
  BY <1>5 DEF MaxId
<1> QED
  BY <1>1, <1>6

-----------------------------------------------------------------------------
(* Type correctness *)

LEMMA TypeInit == Init => TypeInv
<1> SUFFICES ASSUME Init PROVE TypeInv
  OBVIOUS
<1> USE DEF Init
<1>1. HubOK
  BY SyncAssumption DEF HubOK
<1>2. LogOK
  BY SyncAssumption DEF LogOK
<1>3. CallsOK
  BY <1>1, IdleType DEF CallsOK
<1>4. PlacesOK
  BY DEF PlacesOK
<1> QED
  BY <1>1, <1>2, <1>3, <1>4 DEF TypeInv

\* What a client does to its device's store.
LEMMA StoreType ==
  ASSUME TypeInv, NEW c \in Clients,
         \/ \E e \in Entities : Write(c, e) \/ Delete(c, e)
         \/ Seed(c) \/ Prune(c) \/ Collapse(c)
  PROVE  TypeInv'
<1> DEFINE d == DeviceOf[c]
<1>1. /\ d \in Devices /\ written[d] \in Nat /\ nextSeq[c] \in Nat
      /\ log[d] \subseteq Rows
  BY DeviceType, SyncAssumption DEF TypeInv, LogOK
<1>2. UNCHANGED <<mark, attempted, hub, ex, history>>
  BY DEF Write, Delete, Seed, Prune, Collapse
<1>3. HubOK' /\ CallsOK'
  BY <1>2 DEF TypeInv, HubOK, CallsOK, InRange, OfBrain
<1>4. ASSUME NEW e \in Entities, Write(c, e)
      PROVE  LogOK' /\ has' \in [Devices -> SUBSET Entities]
  <2>1. LogOK'
    BY <1>4, RecordType DEF Write, Ops, TypeInv
  <2> QED
    BY <2>1, <1>4 DEF Write, TypeInv, PlacesOK
<1>5. ASSUME NEW e \in Entities, Delete(c, e)
      PROVE  LogOK' /\ has' \in [Devices -> SUBSET Entities]
  <2>1. LogOK'
    BY <1>5, RecordType DEF Delete, Ops, TypeInv
  <2> QED
    BY <2>1, <1>5 DEF Delete, TypeInv, PlacesOK
<1>6. ASSUME Seed(c)
      PROVE  LogOK' /\ UNCHANGED has
  <2>1. PICK e \in Unlogged(d) : Record(c, e, "insert")
    BY <1>6 DEF Seed
  <2>2. e \in Entities
    BY <1>1 DEF Unlogged, TypeInv, PlacesOK
  <2>3. LogOK'
    BY <2>1, <2>2, RecordType DEF Ops, TypeInv
  <2> QED
    BY <1>6, <2>3 DEF Seed
<1>7. ASSUME Prune(c) \/ Collapse(c)
      PROVE  LogOK' /\ UNCHANGED has
  BY <1>1, <1>7 DEF Prune, Collapse, TypeInv, LogOK
<1>8. LogOK' /\ has' \in [Devices -> SUBSET Entities]
  BY <1>4, <1>5, <1>6, <1>7 DEF TypeInv, PlacesOK
<1> QED
  BY <1>2, <1>3, <1>8 DEF TypeInv, PlacesOK, history

\* The smem_sync call on the device.
LEMMA ClientType ==
  ASSUME TypeInv, NEW c \in Clients,
         Begin(c) \/ Collect(c) \/ Apply(c) \/ MarkSynced(c) \/ SetWatermark(c)
  PROVE  TypeInv'
<1> DEFINE d == DeviceOf[c]
<1>1. /\ d \in Devices /\ ex[c] \in Calls /\ InRange(ex[c])
      /\ log[d] \in SUBSET Rows /\ Len(hub) \in Nat
      /\ mark[d] \in {NoRow} \cup 0 .. Len(hub)
      /\ HubOK /\ LogOK /\ CallsOK /\ PlacesOK
  BY DeviceType DEF TypeInv, LogOK, CallsOK, HubOK, PlacesOK
<1>2. UNCHANGED hub
  BY DEF Begin, Collect, Apply, ApplyFirst, MarkSynced, SetWatermark
<1>3. HubOK' /\ UNCHANGED Len(hub)
  BY <1>2 DEF TypeInv, HubOK
<1>4. Idle \in Calls /\ InRange(Idle)
  BY <1>1, IdleType
<1>5. CASE Begin(c)
  <2>1. ASSUME NEW n \in 0 .. Len(hub),
               Become(c, [Idle EXCEPT !.pc = "collect", !.since = n])
        PROVE  CallsOK'
    <3>1. [Idle EXCEPT !.pc = "collect", !.since = n] \in Calls
      <4>1. n \in Nat /\ <<>> \in Seq(Rows)
        BY <1>1
      <4> QED
        BY <4>1 DEF Idle, Calls, ClientSteps
    <3>2. InRange([Idle EXCEPT !.pc = "collect", !.since = n])
      BY <1>1, <1>4 DEF InRange, Idle
    <3> QED
      BY <1>1, <1>2, <2>1, <3>1, <3>2, OneCall
  <2>2. CallsOK'
    <3>1. PICK n \in {0, mark[d]} :
            /\ n # NoRow
            /\ Become(c, [Idle EXCEPT !.pc = "collect", !.since = n])
      BY <1>5 DEF Begin, NoRow
    <3>2. n \in 0 .. Len(hub)
      BY <1>1, <3>1
    <3> QED
      BY <2>1, <3>1, <3>2
  <2>3. LogOK'
    BY <1>1, <1>5, FaultType DEF Begin, LogOK
  <2>4. Registered(c) \in {NoRow} \cup 0 .. Len(hub)
    BY <1>1 DEF Registered
  <2>5. /\ mark' \in [Devices -> {NoRow} \cup 0 .. Len(hub)]
        /\ UNCHANGED <<has, seen, skipped>>
    BY <1>1, <1>5, <2>4 DEF Begin, PlacesOK, history
  <2>6. attempted' \in [Clients -> BOOLEAN]
    BY <1>1, <1>5 DEF Begin, PlacesOK
  <2> QED
    BY <1>1, <1>2, <1>3, <2>2, <2>3, <2>5, <2>6 DEF TypeInv, PlacesOK
<1>6. CASE Collect(c)
  <2>1. PICK q \in FirstBySeq(Pending(d), PushLimit) :
          Become(c, [ex[c] EXCEPT !.pc = "append", !.waiting = TRUE, !.rows = q])
    BY <1>6 DEF Collect
  <2>2. q \in Seq(Rows)
    BY <1>1, <2>1, FirstBySeqType, SyncAssumption DEF Pending
  <2>3. [ex[c] EXCEPT !.pc = "append", !.waiting = TRUE, !.rows = q] \in Calls
    BY <1>1, <2>2 DEF Calls, HubSteps
  <2>4. InRange([ex[c] EXCEPT !.pc = "append", !.waiting = TRUE, !.rows = q])
    BY <1>1 DEF InRange, Calls
  <2>5. CallsOK'
    BY <1>1, <1>2, <2>1, <2>3, <2>4, OneCall
  <2> QED
    BY <1>1, <1>3, <1>6, <2>5 DEF Collect, TypeInv, LogOK, PlacesOK, history
<1>7. CASE Apply(c)
  <2>1. PICK i \in ex[c].todo : ApplyFirst(c, i)
    BY <1>7 DEF Apply
  <2> DEFINE x == [ex[c] EXCEPT !.todo = @ \ {i}]
  <2>2. x \in Calls
    BY <1>1 DEF Calls
  <2>3. InRange(x)
    BY <1>1 DEF InRange, Calls
  <2>4. CallsOK'
    BY <1>1, <1>2, <2>1, <2>2, <2>3, OneCall DEF ApplyFirst
  <2>5. i \in 1 .. Len(hub) /\ hub[i].dev # Elsewhere
    BY <1>1 DEF InRange, OfBrain
  <2>6. hub[i].ent \in Entities
    <3>1. hub[i] \in HubRows
      BY <1>1, <2>5 DEF HubOK
    <3>2. hub[i] \in OwnRows
      BY <2>5, <3>1 DEF HubRows, Foreign
    <3> QED
      BY <3>2 DEF OwnRows
  <2>7. LogOK'
    BY <1>1, <2>1, <2>6, RecordType, FaultType DEF ApplyFirst, Ops, LogOK
  <2>8. PlacesOK'
    BY <1>1, <1>3, <2>1, <2>5 DEF ApplyFirst, PlacesOK
  <2> QED
    BY <1>3, <2>4, <2>7, <2>8 DEF TypeInv
<1>8. CASE MarkSynced(c)
  <2>1. To(c, "watermark") \in Calls /\ InRange(To(c, "watermark"))
    BY <1>1 DEF To, Calls, InRange, ClientSteps
  <2>2. CallsOK'
    BY <1>1, <1>2, <1>4, <1>8, <2>1, OneCall DEF MarkSynced
  <2>3. \A S \in SUBSET log[d] : Marked(S, ex[c].top) \cup (log[d] \ S) \in SUBSET Rows
    BY <1>1, MarkedType
  <2>4. Marked(log[d], ex[c].top) \in SUBSET Rows
    BY <1>1, MarkedType
  <2>5. log' \in [Devices -> SUBSET Rows]
    BY <1>1, <1>8, <2>3, <2>4 DEF MarkSynced, LogOK
  <2>6. LogOK'
    BY <1>1, <1>8, <2>5, SyncAssumption DEF MarkSynced, LogOK, Fault
  <2> QED
    BY <1>1, <1>3, <1>8, <2>2, <2>6 DEF MarkSynced, TypeInv, PlacesOK, history
<1>9. CASE SetWatermark(c)
  <2>1. CallsOK'
    BY <1>1, <1>2, <1>4, <1>9, OneCall DEF SetWatermark
  <2>2. LogOK'
    BY <1>1, <1>9, FaultType DEF SetWatermark, LogOK
  <2>3. PlacesOK'
    BY <1>1, <1>3, <1>9 DEF SetWatermark, PlacesOK, InRange
  <2> QED
    BY <1>3, <2>1, <2>2, <2>3 DEF TypeInv
<1> QED
  BY <1>5, <1>6, <1>7, <1>8, <1>9

\* The hub's handler, and the failures.
LEMMA HubType ==
  ASSUME TypeInv, NEW c \in Clients,
         \/ HubAppend(c) \/ HubRead(c) \/ HubMax(c)
         \/ GiveUp(c) \/ CallFails(c) \/ Restart(c)
  PROVE  TypeInv'
<1>1. /\ ex[c] \in Calls /\ InRange(ex[c]) /\ Len(hub) \in Nat
      /\ HubOK /\ LogOK /\ CallsOK /\ PlacesOK
  BY DEF TypeInv, CallsOK, HubOK
<1>2. Idle \in Calls /\ InRange(Idle)
  BY <1>1, IdleType
<1>3. CASE HubAppend(c)
  <2> DEFINE k == Len(Kept(ex[c].rows))
             here == [ex[c] EXCEPT !.pc = "read", !.rows = <<>>]
             new == Len(hub) + 1 .. Len(hub) + k
             over(b) == [ex[b] EXCEPT !.missed = @ \cup new]
  <2>1. /\ HubOK' /\ k \in Nat /\ Len(hub') = Len(hub) + k /\ Len(hub') \in Nat
        /\ \A i \in 1 .. Len(hub) : hub'[i] = hub[i]
    BY <1>1, <1>3, HubGrows
  <2>2. ex' = [b \in Clients |-> IF b = c THEN here
                ELSE IF ex[b].pc = "max" THEN over(b) ELSE ex[b]]
    BY <1>3 DEF HubAppend
  <2>3. 0 .. Len(hub) \subseteq 0 .. Len(hub') /\ 1 .. Len(hub) \subseteq 1 .. Len(hub')
    BY <1>1, <2>1
  <2>4. new \subseteq 1 .. Len(hub') /\ new \subseteq Nat
    BY <1>1, <2>1
  <2>5. OfBrain \subseteq OfBrain'
    BY <2>1, <2>3 DEF OfBrain
  <2> HIDE DEF k, new
  <2>6. ASSUME NEW b \in Clients
        PROVE  ex'[b] \in Calls /\ InRange(ex[b])'
    <3>1. ex[b] \in Calls /\ InRange(ex[b])
      BY <1>1 DEF CallsOK
    <3>2. CASE b = c
      <4>1. ex'[b] = here /\ <<>> \in Seq(Rows)
        BY <2>2, <3>2
      <4>2. /\ here \in Calls /\ here.since = ex[b].since /\ here.top = ex[b].top
            /\ here.todo = ex[b].todo /\ here.missed = ex[b].missed
        BY <3>1, <3>2, <4>1 DEF Calls, HubSteps
      <4> QED
        BY <2>3, <2>5, <3>1, <4>1, <4>2 DEF InRange
    <3>3. CASE b # c /\ ex[b].pc = "max"
      <4>1. ex'[b] = over(b)
        BY <2>2, <3>3
      <4>2. ex[b].missed \cup new \in SUBSET Nat
        BY <2>4, <3>1 DEF Calls
      <4>3. /\ over(b) \in Calls /\ over(b).since = ex[b].since
            /\ over(b).top = ex[b].top /\ over(b).todo = ex[b].todo
            /\ over(b).missed = ex[b].missed \cup new
        BY <3>1, <4>2 DEF Calls
      <4> QED
        BY <2>3, <2>4, <2>5, <3>1, <4>1, <4>3 DEF InRange
    <3>4. CASE b # c /\ ex[b].pc # "max"
      <4>1. ex'[b] = ex[b]
        BY <2>2, <3>4
      <4> QED
        BY <2>3, <2>5, <3>1, <4>1 DEF InRange
    <3> QED
      BY <3>2, <3>3, <3>4
  <2>7. CallsOK'
    BY <2>2, <2>6 DEF CallsOK
  <2>8. PlacesOK'
    <3>1. UNCHANGED <<has, mark, attempted, seen, skipped>>
      BY <1>3 DEF HubAppend, history
    <3>2. mark \in [Devices -> {NoRow} \cup 0 .. Len(hub')]
      BY <1>1, <2>3 DEF PlacesOK
    <3>3. /\ seen \in [Devices -> SUBSET (1 .. Len(hub'))]
          /\ skipped \in [Devices -> SUBSET (1 .. Len(hub'))]
      BY <1>1, <2>3 DEF PlacesOK
    <3> QED
      BY <1>1, <3>1, <3>2, <3>3 DEF PlacesOK
  <2> QED
    BY <1>1, <1>3, <2>1, <2>7, <2>8 DEF HubAppend, TypeInv, LogOK
<1>4. CASE HubRead(c) \/ HubMax(c)
  <2>1. ASSUME HubRead(c) PROVE CallsOK'
    <3> DEFINE page == FirstPage(Unseen(c), PageLimit)
               x == [ex[c] EXCEPT !.pc = "max", !.since = 0,
                        !.todo = page, !.missed = Unseen(c) \ page]
    <3>1. Unseen(c) \subseteq OfBrain /\ OfBrain \subseteq 1 .. Len(hub)
      <4>1. ex[c].since \in Nat
        BY <1>1 DEF InRange
      <4>2. ASSUME NEW i \in ex[c].since + 1 .. Len(hub)
            PROVE  i \in 1 .. Len(hub)
        BY <1>1, <4>1
      <4>3. Unseen(c) = {i \in ex[c].since + 1 .. Len(hub) :
                            hub[i].dev \notin {DeviceOf[c], Elsewhere}}
        BY DEF Unseen, Others
      <4> QED
        BY <4>2, <4>3 DEF OfBrain
    <3>2. page \subseteq Unseen(c)
      BY DEF FirstPage
    <3> HIDE DEF page
    <3>3. page \in SUBSET Nat /\ Unseen(c) \ page \in SUBSET Nat
      <4>1. \A i \in 1 .. Len(hub) : i \in Nat
        BY <1>1
      <4> QED
        BY <3>1, <3>2, <4>1
    <3>4. x \in Calls
      BY <1>1, <3>3 DEF Calls, HubSteps
    <3>5. InRange(x)
      BY <1>1, <3>1, <3>2 DEF Calls, InRange
    <3>6. Become(c, x)
      BY <2>1 DEF HubRead, page
    <3> QED
      BY <1>1, <2>1, <3>4, <3>5, <3>6, OneCall DEF HubRead
  <2>2. ASSUME HubMax(c) PROVE CallsOK'
    <3> DEFINE x == [ex[c] EXCEPT !.pc = "apply", !.top = MaxId]
    <3>1. MaxId \in Nat /\ MaxId \in 0 .. Len(hub)
      BY <1>1, MaxIdType
    <3>2. x \in Calls
      BY <1>1, <3>1 DEF Calls, ClientSteps
    <3>3. InRange(x)
      BY <1>1, <3>1 DEF Calls, InRange
    <3> QED
      BY <1>1, <1>2, <2>2, <3>2, <3>3, OneCall DEF HubMax
  <2> QED
    BY <1>1, <1>4, <2>1, <2>2 DEF HubRead, HubMax, TypeInv, LogOK, HubOK, PlacesOK, history
<1>5. CASE GiveUp(c) \/ CallFails(c) \/ Restart(c)
  <2> DEFINE x == [ex[c] EXCEPT !.waiting = FALSE]
  <2>1. x \in Calls /\ InRange(x)
    BY <1>1 DEF Calls, InRange
  <2>2. UNCHANGED <<has, log, written, mark, hub, seen, skipped>> /\ Fault
    BY <1>5 DEF GiveUp, CallFails, Restart, history
  <2>3. CallsOK'
    BY <1>1, <1>2, <1>5, <2>1, <2>2, OneCall DEF GiveUp, CallFails, Restart
  <2>4. nextSeq' \in [Clients -> Nat]
    BY <1>1, <1>5 DEF GiveUp, CallFails, Restart, LogOK
  <2>5. attempted' \in [Clients -> BOOLEAN]
    BY <1>1, <1>5 DEF GiveUp, CallFails, Restart, PlacesOK
  <2> QED
    BY <1>1, <2>2, <2>3, <2>4, <2>5, FaultType DEF TypeInv, HubOK, PlacesOK
<1> QED
  BY <1>3, <1>4, <1>5

LEMMA ForeignType ==
  ASSUME TypeInv, OtherBrain
  PROVE  TypeInv'
<1>1. HubOK /\ LogOK /\ CallsOK /\ PlacesOK /\ Len(hub) \in Nat
  BY DEF TypeInv, HubOK
<1>2. /\ HubOK' /\ Len(hub') = Len(hub) + 1
      /\ \A i \in 1 .. Len(hub) : hub'[i] = hub[i]
  BY <1>1, ForeignGrows
<1>3. /\ 0 .. Len(hub) \subseteq 0 .. Len(hub')
      /\ 1 .. Len(hub) \subseteq 1 .. Len(hub')
  BY <1>1, <1>2
<1>4. OfBrain \subseteq OfBrain'
  BY <1>2, <1>3 DEF OfBrain
<1>5. /\ UNCHANGED <<has, mark, attempted, seen, skipped, ex>>
      /\ UNCHANGED <<log, written, nextSeq, faults>>
  BY DEF OtherBrain, history
<1>6. CallsOK'
  BY <1>1, <1>3, <1>4, <1>5 DEF CallsOK, InRange
<1>7. PlacesOK'
  <2>1. mark \in [Devices -> {NoRow} \cup 0 .. Len(hub')]
    BY <1>1, <1>3 DEF PlacesOK
  <2>2. /\ seen \in [Devices -> SUBSET (1 .. Len(hub'))]
        /\ skipped \in [Devices -> SUBSET (1 .. Len(hub'))]
    BY <1>1, <1>3 DEF PlacesOK
  <2> QED
    BY <1>1, <1>5, <2>1, <2>2 DEF PlacesOK
<1> QED
  BY <1>1, <1>2, <1>5, <1>6, <1>7 DEF TypeInv, LogOK

LEMMA TypeNext == TypeInv /\ [Next]_vars => TypeInv'
<1> SUFFICES ASSUME TypeInv, [Next]_vars PROVE TypeInv'
  OBVIOUS
<1>1. CASE UNCHANGED vars
  BY <1>1 DEF vars, history, TypeInv, LogOK, HubOK, CallsOK, PlacesOK, InRange, OfBrain
<1>2. CASE Next
  BY <1>2, StoreType, ClientType, HubType, ForeignType DEF Next, Sync
<1> QED
  BY <1>1, <1>2

LEMMA TypeInvariant == Spec => []TypeInv
BY TypeInit, TypeNext, PTL DEF Spec

\* The stores, the hub's log, the device rows and every call hold well-formed
\* values in every deployment; in particular no device keeps a position, and
\* no call carries one, past the end of the hub's log.
THEOREM TypeCorrect == Spec => []TypeOK
<1>1. TypeInv => TypeOK
  BY DEF TypeInv, LogOK, HubOK, CallsOK, PlacesOK, TypeOK
<1> QED
  BY <1>1, TypeInvariant, PTL

-----------------------------------------------------------------------------
(* Nothing else is skipped *)

\* What a device need not be given any more.
Settled(d) == seen[d] \cup skipped[d]

\* What a call carries is enough for the position it will write: what its
\* device has been given, with what the call still has to apply, is everything
\* that its answer does not leave out.
Covered(c, x) ==
    LET d == DeviceOf[c] IN
    /\ x.pc \in {"collect", "append", "read"} =>
          Others(d, 0, x.since) \subseteq Settled(d)
    /\ x.pc = "max" =>
          Others(d, 0, Len(hub)) \subseteq Settled(d) \cup x.todo \cup x.missed
    /\ x.pc = "apply" =>
          Others(d, 0, x.top) \subseteq Settled(d) \cup x.todo \cup x.missed
    /\ x.pc = "watermark" =>
          Others(d, 0, x.top) \subseteq Settled(d) \cup x.missed

CallsCovered == \A c \in Clients : Covered(c, ex[c])

SafeInv == TypeInv /\ CallsCovered /\ NothingElseSkipped

\* The hub's log and what is settled only grow.
Grows ==
    /\ Len(hub) <= Len(hub')
    /\ \A i \in 1 .. Len(hub) : hub'[i] = hub[i]
    /\ \A d \in Devices : Settled(d) \subseteq Settled(d)'

\* The facts that every step of a call starts from.
LEMMA CallFacts ==
  ASSUME SafeInv, NEW c \in Clients
  PROVE  /\ ex \in [Clients -> Calls] /\ ex[c] \in Calls /\ InRange(ex[c])
         /\ HubOK /\ CallsOK /\ Len(hub) \in Nat /\ Len(hub) <= MaxHub
         /\ DeviceOf[c] \in Devices /\ Covered(c, ex[c])
         /\ mark \in [Devices -> {NoRow} \cup 0 .. Len(hub)]
         /\ seen \in [Devices -> SUBSET (1 .. Len(hub))]
         /\ skipped \in [Devices -> SUBSET (1 .. Len(hub))]
BY DeviceType DEF SafeInv, TypeInv, CallsOK, HubOK, PlacesOK, CallsCovered

\* A call that a step leaves alone stays covered, unless the hub's log grows
\* between its two queries.
LEMMA StillCovered ==
  ASSUME SafeInv, Grows, NEW b \in Clients,
         ex'[b] = ex[b],
         ex[b].pc = "max" => Len(hub') = Len(hub)
  PROVE  Covered(b, ex[b])'
<1> DEFINE d == DeviceOf[b]
           x == ex[b]
<1>1. /\ d \in Devices /\ InRange(x) /\ Len(hub) \in Nat /\ Covered(b, x)
  BY CallFacts
<1>2. Settled(d) \subseteq Settled(d)' /\ ex'[b] = x
  BY <1>1 DEF Grows
<1>3. \A n \in 0 .. Len(hub) : Others(d, 0, n)' = Others(d, 0, n)
  BY <1>1 DEF Others, Grows
<1>4. x.since \in 0 .. Len(hub) /\ x.top \in 0 .. Len(hub)
  BY <1>1 DEF InRange
<1>5. \A n \in 0 .. Len(hub) :
          {i \in 1 .. n : hub'[i].dev \notin {d, Elsewhere}} = Others(d, 0, n)
  BY <1>3 DEF Others
<1>6. /\ {i \in 1 .. x.since : hub'[i].dev \notin {d, Elsewhere}} = Others(d, 0, x.since)
      /\ {i \in 1 .. x.top : hub'[i].dev \notin {d, Elsewhere}} = Others(d, 0, x.top)
      /\ {i \in 1 .. Len(hub) : hub'[i].dev \notin {d, Elsewhere}} = Others(d, 0, Len(hub))
  BY <1>1, <1>4, <1>5
<1>7. /\ Others(d, 0, x.since)' = Others(d, 0, x.since)
      /\ Others(d, 0, x.top)' = Others(d, 0, x.top)
      /\ x.pc = "max" => Others(d, 0, Len(hub))' = Others(d, 0, Len(hub))
  BY <1>2, <1>6 DEF Others
<1> QED
  BY <1>1, <1>2, <1>7 DEF Covered

LEMMA StillMarked ==
  ASSUME SafeInv, Grows, NEW d \in Devices,
         mark'[d] = mark[d]
  PROVE  Others(d, 0, mark[d])' \subseteq Settled(d)'
<1>1. mark[d] \in {NoRow} \cup 0 .. Len(hub) /\ Len(hub) \in Nat
  BY DEF SafeInv, TypeInv, PlacesOK, HubOK
<1>2. CASE mark[d] = NoRow
  BY <1>2 DEF Others, NoRow
<1>3. CASE mark[d] \in 0 .. Len(hub)
  <2>1. Others(d, 0, mark[d])' = Others(d, 0, mark[d])
    BY <1>1, <1>3 DEF Others, Grows
  <2>2. Others(d, 0, mark[d]) \subseteq Settled(d)
    BY DEF SafeInv, NothingElseSkipped, Settled
  <2> QED
    BY <2>1, <2>2 DEF Grows
<1> QED
  BY <1>1, <1>2, <1>3

\* A step that moves one call, leaves the hub's log alone and writes a position
\* only where it is covered.
LEMMA OneCovered ==
  ASSUME SafeInv, Grows, NEW c \in Clients,
         Len(hub') = Len(hub),
         \A b \in Clients : b # c => ex'[b] = ex[b],
         Covered(c, ex[c])',
         \A d \in Devices : mark'[d] # mark[d] => Others(d, 0, mark[d])' \subseteq Settled(d)'
  PROVE  (CallsCovered /\ NothingElseSkipped)'
<1>1. ASSUME NEW b \in Clients PROVE Covered(b, ex[b])'
  BY <1>1, StillCovered
<1>2. ASSUME NEW d \in Devices PROVE Others(d, 0, mark[d])' \subseteq Settled(d)'
  BY <1>2, StillMarked
<1> QED
  BY <1>1, <1>2 DEF CallsCovered, NothingElseSkipped, Settled

LEMMA IdleCovered ==
  ASSUME NEW c \in Clients
  PROVE  Covered(c, Idle)
BY DEF Covered, Idle

LEMMA StoreSafe ==
  ASSUME SafeInv, NEW c \in Clients,
         \/ \E e \in Entities : Write(c, e) \/ Delete(c, e)
         \/ Seed(c) \/ Prune(c) \/ Collapse(c)
  PROVE  (CallsCovered /\ NothingElseSkipped)'
<1>1. UNCHANGED <<mark, hub, ex, seen, skipped>>
  BY DEF Write, Delete, Seed, Prune, Collapse, history
<1> QED
  BY <1>1 DEF SafeInv, CallsCovered, NothingElseSkipped, Covered, Others, Settled

LEMMA BeginSafe ==
  ASSUME SafeInv, NEW c \in Clients, Begin(c)
  PROVE  (CallsCovered /\ NothingElseSkipped)'
<1> DEFINE d == DeviceOf[c]
<1>1. /\ d \in Devices /\ mark \in [Devices -> {NoRow} \cup 0 .. Len(hub)]
      /\ ex \in [Clients -> Calls] /\ Len(hub) \in Nat
  BY CallFacts
<1>2. UNCHANGED <<hub, seen, skipped>>
  BY DEF Begin, history
<1>3. PICK n \in {0, mark[d]} :
        /\ n # NoRow
        /\ Become(c, [Idle EXCEPT !.pc = "collect", !.since = n])
  BY DEF Begin, NoRow
<1>4. Others(d, 0, n) \subseteq Settled(d)
  <2>1. Others(d, 0, 0) = {}
    BY DEF Others
  <2> QED
    BY <1>1, <1>3, <2>1 DEF SafeInv, NothingElseSkipped, Settled
<1>5. Covered(c, ex[c])'
  <2>1. ex'[c] = [Idle EXCEPT !.pc = "collect", !.since = n]
    BY <1>1, <1>3 DEF Become
  <2>2. ex'[c].pc = "collect" /\ ex'[c].since = n
    BY <2>1 DEF Idle
  <2> QED
    BY <1>2, <1>4, <2>2 DEF Covered, Others, Settled
<1>6. ASSUME NEW D \in Devices, mark'[D] # mark[D]
      PROVE  Others(D, 0, mark[D])' \subseteq Settled(D)'
  <2>1. mark'[D] \in {0, NoRow}
    BY <1>1, <1>6 DEF Begin, Registered
  <2> QED
    BY <2>1 DEF Others, NoRow
<1>7. \A b \in Clients : b # c => ex'[b] = ex[b]
  BY <1>1, <1>3 DEF Become
<1>8. Grows
  BY <1>1, <1>2 DEF Grows, Settled
<1> QED
  BY <1>2, <1>5, <1>6, <1>7, <1>8, OneCovered

LEMMA CollectSafe ==
  ASSUME SafeInv, NEW c \in Clients, Collect(c)
  PROVE  (CallsCovered /\ NothingElseSkipped)'
<1>1. /\ ex \in [Clients -> Calls] /\ ex[c] \in Calls /\ Len(hub) \in Nat
      /\ Covered(c, ex[c])
  BY CallFacts
<1>2. UNCHANGED <<mark, hub, seen, skipped>> /\ ex[c].pc = "collect"
  BY DEF Collect, history
<1>3. PICK q : ex' = [ex EXCEPT ![c] =
                  [ex[c] EXCEPT !.pc = "append", !.waiting = TRUE, !.rows = q]]
  BY DEF Collect, Become
<1>4. ex'[c].pc = "append" /\ ex'[c].since = ex[c].since
  BY <1>1, <1>3 DEF Calls
<1>5. Covered(c, ex[c])'
  BY <1>1, <1>2, <1>4 DEF Covered, Others, Settled
<1>6. Grows /\ \A b \in Clients : b # c => ex'[b] = ex[b]
  BY <1>1, <1>2, <1>3 DEF Grows, Settled
<1> QED
  BY <1>2, <1>5, <1>6, OneCovered

LEMMA ApplySafe ==
  ASSUME SafeInv, NEW c \in Clients, Apply(c)
  PROVE  (CallsCovered /\ NothingElseSkipped)'
<1> DEFINE d == DeviceOf[c]
<1>1. /\ ex \in [Clients -> Calls] /\ ex[c] \in Calls /\ Len(hub) \in Nat
      /\ Covered(c, ex[c]) /\ d \in Devices
      /\ seen \in [Devices -> SUBSET (1 .. Len(hub))]
  BY CallFacts
<1>2. PICK i \in ex[c].todo : ApplyFirst(c, i)
  BY DEF Apply
<1>3. /\ UNCHANGED <<mark, hub, skipped>> /\ ex[c].pc = "apply"
      /\ ex' = [ex EXCEPT ![c] = [ex[c] EXCEPT !.todo = @ \ {i}]]
      /\ seen' = [seen EXCEPT ![d] = @ \cup {i}]
  BY <1>2 DEF ApplyFirst, Become
<1>4. /\ ex'[c].pc = "apply" /\ ex'[c].top = ex[c].top
      /\ ex'[c].todo = ex[c].todo \ {i} /\ ex'[c].missed = ex[c].missed
      /\ Settled(d)' = Settled(d) \cup {i}
  BY <1>1, <1>3 DEF Calls, Settled
<1>5. Covered(c, ex[c])'
  BY <1>1, <1>3, <1>4 DEF Covered, Others
<1>6. Grows /\ \A b \in Clients : b # c => ex'[b] = ex[b]
  BY <1>1, <1>3 DEF Grows, Settled
<1> QED
  BY <1>3, <1>5, <1>6, OneCovered

\* The answers end in a position that is covered.
LEMMA MarkSafe ==
  ASSUME SafeInv, NEW c \in Clients, MarkSynced(c)
  PROVE  (CallsCovered /\ NothingElseSkipped)'
<1>1. /\ ex \in [Clients -> Calls] /\ ex[c] \in Calls /\ Len(hub) \in Nat
      /\ Covered(c, ex[c])
  BY CallFacts
<1>2. UNCHANGED <<mark, hub, seen, skipped>>
  BY DEF MarkSynced, history
<1>3. Grows
  BY <1>1, <1>2 DEF Grows, Settled
<1>4. ASSUME ex[c].top > 0 PROVE Covered(c, ex[c])'
  <2>1. /\ ex[c].pc = "apply" /\ ex[c].todo = {}
        /\ ex'[c] = [ex[c] EXCEPT !.pc = "watermark"]
    BY <1>1, <1>4 DEF MarkSynced, Become, To
  <2>2. /\ ex'[c].pc = "watermark" /\ ex'[c].top = ex[c].top
        /\ ex'[c].missed = ex[c].missed
    BY <1>1, <2>1 DEF Calls
  <2> QED
    BY <1>1, <1>2, <2>1, <2>2 DEF Covered, Others, Settled
<1>5. ASSUME ~(ex[c].top > 0) PROVE Covered(c, ex[c])'
  <2>1. ex'[c] = Idle
    BY <1>1, <1>5 DEF MarkSynced, Become
  <2> QED
    BY <2>1 DEF Covered, Idle
<1>6. \A b \in Clients : b # c => ex'[b] = ex[b]
  BY <1>1 DEF MarkSynced, Become
<1> QED
  BY <1>2, <1>3, <1>4, <1>5, <1>6, OneCovered

LEMMA WatermarkSafe ==
  ASSUME SafeInv, NEW c \in Clients, SetWatermark(c)
  PROVE  (CallsCovered /\ NothingElseSkipped)'
<1> DEFINE d == DeviceOf[c]
<1>1. /\ ex \in [Clients -> Calls] /\ ex[c] \in Calls /\ Len(hub) \in Nat
      /\ Covered(c, ex[c]) /\ d \in Devices
      /\ mark \in [Devices -> {NoRow} \cup 0 .. Len(hub)]
      /\ skipped \in [Devices -> SUBSET (1 .. Len(hub))]
  BY CallFacts
<1>2. UNCHANGED <<hub, seen>> /\ ex[c].pc = "watermark"
  BY DEF SetWatermark
<1>3. \A D \in Devices : Settled(D) \subseteq Settled(D)'
  BY <1>1, <1>2 DEF SetWatermark, Settled
<1>4. Grows
  BY <1>1, <1>2, <1>3 DEF Grows
<1>5. ex'[c] = Idle /\ \A b \in Clients : b # c => ex'[b] = ex[b]
  BY <1>1 DEF SetWatermark, Become
<1>6. Covered(c, ex[c])'
  BY <1>5 DEF Covered, Idle
<1>7. ASSUME NEW D \in Devices, mark'[D] # mark[D]
      PROVE  Others(D, 0, mark[D])' \subseteq Settled(D)'
  <2>1. /\ D = d /\ mark'[D] = ex[c].top
        /\ skipped'[d] = skipped[d] \cup ex[c].missed
    BY <1>1, <1>7 DEF SetWatermark
  <2>2. Others(d, 0, ex[c].top) \subseteq Settled(d) \cup ex[c].missed
    BY <1>1, <1>2 DEF Covered
  <2>3. Settled(d)' = Settled(d) \cup ex[c].missed
    BY <1>2, <2>1 DEF Settled
  <2> QED
    BY <1>2, <2>1, <2>2, <2>3 DEF Others
<1> QED
  BY <1>2, <1>4, <1>5, <1>6, <1>7, OneCovered

\* An append is missing in the answers that are between the two queries, and
\* beyond the positions of all others.
LEMMA AppendSafe ==
  ASSUME SafeInv, NEW c \in Clients, HubAppend(c)
  PROVE  (CallsCovered /\ NothingElseSkipped)'
<1> DEFINE k == Len(Kept(ex[c].rows))
           new == Len(hub) + 1 .. Len(hub) + k
<1>1. /\ ex \in [Clients -> Calls] /\ ex[c] \in Calls /\ InRange(ex[c])
      /\ Len(hub) \in Nat /\ Covered(c, ex[c]) /\ HubOK /\ CallsOK
      /\ DeviceOf[c] \in Devices
  BY CallFacts
<1>2. UNCHANGED <<mark, seen, skipped>> /\ ex[c].pc = "append"
  BY DEF HubAppend, history
<1>3. /\ k \in Nat /\ Len(hub') = Len(hub) + k
      /\ \A i \in 1 .. Len(hub) : hub'[i] = hub[i]
  BY <1>1, HubGrows
<1>4. ex' = [b \in Clients |->
          IF b = c THEN [ex[c] EXCEPT !.pc = "read", !.rows = <<>>]
          ELSE IF ex[b].pc = "max"
          THEN [ex[b] EXCEPT !.missed = @ \cup new]
          ELSE ex[b]]
  BY DEF HubAppend
<1> HIDE DEF k
<1>5. Grows
  BY <1>1, <1>2, <1>3 DEF Grows, Settled
<1>6. ASSUME NEW b \in Clients, b # c, ex[b].pc = "max"
      PROVE  Covered(b, ex[b])'
  <2> DEFINE d == DeviceOf[b]
  <2>1. ex[b] \in Calls /\ Covered(b, ex[b])
    BY <1>6, CallFacts
  <2>2. /\ ex'[b].pc = "max" /\ ex'[b].todo = ex[b].todo
        /\ ex'[b].missed = ex[b].missed \cup new
    BY <1>4, <1>6, <2>1 DEF Calls
  <2>3. 1 .. Len(hub') \subseteq 1 .. Len(hub) \cup new
    BY <1>1, <1>3
  <2>4. Others(d, 0, Len(hub))' \subseteq Others(d, 0, Len(hub)) \cup new
    <3>1. ASSUME NEW i \in 1 .. Len(hub'), hub'[i].dev \notin {d, Elsewhere}, i \notin new
          PROVE  i \in Others(d, 0, Len(hub))
      <4>1. i \in 1 .. Len(hub) /\ hub'[i] = hub[i]
        BY <1>3, <2>3, <3>1
      <4> QED
        BY <3>1, <4>1 DEF Others
    <3>2. Others(d, 0, Len(hub))' = {i \in 1 .. Len(hub') : hub'[i].dev \notin {d, Elsewhere}}
      BY DEF Others
    <3> QED
      BY <3>1, <3>2
  <2> HIDE DEF new
  <2>5. Others(d, 0, Len(hub)) \subseteq Settled(d) \cup ex[b].todo \cup ex[b].missed
    BY <1>6, <2>1 DEF Covered
  <2>6. Settled(d)' = Settled(d)
    BY <1>2 DEF Settled
  <2> QED
    BY <2>2, <2>4, <2>5, <2>6 DEF Covered
<1>7. ASSUME NEW b \in Clients, b # c, ex[b].pc # "max"
      PROVE  Covered(b, ex[b])'
  <2>1. ex'[b] = ex[b]
    BY <1>4, <1>7
  <2> QED
    BY <1>5, <1>7, <2>1, StillCovered
<1>8. Covered(c, ex[c])'
  <2>1. ex'[c].pc = "read" /\ ex'[c].since = ex[c].since
    BY <1>1, <1>4 DEF Calls
  <2>2. {i \in 1 .. ex[c].since : hub'[i].dev \notin {DeviceOf[c], Elsewhere}}
          \subseteq Settled(DeviceOf[c])
    BY <1>1, <1>2, <1>3 DEF Covered, Others, InRange
  <2> QED
    BY <1>2, <2>1, <2>2 DEF Covered, Others, Settled
<1>9. ASSUME NEW D \in Devices PROVE Others(D, 0, mark[D])' \subseteq Settled(D)'
  BY <1>2, <1>5, <1>9, StillMarked
<1> QED
  BY <1>6, <1>7, <1>8, <1>9 DEF CallsCovered, NothingElseSkipped, Settled

LEMMA ReadSafe ==
  ASSUME SafeInv, NEW c \in Clients, HubRead(c)
  PROVE  (CallsCovered /\ NothingElseSkipped)'
<1> DEFINE d == DeviceOf[c]
           page == FirstPage(Unseen(c), PageLimit)
<1>1. /\ ex \in [Clients -> Calls] /\ ex[c] \in Calls /\ InRange(ex[c])
      /\ Len(hub) \in Nat /\ Covered(c, ex[c])
  BY CallFacts
<1>2. UNCHANGED <<mark, hub, seen, skipped>> /\ ex[c].pc = "read"
  BY DEF HubRead, history
<1>3. ex' = [ex EXCEPT ![c] = [ex[c] EXCEPT !.pc = "max", !.since = 0,
                !.todo = page, !.missed = Unseen(c) \ page]]
  BY DEF HubRead, Become
<1> HIDE DEF page
<1>4. /\ ex'[c].pc = "max" /\ ex'[c].todo = page
      /\ ex'[c].missed = Unseen(c) \ page
  BY <1>1, <1>3 DEF Calls
<1>5. Others(d, 0, Len(hub)) \subseteq Settled(d) \cup Unseen(c)
  BY <1>1, <1>2 DEF Covered, Others, Unseen, InRange
<1>6. Covered(c, ex[c])'
  <2>1. Others(d, 0, Len(hub)) \subseteq Settled(d) \cup ex'[c].todo \cup ex'[c].missed
    BY <1>4, <1>5
  <2> QED
    BY <1>2, <1>4, <2>1 DEF Covered, Others, Settled
<1>7. Grows /\ \A b \in Clients : b # c => ex'[b] = ex[b]
  BY <1>1, <1>2, <1>3 DEF Grows, Settled
<1> QED
  BY <1>2, <1>6, <1>7, OneCovered

LEMMA AnswerSafe ==
  ASSUME SafeInv, NEW c \in Clients, HubMax(c)
  PROVE  (CallsCovered /\ NothingElseSkipped)'
<1> DEFINE d == DeviceOf[c]
<1>1. /\ ex \in [Clients -> Calls] /\ ex[c] \in Calls
      /\ Len(hub) \in Nat /\ Covered(c, ex[c]) /\ HubOK
  BY CallFacts
<1>2. UNCHANGED <<mark, hub, seen, skipped>>
  BY DEF HubMax, history
<1>3. Grows
  BY <1>1, <1>2 DEF Grows, Settled
<1>4. ASSUME ex[c].waiting PROVE Covered(c, ex[c])'
  <2>1. ex[c].pc = "max" /\ ex'[c] = [ex[c] EXCEPT !.pc = "apply", !.top = MaxId]
    BY <1>1, <1>4 DEF HubMax, Become
  <2>2. /\ ex'[c].pc = "apply" /\ ex'[c].top = MaxId
        /\ ex'[c].todo = ex[c].todo /\ ex'[c].missed = ex[c].missed
    BY <1>1, <2>1 DEF Calls
  <2>3. MaxId \in 0 .. Len(hub)
    BY <1>1, MaxIdType
  <2>4. Others(d, 0, MaxId) \subseteq Others(d, 0, Len(hub))
    BY <1>1, <2>3 DEF Others
  <2>5. Others(d, 0, MaxId) \subseteq Settled(d) \cup ex[c].todo \cup ex[c].missed
    BY <1>1, <2>1, <2>4 DEF Covered
  <2>6. Others(d, 0, ex[c].top)' = Others(d, 0, MaxId)
    BY <1>2, <2>2 DEF Others
  <2>7. Settled(d)' = Settled(d)
    BY <1>2 DEF Settled
  <2> QED
    BY <2>2, <2>5, <2>6, <2>7 DEF Covered
<1>5. ASSUME ~ex[c].waiting PROVE Covered(c, ex[c])'
  <2>1. ex'[c] = Idle
    BY <1>1, <1>5 DEF HubMax, Become
  <2> QED
    BY <2>1 DEF Covered, Idle
<1>6. \A b \in Clients : b # c => ex'[b] = ex[b]
  BY <1>1 DEF HubMax, Become
<1> QED
  BY <1>2, <1>3, <1>4, <1>5, <1>6, OneCovered

LEMMA ForeignSafe ==
  ASSUME SafeInv, OtherBrain
  PROVE  (CallsCovered /\ NothingElseSkipped)'
<1>1. /\ HubOK /\ Len(hub) \in Nat /\ hub \in Seq(HubRows)
      /\ Foreign \in HubRows /\ hub' = Append(hub, Foreign)
  BY DEF SafeInv, TypeInv, HubOK, HubRows, OtherBrain
<1>2. /\ Len(hub') = Len(hub) + 1 /\ hub'[Len(hub) + 1] = Foreign
      /\ \A i \in 1 .. Len(hub) : hub'[i] = hub[i]
  BY <1>1, AppendProperties
<1>3. UNCHANGED <<mark, ex, seen, skipped>>
  BY DEF OtherBrain, history
<1>4. Grows
  BY <1>1, <1>2, <1>3 DEF Grows, Settled
<1>5. ASSUME NEW d
      PROVE  Others(d, 0, Len(hub))' = Others(d, 0, Len(hub))
  <2>1. hub'[Len(hub) + 1].dev = Elsewhere
    BY <1>2 DEF Foreign
  <2>2. 1 .. Len(hub') = 1 .. Len(hub) \cup {Len(hub) + 1}
    BY <1>1, <1>2
  <2>3. /\ Others(d, 0, Len(hub))' = {i \in 1 .. Len(hub') : hub'[i].dev \notin {d, Elsewhere}}
        /\ Others(d, 0, Len(hub)) = {i \in 1 .. Len(hub) : hub[i].dev \notin {d, Elsewhere}}
    BY DEF Others
  <2> QED
    BY <1>2, <2>1, <2>2, <2>3
<1>6. ASSUME NEW b \in Clients PROVE Covered(b, ex[b])'
  <2>1. CASE ex[b].pc = "max"
    <3>1. Covered(b, ex[b])
      BY CallFacts
    <3>2. Others(DeviceOf[b], 0, Len(hub))'
            \subseteq Settled(DeviceOf[b]) \cup ex[b].todo \cup ex[b].missed
      BY <1>5, <2>1, <3>1 DEF Covered
    <3>3. Settled(DeviceOf[b])' = Settled(DeviceOf[b])
      BY <1>3 DEF Settled
    <3> QED
      BY <1>3, <2>1, <3>2, <3>3 DEF Covered
  <2>2. CASE ex[b].pc # "max"
    BY <1>3, <1>4, <2>2, StillCovered
  <2> QED
    BY <2>1, <2>2
<1>7. ASSUME NEW D \in Devices PROVE Others(D, 0, mark[D])' \subseteq Settled(D)'
  BY <1>3, <1>4, <1>7, StillMarked
<1> QED
  BY <1>6, <1>7 DEF CallsCovered, NothingElseSkipped, Settled

LEMMA FailureSafe ==
  ASSUME SafeInv, NEW c \in Clients, GiveUp(c) \/ CallFails(c) \/ Restart(c)
  PROVE  (CallsCovered /\ NothingElseSkipped)'
<1>1. /\ ex \in [Clients -> Calls] /\ ex[c] \in Calls /\ Len(hub) \in Nat
      /\ Covered(c, ex[c])
  BY CallFacts
<1>2. UNCHANGED <<mark, hub, seen, skipped>>
  BY DEF GiveUp, CallFails, Restart, history
<1>3. ex'[c] \in {Idle, [ex[c] EXCEPT !.waiting = FALSE]}
      /\ \A b \in Clients : b # c => ex'[b] = ex[b]
  BY <1>1 DEF GiveUp, CallFails, Restart, Become
<1>4. Grows
  BY <1>1, <1>2 DEF Grows, Settled
<1>5. CASE ex'[c] = Idle
  <2>1. Covered(c, ex[c])'
    BY <1>5 DEF Covered, Idle
  <2> QED
    BY <1>2, <1>3, <1>4, <2>1, OneCovered
<1>6. CASE ex'[c] = [ex[c] EXCEPT !.waiting = FALSE]
  <2>1. /\ ex'[c].pc = ex[c].pc /\ ex'[c].since = ex[c].since
        /\ ex'[c].todo = ex[c].todo /\ ex'[c].top = ex[c].top
        /\ ex'[c].missed = ex[c].missed
    BY <1>1, <1>6 DEF Calls
  <2>2. Covered(c, ex[c])'
    BY <1>1, <1>2, <2>1 DEF Covered, Others, Settled
  <2> QED
    BY <1>2, <1>3, <1>4, <2>2, OneCovered
<1> QED
  BY <1>3, <1>5, <1>6

LEMMA SafeInit == Init => SafeInv
<1> SUFFICES ASSUME Init PROVE SafeInv
  OBVIOUS
<1>1. CallsCovered
  BY IdleCovered DEF Init, CallsCovered
<1>2. NothingElseSkipped
  BY DEF Init, NothingElseSkipped, Others, NoRow
<1> QED
  BY <1>1, <1>2, TypeInit DEF SafeInv

LEMMA SafeNext == SafeInv /\ [Next]_vars => SafeInv'
<1> SUFFICES ASSUME SafeInv, [Next]_vars PROVE SafeInv'
  OBVIOUS
<1>1. TypeInv'
  BY TypeNext DEF SafeInv
<1>2. CASE UNCHANGED vars
  BY <1>1, <1>2 DEF vars, history, SafeInv, CallsCovered, NothingElseSkipped,
                    Covered, Others, Settled
<1>3. CASE Next
  <2>1. (CallsCovered /\ NothingElseSkipped)'
    BY <1>3, StoreSafe, BeginSafe, CollectSafe, AppendSafe, ReadSafe, AnswerSafe,
       ApplySafe, MarkSafe, WatermarkSafe, FailureSafe, ForeignSafe DEF Next, Sync
  <2> QED
    BY <1>1, <2>1 DEF SafeInv
<1> QED
  BY <1>2, <1>3

\* Every change of the other devices up to a device's watermark has gone through
\* its apply loop or was left out of an answer by the hub, behind the end of a
\* page or between its two queries: whatever calls fail, time out, are repeated,
\* overlap or are made by several processes of the device at once.
THEOREM WatermarkCovers == Spec => []NothingElseSkipped
<1>1. SafeInv => NothingElseSkipped
  BY DEF SafeInv
<1> QED
  BY <1>1, SafeInit, SafeNext, PTL DEF Spec
=============================================================================
