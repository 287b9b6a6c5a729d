----------------------- MODULE ConsolidationRunProofs -----------------------
(***************************************************************************)
(* TLAPS proofs about ConsolidationRun, for every number of invocations,   *)
(* strategies and units, every set of options and every fault bound.       *)
(*                                                                         *)
(* The inductive invariant IInv has one conjunct per place where a copy of *)
(* the run record lives: the row itself (RowOK), the session's own copy    *)
(* (Good), and the relation between the two (Linked): the session whose    *)
(* token is on the row has a copy that is never behind the row, which is   *)
(* what makes a save that overwrites the whole row harmless. Two further   *)
(* invariants on top of it bound what a fenced-out session still writes    *)
(* (LateInv) and follow the auto-tier through takeovers (TierInv).         *)
(***************************************************************************)
EXTENDS ConsolidationRun, FiniteSetTheorems, TLAPS

PreClaim == {"idle", "acquired", "claim", "start"}
Live == Working \cup {"resume"}

\* Every unit that r says is committed was written.
Backed(r, ap) ==
    \A s \in Strategies :
        /\ \A u \in 1 .. Units : u <= r.cursor[s] => <<r.run, s, u>> \in ap
        /\ s \in r.done => r.cursor[s] = Units

\* q has all the committed work of r.
Behind(r, q) ==
    /\ r.done \subseteq q.done
    /\ \A s \in Strategies : r.cursor[s] <= q.cursor[s]

AtStrategy(s) ==
    /\ s.at \in Strategies
    /\ s.local.cursor[s.at] \in 0 .. Units

\* What a session s with token t knows of its own run.
Good(t, s, ap, fin) ==
    /\ s \in Session
    /\ s.pc \in Live => /\ s.local.owner = t
                        /\ s.local.run \in Tokens
                        /\ Backed(s.local, ap)
                        /\ s.pc = "readback" \/ s.local.status # "completed"
    /\ s.pc \in {"handler", "unit", "checkpoint", "finish"} => AtStrategy(s)
    /\ s.pc \in {"unit", "checkpoint"} => s.local.cursor[s.at] < Units
    /\ s.pc = "finish" => s.local.cursor[s.at] = Units
    /\ s.pc = "checkpoint" =>
          <<s.local.run, s.at, s.local.cursor[s.at] + 1>> \in ap
    /\ s.outcome = "completed" => /\ s.pc \in {"closing", "closed"}
                                  /\ s.local.run \in fin

\* How a session s with token t stands to the row r.
Linked(t, s, r) ==
    /\ s.pc \in PreClaim => r.owner # t /\ r.run # t
    /\ s.pc \in Live /\ r.owner = t =>
          /\ r.run = s.local.run
          /\ Behind(r, s.local)
          /\ r.status = "completed" => s.pc = "readback"

RowOK(r, ap, fin) ==
    /\ r \in RunRecord
    /\ r.status # "absent" => r.run \in Tokens
    /\ r.run # NoToken => Backed(r, ap)
    /\ r.status = "completed" => r.run \in fin

OtherTypes ==
    /\ leaseOwner \in Tokens \cup {NoToken}
    /\ leaseLive \in BOOLEAN
    /\ applied \subseteq Tokens \X Strategies \X (1 .. Units)
    /\ tierRuns \in [Tokens -> Nat]
    /\ finished \subseteq Tokens
    /\ faults \in Nat
    /\ sess \in [Tokens -> Session]

IInv ==
    /\ OtherTypes
    /\ RowOK(rec, applied, finished)
    /\ \A t \in Tokens : Good(t, sess[t], applied, finished)
    /\ \A t \in Tokens : Linked(t, sess[t], rec)

-----------------------------------------------------------------------------

LEMMA BlankType ==
  ASSUME NEW o \in Options
  PROVE  Blank(o) \in RunRecord /\ Fresh(o) \in Session
<1>1. Blank(o) \in RunRecord
  BY ConstantsAssumption
  DEF Blank, RunRecord, Statuses, Incomplete, Phases, Cursors, NoState
<1>2. Fresh(o) \in Session
  BY <1>1, ConstantsAssumption DEF Fresh, Session, PCs, Outcomes
<1> QED
  BY <1>1, <1>2

LEMMA InitIInv == Init => IInv
<1>1. SUFFICES ASSUME Init PROVE IInv
  OBVIOUS
<1>2. PICK o \in Options : rec = Blank(o) /\ sess = NoSessions(o)
  BY <1>1 DEF Init
<1>3. Blank(o) \in RunRecord
  BY BlankType
<1>4. Fresh(o) \in Session
  BY BlankType
<1>5. OtherTypes
  BY <1>1, <1>2, <1>4 DEF Init, OtherTypes, NoSessions
<1>6. RowOK(rec, applied, finished)
  BY <1>2, <1>3 DEF RowOK, Blank
<1>7. ASSUME NEW t \in Tokens
      PROVE  Good(t, sess[t], applied, finished) /\ Linked(t, sess[t], rec)
  <2>1. sess[t] = Fresh(o) /\ sess[t].pc = "idle" /\ sess[t].outcome = "none"
    BY <1>2, <1>7 DEF Fresh, NoSessions
  <2>2. rec.owner = NoToken /\ rec.run = NoToken
    BY <1>2 DEF Blank
  <2> QED
    BY <2>1, <2>2, <1>4, <1>7, ConstantsAssumption
    DEF Good, Linked, Live, Working, PreClaim
<1> QED
  BY <1>5, <1>6, <1>7 DEF IInv

(***************************************************************************)
(* One session moves to n, the others stay as they are: what must hold of  *)
(* n, of the row and of the histories for the invariant to survive.        *)
(***************************************************************************)
LEMMA OneMoves ==
  ASSUME IInv, NEW t \in Tokens, NEW n,
         Become(t, n),
         OtherTypes',
         RowOK(rec, applied, finished)',
         applied \subseteq applied', finished \subseteq finished',
         Good(t, n, applied', finished'),
         Linked(t, n, rec'),
         rec' = rec \/ (rec'.owner = t /\ rec'.run \in {rec.run, t})
  PROVE  IInv'
<1>1. sess \in [Tokens -> Session] /\ sess' = [sess EXCEPT ![t] = n]
  BY DEF IInv, OtherTypes, Become
<1>2. sess'[t] = n
  BY <1>1
<1>3. ASSUME NEW u \in Tokens, u # t
      PROVE  Good(u, sess'[u], applied', finished') /\ Linked(u, sess'[u], rec')
  <2>1. sess'[u] = sess[u]
    BY <1>1, <1>3
  <2>2. Good(u, sess[u], applied, finished) /\ Linked(u, sess[u], rec)
    BY <1>3 DEF IInv
  <2>3. Good(u, sess[u], applied', finished')
    BY <2>2 DEF Good, Backed
  <2>4. Linked(u, sess[u], rec')
    BY <2>2, <1>3 DEF Linked
  <2> QED
    BY <2>1, <2>3, <2>4
<1> QED
  BY <1>2, <1>3 DEF IInv


\* The session may go on as e once its copy of the run is st.
Fit(t, e, st, fin) ==
    /\ e \in Session
    /\ e.pc \notin PreClaim
    /\ Good(t, Holding(e, st), applied, fin)
    /\ st.status = "completed" /\ e.pc \in Live => e.pc = "readback"

(***************************************************************************)
(* Every save, whatever its caller: the row is overwritten only by the     *)
(* session whose copy is not behind it.                                    *)
(***************************************************************************)
LEMMA SaveStep ==
  ASSUME IInv, NEW t \in Tokens, sess[t].pc \in Live \ {"readback"},
         NEW st \in RunRecord, st.owner = t, st.run = sess[t].local.run,
         Behind(sess[t].local, st), Backed(st, applied),
         NEW ok, Fit(t, ok, st, finished \cup {st.run}),
         ok.outcome = "completed" => st.status = "completed",
         NEW errs, \A e \in errs : Fit(t, e, st, finished) /\ e.outcome # "completed",
         NEW fencedAs \in {"blocked", "lease_lost"},
         Save(t, st, ok, errs, fencedAs),
         UNCHANGED <<leaseOwner, leaseLive, applied, tierRuns>>
  PROVE  IInv' /\ WorkKept
<1> DEFINE s == sess[t]
<1>1. /\ OtherTypes
      /\ RowOK(rec, applied, finished)
      /\ Good(t, s, applied, finished)
      /\ Linked(t, s, rec)
  BY DEF IInv
<1>2. s \in Session /\ s.local.run \in Tokens /\ s.pc \notin PreClaim
  BY <1>1 DEF Good, Live, Working, PreClaim
<1>3. ASSUME rec.owner = t
      PROVE  /\ rec.run = st.run /\ rec.status # "completed" /\ Behind(rec, st)
  <2>1. rec.run = s.local.run /\ Behind(rec, s.local) /\ rec.status # "completed"
    BY <1>1, <1>3 DEF Linked
  <2>2. Behind(rec, st)
    <3>1. \A x \in Strategies : /\ rec.cursor[x] \in Int
                                /\ s.local.cursor[x] \in Int
                                /\ st.cursor[x] \in Int
      BY <1>1, <1>2, ConstantsAssumption
      DEF RowOK, Session, RunRecord, Cursors, NoState
    <3> QED
      BY <2>1, <3>1 DEF Behind
  <2> QED
    BY <2>1, <2>2
<1>4. ASSUME rec' = rec, finished \subseteq finished', finished' \subseteq Tokens,
             RowOK(rec, applied', finished'), faults' \in Nat,
             NEW e, Fit(t, e, st, finished'), Become(t, Holding(e, st))
      PROVE  IInv' /\ WorkKept
  <2>1. Good(t, Holding(e, st), applied', finished') /\ Holding(e, st) \in Session
    BY <1>4 DEF Fit, Good
  <2>2. OtherTypes'
    BY <1>1, <1>4, <2>1 DEF OtherTypes, Become
  <2>3. Holding(e, st).pc = e.pc /\ Holding(e, st).local = st
    BY <1>4 DEF Holding, Fit, Session
  <2>4. Linked(t, Holding(e, st), rec')
    BY <2>3, <1>3, <1>4 DEF Linked, Fit
  <2>5. IInv'
    BY <1>4, <2>1, <2>2, <2>4, OneMoves
  <2>6. WorkKept
    BY <1>1, <1>4, ConstantsAssumption
    DEF WorkKept, RowOK, RunRecord, Cursors, NoState
  <2> QED
    BY <2>5, <2>6
<1>5. ASSUME rec.owner = t, rec' = st, Note(st), faults' \in Nat,
             NEW e, Fit(t, e, st, finished'), Become(t, Holding(e, st))
      PROVE  IInv' /\ WorkKept
  <2>1. Good(t, Holding(e, st), applied', finished') /\ Holding(e, st) \in Session
    BY <1>5 DEF Fit, Good
  <2>2. /\ finished \subseteq finished' /\ finished' \subseteq Tokens
        /\ st.status = "completed" => st.run \in finished'
    BY <1>1, <1>2, <1>5 DEF Note, OtherTypes
  <2>3. OtherTypes'
    BY <1>1, <1>5, <2>1, <2>2 DEF OtherTypes, Become
  <2>4. Holding(e, st).pc = e.pc /\ Holding(e, st).local = st
    BY <1>5 DEF Holding, Fit, Session
  <2>5. RowOK(rec, applied, finished)'
    BY <1>2, <1>5, <2>2 DEF RowOK
  <2>6. Linked(t, Holding(e, st), rec')
    <3>1. Behind(st, st)
      BY ConstantsAssumption DEF Behind, RunRecord, Cursors, NoState
    <3> QED
      BY <2>4, <3>1, <1>5 DEF Linked, Fit
  <2>7. IInv'
    BY <1>5, <2>1, <2>2, <2>3, <2>5, <2>6, <1>3, OneMoves
  <2>8. WorkKept
    BY <1>3, <1>5 DEF WorkKept, Behind
  <2> QED
    BY <2>7, <2>8
<1>7. CASE /\ ~sess[t].lost /\ OwnsRow(t)
           /\ rec' = st /\ Note(st)
           /\ Become(t, Holding(ok, st))
           /\ UNCHANGED faults
  <2>1. finished' = IF st.status = "completed" THEN finished \cup {st.run} ELSE finished
    BY <1>7 DEF Note
  <2>2. Holding(ok, st).outcome = ok.outcome
    BY DEF Holding, Fit, Session
  <2>3. Fit(t, ok, st, finished')
    BY <2>1, <2>2 DEF Fit, Good
  <2>4. faults' \in Nat
    BY <1>1, <1>7 DEF OtherTypes
  <2> QED
    BY <1>5, <1>7, <2>3, <2>4 DEF OwnsRow
<1>8. CASE /\ Become(t, Holding(LostEnd(t, fencedAs), st))
           /\ UNCHANGED <<rec, finished, faults>>
  <2>1. LostEnd(t, fencedAs) \in Session
    BY <1>2 DEF LostEnd, End, Session, PCs, Outcomes
  <2>2. LostEnd(t, fencedAs).pc = "closing" /\ LostEnd(t, fencedAs).outcome = fencedAs
    BY <1>2 DEF LostEnd, End, Session
  <2>3. Holding(LostEnd(t, fencedAs), st) \in Session
    BY <2>1 DEF Holding, Session
  <2>4. /\ Holding(LostEnd(t, fencedAs), st).pc = "closing"
        /\ Holding(LostEnd(t, fencedAs), st).outcome = fencedAs
    BY <2>1, <2>2 DEF Holding, Session
  <2>5. Fit(t, LostEnd(t, fencedAs), st, finished')
    BY <2>1, <2>2, <2>3, <2>4 DEF Fit, Good, Live, Working, Opening, PreClaim
  <2>6. faults' \in Nat /\ finished' \subseteq Tokens
    BY <1>1, <1>8 DEF OtherTypes
  <2> QED
    BY <1>1, <1>4, <1>8, <2>5, <2>6
<1>9. ASSUME ~sess[t].lost, Fault, NEW e \in errs, Become(t, Holding(e, st)),
             \/ OwnsRow(t) /\ rec' = st /\ Note(st)
             \/ UNCHANGED <<rec, finished>>
      PROVE  IInv' /\ WorkKept
  <2>1. faults' \in Nat
    BY <1>1, <1>9 DEF Fault, OtherTypes
  <2>2. Fit(t, e, st, finished) /\ e.outcome # "completed"
    BY <1>9
  <2>3. CASE OwnsRow(t) /\ rec' = st /\ Note(st)
    <3>1. Holding(e, st).outcome = e.outcome
      BY <2>2 DEF Holding, Fit, Session
    <3>2. Fit(t, e, st, finished')
      BY <2>2, <3>1 DEF Fit, Good
    <3> QED
      BY <1>5, <1>9, <2>1, <2>3, <3>2 DEF OwnsRow
  <2>4. CASE UNCHANGED <<rec, finished>>
    <3>1. finished' \subseteq Tokens
      BY <1>1, <2>4 DEF OtherTypes
    <3> QED
      BY <1>1, <1>4, <1>9, <2>1, <2>2, <2>4, <3>1
  <2> QED
    BY <1>9, <2>3, <2>4
<1> QED
  BY <1>7, <1>8, <1>9 DEF Save

-----------------------------------------------------------------------------
(* What is common to the steps that are not saves. *)

LEMMA SessionFacts ==
  ASSUME IInv, NEW t \in Tokens
  PROVE  /\ sess[t] \in Session
         /\ Good(t, sess[t], applied, finished)
         /\ Linked(t, sess[t], rec)
         /\ \A pc \in PCs : To(t, pc) \in Session
         /\ \A o \in Outcomes : End(t, o) \in Session /\ LostEnd(t, o) \in Session
         /\ \A pc \in PCs, x \in Strategies \cup {0} : FailAt(t, x, pc) \in Session
<1>1. sess[t] \in Session
  BY DEF IInv, Good
<1>2. Good(t, sess[t], applied, finished) /\ Linked(t, sess[t], rec)
  BY DEF IInv
<1>3. \A pc \in PCs : To(t, pc) \in Session
  BY <1>1 DEF To, Session
<1>4. \A o \in Outcomes : End(t, o) \in Session /\ LostEnd(t, o) \in Session
  BY <1>1 DEF End, LostEnd, Session, PCs
<1>5. \A pc \in PCs, x \in Strategies \cup {0} : FailAt(t, x, pc) \in Session
  BY <1>1 DEF FailAt, Session
<1> QED
  BY <1>1, <1>2, <1>3, <1>4, <1>5

\* A step of t that leaves the row alone.
LEMMA LocalStep ==
  ASSUME IInv, NEW t \in Tokens, NEW n,
         Become(t, n),
         Good(t, n, applied', finished),
         n.pc \in PreClaim => sess[t].pc \in PreClaim,
         n.pc \in Live => /\ sess[t].pc \in Live
                          /\ n.local = sess[t].local
                          /\ sess[t].pc = "readback" => n.pc = "readback",
         applied \subseteq applied',
         applied' \subseteq Tokens \X Strategies \X (1 .. Units),
         leaseOwner' \in Tokens \cup {NoToken}, leaseLive' \in BOOLEAN,
         tierRuns' \in [Tokens -> Nat], faults' \in Nat,
         rec' = rec, finished' = finished
  PROVE  IInv' /\ WorkKept
<1>1. /\ OtherTypes
      /\ RowOK(rec, applied, finished)
      /\ Linked(t, sess[t], rec)
  BY DEF IInv
<1>2. OtherTypes'
  BY <1>1 DEF OtherTypes, Become, Good
<1>3. RowOK(rec, applied, finished)'
  BY <1>1 DEF RowOK, Backed
<1>4. Linked(t, n, rec')
  BY <1>1 DEF Linked
<1>5. IInv'
  BY <1>2, <1>3, <1>4, OneMoves
<1>6. WorkKept
  BY <1>1, ConstantsAssumption DEF WorkKept, RowOK, RunRecord, Cursors, NoState
<1> QED
  BY <1>5, <1>6

\* Program points that carry no promise about the strategy under way.
Resting == {"loop", "pausing", "failing", "tier_start", "tier_run", "tier_done",
            "completing", "readback"}

LEMMA RestFit ==
  ASSUME NEW t \in Tokens, NEW e \in Session, NEW st \in RunRecord, NEW fin,
         e.pc \in Resting \/ e.pc = "closing",
         e.outcome = "completed" => e.pc = "closing" /\ st.run \in fin,
         st.owner = t, st.run \in Tokens, Backed(st, applied),
         st.status = "completed" => e.pc \in {"readback", "closing"}
  PROVE  Fit(t, e, st, fin)
<1>1. /\ Holding(e, st) \in Session
      /\ Holding(e, st).pc = e.pc
      /\ Holding(e, st).local = st
      /\ Holding(e, st).outcome = e.outcome
  BY DEF Holding, Session
<1>2. Good(t, Holding(e, st), applied, fin)
  BY <1>1 DEF Good, Resting, Live, Working
<1> QED
  BY <1>2 DEF Fit, Resting, PreClaim, Live, Working

LEMMA RestGood ==
  ASSUME NEW t \in Tokens, NEW n \in Session, NEW ap, NEW fin,
         \/ n.pc \in {"closing", "closed"}
         \/ /\ n.pc \in Resting
            /\ n.local.owner = t /\ n.local.run \in Tokens /\ Backed(n.local, ap)
            /\ n.pc = "readback" \/ n.local.status # "completed",
         n.outcome = "completed" => /\ n.pc \in {"closing", "closed"}
                                    /\ n.local.run \in fin
  PROVE  Good(t, n, ap, fin)
BY DEF Good, Resting, Live, Working, Opening

-----------------------------------------------------------------------------
(* One lemma per action, or per group of actions of one shape. *)

LEMMA AcquireStep ==
  ASSUME IInv, NEW t \in Tokens, NEW o \in Options, Acquire(t, o)
  PROVE  IInv' /\ WorkKept
<1> DEFINE n == [Fresh(o) EXCEPT !.pc = "acquired"]
<1>1. OtherTypes
  BY DEF IInv
<1>2. n \in Session /\ n.pc = "acquired" /\ n.outcome = "none"
  <2>1. Fresh(o) \in Session /\ Fresh(o).outcome = "none"
    BY BlankType DEF Fresh
  <2> QED
    BY <2>1 DEF Session, PCs, Opening
<1>3. Good(t, n, applied', finished)
  BY <1>2 DEF Good, Live, Working
<1>4. sess[t].pc = "idle" /\ Become(t, n)
  BY DEF Acquire
<1>5. n.pc \in PreClaim /\ n.pc \notin Live /\ sess[t].pc \in PreClaim
  BY <1>2, <1>4 DEF PreClaim, Live, Working
<1>6. /\ applied' = applied /\ tierRuns' = tierRuns /\ faults' = faults
      /\ rec' = rec /\ finished' = finished
      /\ leaseOwner' \in Tokens /\ leaseLive' \in BOOLEAN
  BY DEF Acquire
<1> HIDE DEF n
<1> QED
  BY <1>1, <1>3, <1>4, <1>5, <1>6, LocalStep DEF OtherTypes

\* Steps that only move a session within the opening, end it, or give up on
\* what it was doing: nothing but sess, the lease and the fault count changes.
LEMMA ControlStep ==
  ASSUME IInv, NEW t \in Tokens, NEW n \in Session,
         Become(t, n),
         \/ n.pc \in {"closing", "closed"}
         \/ n.pc \in PreClaim /\ sess[t].pc \in PreClaim
         \/ /\ n.pc \in Resting /\ sess[t].pc \in Live /\ n.local = sess[t].local
            /\ sess[t].pc = "readback" => n.pc = "readback",
         n.outcome = "completed" => /\ n.pc \in {"closing", "closed"}
                                    /\ n.local.run \in finished,
         leaseOwner' \in Tokens \cup {NoToken}, leaseLive' \in BOOLEAN,
         UNCHANGED faults \/ Fault,
         UNCHANGED <<rec, applied, tierRuns, finished>>
  PROVE  IInv' /\ WorkKept
<1>1. OtherTypes /\ Good(t, sess[t], applied, finished)
  BY DEF IInv
<1>2. faults' \in Nat
  BY <1>1 DEF OtherTypes, Fault
<1>3. CASE n.pc \in {"closing", "closed"}
  <2>1. Good(t, n, applied', finished)
    BY <1>3, RestGood
  <2>2. n.pc \notin PreClaim /\ n.pc \notin Live
    BY <1>3 DEF PreClaim, Live, Working
  <2> QED
    BY <1>1, <1>2, <2>1, <2>2, LocalStep DEF OtherTypes
<1>4. CASE n.pc \in PreClaim /\ sess[t].pc \in PreClaim
  <2>1. n.pc \notin Live
    BY <1>4 DEF PreClaim, Live, Working
  <2>2. Good(t, n, applied', finished)
    BY <1>4, <2>1 DEF Good, PreClaim
  <2> QED
    BY <1>1, <1>2, <1>4, <2>1, <2>2, LocalStep DEF OtherTypes
<1>5. CASE /\ n.pc \in Resting /\ sess[t].pc \in Live /\ n.local = sess[t].local
           /\ sess[t].pc = "readback" => n.pc = "readback"
  <2>1. n.pc \in Live /\ n.pc \notin PreClaim
    BY <1>5 DEF Resting, PreClaim, Live, Working
  <2>2. Good(t, n, applied', finished)
    BY <1>1, <1>5, RestGood DEF Good
  <2> QED
    BY <1>1, <1>2, <1>5, <2>1, <2>2, LocalStep DEF OtherTypes
<1> QED
  BY <1>3, <1>4, <1>5

LEMMA ReadRecordStep ==
  ASSUME IInv, NEW t \in Tokens, ReadRecord(t)
  PROVE  IInv' /\ WorkKept
<1>1. OtherTypes /\ sess[t].pc = "acquired"
  BY DEF IInv, ReadRecord
<1>2. PICK n \in {To(t, "claim"), To(t, "start"), End(t, "blocked")} : Become(t, n)
  BY DEF ReadRecord
<1>3. n \in Session
  BY <1>2, SessionFacts DEF PCs, Opening, Outcomes
<1>4. /\ n.pc \in {"claim", "start", "closing"}
      /\ n.outcome = "completed" => sess[t].outcome = "completed"
  BY <1>2, SessionFacts DEF To, End, Session
<1>5. sess[t].outcome # "completed"
  BY <1>1, SessionFacts DEF Good
<1> QED
  BY <1>1, <1>2, <1>3, <1>4, <1>5, ControlStep DEF ReadRecord, OtherTypes, PreClaim

LEMMA ClaimStep ==
  ASSUME IInv, NEW t \in Tokens, Claim(t)
  PROVE  IInv' /\ WorkKept
<1>1. OtherTypes /\ sess[t].pc = "claim" /\ RowOK(rec, applied, finished)
  BY DEF IInv, Claim
<1>2. sess[t].outcome # "completed"
  BY <1>1, SessionFacts DEF Good
<1>3. End(t, "blocked") \in Session /\ To(t, "resume") \in Session
  BY SessionFacts DEF PCs, Opening, Outcomes
<1>4. /\ End(t, "blocked").pc = "closing" /\ End(t, "blocked").outcome = "blocked"
      /\ To(t, "resume").pc = "resume" /\ To(t, "resume").outcome = sess[t].outcome
  BY SessionFacts DEF End, To, Session
<1>5. CASE ~Claimable
  BY <1>1, <1>3, <1>4, <1>5, ControlStep DEF Claim, OtherTypes
<1>6. CASE Claimable
  <2>1. /\ rec' = Claimed(t) /\ rec.status \in Incomplete
        /\ UNCHANGED <<leaseOwner, leaseLive, applied, tierRuns, finished>>
    BY <1>6 DEF Claim, Claimable
  <2>2. /\ Claimed(t) \in RunRecord
        /\ Claimed(t).owner = t /\ Claimed(t).run = rec.run
        /\ Claimed(t).status = rec.status /\ Claimed(t).done = rec.done
        /\ Claimed(t).cursor = rec.cursor
    BY <1>1 DEF Claimed, RunRecord, RowOK
  <2>3. rec.run \in Tokens /\ Backed(Claimed(t), applied) /\ rec.status # "completed"
    BY <1>1, <2>1, <2>2, ConstantsAssumption DEF RowOK, Backed, Incomplete
  <2>4. RowOK(rec, applied, finished)'
    BY <2>1, <2>2, <2>3 DEF RowOK, Incomplete
  <2>5. Behind(rec, Claimed(t)) /\ Behind(Claimed(t), Claimed(t))
    BY <1>1, <2>2, ConstantsAssumption
    DEF Behind, RowOK, RunRecord, Cursors, NoState
  <2>6. WorkKept
    BY <2>1, <2>3, <2>5 DEF WorkKept, Behind
  <2>7. CASE Become(t, Holding(To(t, "resume"), Claimed(t))) /\ UNCHANGED faults
    <3> DEFINE n == Holding(To(t, "resume"), Claimed(t))
    <3>1. /\ n \in Session /\ n.pc = "resume" /\ n.local = Claimed(t)
          /\ n.outcome = sess[t].outcome
      BY <1>3, <1>4, <2>2 DEF Holding, Session
    <3>2. Good(t, n, applied', finished')
      BY <3>1, <2>1, <2>2, <2>3, <1>2 DEF Good
    <3>3. Linked(t, n, rec')
      BY <3>1, <2>1, <2>2, <2>3, <2>5 DEF Linked, PreClaim
    <3>4. OtherTypes'
      BY <1>1, <2>1, <2>7, <3>1 DEF OtherTypes, Become
    <3> HIDE DEF n
    <3> QED
      BY <2>1, <2>2, <2>4, <2>6, <2>7, <3>2, <3>3, <3>4, OneMoves DEF n
  <2>8. CASE Become(t, End(t, "blocked")) /\ Fault
    <3>1. Good(t, End(t, "blocked"), applied', finished')
      BY <1>3, <1>4, RestGood
    <3>2. Linked(t, End(t, "blocked"), rec')
      BY <1>4 DEF Linked, PreClaim, Live, Working
    <3>3. OtherTypes'
      BY <1>1, <1>3, <2>1, <2>8 DEF OtherTypes, Become, Fault
    <3> QED
      BY <2>1, <2>2, <2>4, <2>6, <2>8, <3>1, <3>2, <3>3, OneMoves
  <2> QED
    BY <1>6, <2>7, <2>8 DEF Claim
<1> QED
  BY <1>5, <1>6

LEMMA StartStep ==
  ASSUME IInv, NEW t \in Tokens, Start(t)
  PROVE  IInv' /\ WorkKept
<1>1. OtherTypes /\ sess[t].pc = "start" /\ Linked(t, sess[t], rec) /\ sess[t] \in Session
  BY SessionFacts DEF IInv, Start
<1>2. sess[t].outcome # "completed" /\ rec.run # t
  BY <1>1, SessionFacts DEF Good, Linked, PreClaim
<1>3. End(t, "blocked") \in Session /\ To(t, "loop") \in Session
  BY SessionFacts DEF PCs, Working, Outcomes
<1>4. /\ End(t, "blocked").pc = "closing" /\ End(t, "blocked").outcome = "blocked"
      /\ To(t, "loop").pc = "loop" /\ To(t, "loop").outcome = sess[t].outcome
  BY SessionFacts DEF End, To, Session
<1>5. /\ NewRun(t) \in RunRecord /\ NewRun(t).run = t /\ NewRun(t).owner = t
      /\ NewRun(t).status = "running" /\ NewRun(t).done = {}
      /\ NewRun(t).cursor = [s \in Strategies |-> NoState]
  <2>1. sess[t].opt \in Options
    BY <1>1 DEF Session
  <2>2. /\ Blank(sess[t].opt) \in RunRecord
        /\ Blank(sess[t].opt).done = {}
        /\ Blank(sess[t].opt).cursor = [s \in Strategies |-> NoState]
    BY <2>1, BlankType DEF Blank
  <2> QED
    BY <2>2 DEF NewRun, RunRecord, Statuses, Incomplete
<1>6. Backed(NewRun(t), applied) /\ Behind(NewRun(t), NewRun(t))
  BY <1>5, ConstantsAssumption DEF Backed, Behind, NoState
<1>7. /\ rec' = NewRun(t)
      /\ UNCHANGED <<leaseOwner, leaseLive, applied, tierRuns, finished>>
  BY DEF Start
<1>8. RowOK(rec, applied, finished)'
  BY <1>5, <1>6, <1>7 DEF RowOK
<1>9. WorkKept
  BY <1>2, <1>5, <1>7 DEF WorkKept
<1>10. CASE Become(t, Holding(To(t, "loop"), NewRun(t))) /\ UNCHANGED faults
  <2> DEFINE n == Holding(To(t, "loop"), NewRun(t))
  <2>1. /\ n \in Session /\ n.pc = "loop" /\ n.local = NewRun(t)
        /\ n.outcome = sess[t].outcome
    BY <1>3, <1>4, <1>5 DEF Holding, Session
  <2>2. Good(t, n, applied', finished')
    BY <2>1, <1>2, <1>5, <1>6, <1>7, RestGood DEF Resting
  <2>3. Linked(t, n, rec')
    BY <2>1, <1>5, <1>6, <1>7 DEF Linked, PreClaim
  <2>4. OtherTypes'
    BY <1>1, <1>7, <1>10, <2>1 DEF OtherTypes, Become
  <2> HIDE DEF n
  <2> QED
    BY <1>5, <1>7, <1>8, <1>9, <1>10, <2>2, <2>3, <2>4, OneMoves DEF n
<1>11. CASE Become(t, End(t, "blocked")) /\ Fault
  <2>1. Good(t, End(t, "blocked"), applied', finished')
    BY <1>3, <1>4, RestGood
  <2>2. Linked(t, End(t, "blocked"), rec')
    BY <1>4 DEF Linked, PreClaim, Live, Working
  <2>3. OtherTypes'
    BY <1>1, <1>3, <1>7, <1>11 DEF OtherTypes, Become, Fault
  <2> QED
    BY <1>5, <1>7, <1>8, <1>9, <1>11, <2>1, <2>2, <2>3, OneMoves
<1> QED
  BY <1>10, <1>11 DEF Start

-----------------------------------------------------------------------------
(* The saves. *)

\* What a session that is executing its run can rely on.
LEMMA LiveFacts ==
  ASSUME IInv, NEW t \in Tokens, sess[t].pc \in Live
  PROVE  /\ sess[t].local \in RunRecord
         /\ sess[t].local.owner = t /\ sess[t].local.run \in Tokens
         /\ Backed(sess[t].local, applied)
         /\ Behind(sess[t].local, sess[t].local)
         /\ sess[t].pc = "readback" \/ sess[t].local.status # "completed"
         /\ sess[t].outcome # "completed"
         /\ sess[t].opt \in Options
<1>1. sess[t] \in Session /\ Good(t, sess[t], applied, finished)
  BY SessionFacts
<1>2. sess[t].local \in RunRecord /\ sess[t].opt \in Options
  BY <1>1 DEF Session
<1>3. Behind(sess[t].local, sess[t].local)
  BY <1>2, ConstantsAssumption DEF Behind, RunRecord, Cursors, NoState
<1>4. sess[t].outcome # "completed"
  BY <1>1 DEF Good, Live, Working
<1> QED
  BY <1>1, <1>2, <1>3, <1>4 DEF Good

\* The finalization checkpoints, fail, pause and complete change the status
\* and the phase of the copy and nothing else.
SameRun(r, q) ==
    /\ q \in RunRecord
    /\ q.owner = r.owner /\ q.run = r.run
    /\ q.done = r.done /\ q.cursor = r.cursor

LEMMA StatusOnly ==
  ASSUME NEW r \in RunRecord, NEW x \in Statuses
  PROVE  SameRun(r, SetStatus(r, x)) /\ SetStatus(r, x).status = x
BY DEF SameRun, RunRecord, SetStatus

LEMMA PhaseOnly ==
  ASSUME NEW r \in RunRecord, NEW y \in Phases
  PROVE  SameRun(r, SetPhase(r, y)) /\ SetPhase(r, y).status = r.status
BY DEF SameRun, RunRecord, SetPhase

\* Saves that change only the status or the phase, and how they may go on.
LEMMA StatusSave ==
  ASSUME IInv, NEW t \in Tokens, sess[t].pc \in Live \ {"readback"},
         NEW st, SameRun(sess[t].local, st),
         NEW ok \in Session, NEW errs \in SUBSET Session,
         ok.pc \in Resting \/ ok.pc = "closing",
         ok.outcome = "completed" => st.status = "completed" /\ ok.pc = "closing",
         \A e \in errs : /\ e.pc \in Resting \/ e.pc = "closing"
                         /\ e.outcome # "completed",
         st.status = "completed" =>
             \A e \in errs \cup {ok} : e.pc \in {"readback", "closing"},
         NEW fencedAs \in {"blocked", "lease_lost"},
         Save(t, st, ok, errs, fencedAs),
         UNCHANGED <<leaseOwner, leaseLive, applied, tierRuns>>
  PROVE  IInv' /\ WorkKept
<1>1. /\ st.owner = t /\ st.run \in Tokens /\ Backed(st, applied)
      /\ Behind(sess[t].local, st)
      /\ st \in RunRecord /\ st.run = sess[t].local.run
  BY LiveFacts DEF Backed, Behind, SameRun
<1>2. Fit(t, ok, st, finished \cup {st.run})
  BY <1>1, RestFit
<1>3. \A e \in errs : Fit(t, e, st, finished)
  BY <1>1, RestFit
<1> QED
  BY <1>1, <1>2, <1>3, SaveStep

\* Where the saves go on: the sessions they name, field by field.
LEMMA Successors ==
  ASSUME IInv, NEW t \in Tokens, sess[t].pc \in Live
  PROVE  /\ \A pc \in PCs : /\ To(t, pc) \in Session
                            /\ To(t, pc).pc = pc
                            /\ To(t, pc).at = sess[t].at
                            /\ To(t, pc).local = sess[t].local
                            /\ To(t, pc).outcome # "completed"
         /\ \A pc \in PCs, x \in Strategies \cup {0} :
               /\ FailAt(t, x, pc) \in Session
               /\ FailAt(t, x, pc).pc = pc
               /\ FailAt(t, x, pc).local = sess[t].local
               /\ FailAt(t, x, pc).outcome # "completed"
         /\ \A o \in Outcomes : /\ End(t, o) \in Session
                                /\ End(t, o).pc = "closing"
                                /\ End(t, o).local = sess[t].local
                                /\ End(t, o).outcome = o
<1>1. sess[t] \in Session /\ sess[t].outcome # "completed"
  BY SessionFacts, LiveFacts
<1>2. \A pc \in PCs : /\ To(t, pc).pc = pc
                      /\ To(t, pc).at = sess[t].at
                      /\ To(t, pc).local = sess[t].local
                      /\ To(t, pc).outcome # "completed"
  BY <1>1 DEF To, Session
<1>3. \A pc \in PCs, x \in Strategies \cup {0} :
               /\ FailAt(t, x, pc).pc = pc
               /\ FailAt(t, x, pc).local = sess[t].local
               /\ FailAt(t, x, pc).outcome # "completed"
  BY <1>1 DEF FailAt, Session
<1>4. \A o \in Outcomes : /\ End(t, o).pc = "closing"
                          /\ End(t, o).local = sess[t].local
                          /\ End(t, o).outcome = o
  BY <1>1 DEF End, Session
<1> QED
  BY <1>2, <1>3, <1>4, SessionFacts

LEMMA ResumeSaveStep ==
  ASSUME IInv, NEW t \in Tokens, ResumeSave(t)
  PROVE  IInv' /\ WorkKept
<1> DEFINE st == SetStatus(sess[t].local, "running")
           ok == [To(t, "loop") EXCEPT
                    !.finOnly = Requested[sess[t].opt] \subseteq st.done]
<1>1. sess[t].pc = "resume" /\ sess[t].pc \in Live \ {"readback"}
  BY DEF ResumeSave, Live
<1>2. SameRun(sess[t].local, st) /\ st.status = "running"
  <2>1. sess[t].local \in RunRecord /\ "running" \in Statuses
    BY <1>1, LiveFacts DEF Statuses, Incomplete
  <2> QED
    BY <2>1, StatusOnly, PhaseOnly
<1>3. To(t, "loop") \in Session /\ To(t, "loop").pc = "loop"
      /\ To(t, "loop").outcome # "completed"
  BY <1>1, Successors DEF PCs, Working
<1>4. ok \in Session /\ ok.pc = "loop" /\ ok.outcome # "completed"
  BY <1>3 DEF Session
<1>5. End(t, "blocked") \in Session /\ End(t, "blocked").pc = "closing"
      /\ End(t, "blocked").outcome # "completed"
  BY <1>1, Successors DEF Outcomes
<1>6. /\ Save(t, st, ok, {End(t, "blocked")}, "blocked")
      /\ UNCHANGED <<leaseOwner, leaseLive, applied, tierRuns>>
  BY DEF ResumeSave
<1> HIDE DEF st, ok
<1> QED
  BY <1>1, <1>2, <1>4, <1>5, <1>6, StatusSave DEF Resting

LEMMA TierCheckpointStep ==
  ASSUME IInv, NEW t \in Tokens, TierStarted(t) \/ TierCompleted(t)
  PROVE  IInv' /\ WorkKept
<1>1. sess[t].pc \in Live \ {"readback"}
  BY DEF TierStarted, TierCompleted, Live, Working
<1>2. PICK ph \in {"auto_tier_started", "auto_tier_completed"},
           pc \in {"tier_run", "completing"} :
         /\ Save(t, SetPhase(sess[t].local, ph), To(t, pc),
                 {FailAt(t, 0, "failing"), To(t, "pausing")}, "lease_lost")
         /\ UNCHANGED <<leaseOwner, leaseLive, applied, tierRuns>>
  BY DEF TierStarted, TierCompleted
<1> DEFINE st == SetPhase(sess[t].local, ph)
<1>3. SameRun(sess[t].local, st) /\ st.status = sess[t].local.status
  <2>1. sess[t].local \in RunRecord /\ ph \in Phases
    BY <1>1, LiveFacts DEF Phases
  <2> QED
    BY <2>1, StatusOnly, PhaseOnly
<1>4. st.status # "completed"
  BY <1>1, <1>3, LiveFacts
<1>5. {"tier_run", "completing", "failing", "pausing"} \subseteq PCs
  BY DEF PCs, Working
<1>6. /\ To(t, pc) \in Session /\ To(t, pc).pc \in Resting
      /\ To(t, pc).outcome # "completed"
      /\ \A e \in {FailAt(t, 0, "failing"), To(t, "pausing")} :
            e \in Session /\ e.pc \in Resting /\ e.outcome # "completed"
  BY <1>1, <1>5, Successors DEF Resting
<1> DEFINE errs == {FailAt(t, 0, "failing"), To(t, "pausing")}
<1>7. errs \in SUBSET Session
  BY <1>6
<1>8. /\ Save(t, st, To(t, pc), errs, "lease_lost")
      /\ UNCHANGED <<leaseOwner, leaseLive, applied, tierRuns>>
  BY <1>2
<1> HIDE DEF st, errs
<1> QED
  BY <1>1, <1>3, <1>4, <1>6, <1>7, <1>8, StatusSave DEF errs

LEMMA FailPauseStep ==
  ASSUME IInv, NEW t \in Tokens, FailRun(t) \/ PauseRun(t)
  PROVE  IInv' /\ WorkKept
<1>1. sess[t].pc \in Live \ {"readback"}
  BY DEF FailRun, PauseRun, Live, Working
<1>2. PICK o \in {"failed", "paused"},
           errs \in SUBSET {End(t, "failed"), End(t, "paused"), To(t, "pausing")} :
         /\ Save(t, SetStatus(sess[t].local, o), End(t, o), errs, "lease_lost")
         /\ UNCHANGED <<leaseOwner, leaseLive, applied, tierRuns>>
  BY DEF FailRun, PauseRun
<1> DEFINE st == SetStatus(sess[t].local, o)
<1>3. SameRun(sess[t].local, st) /\ st.status = o
  <2>1. sess[t].local \in RunRecord /\ o \in Statuses
    BY <1>1, LiveFacts DEF Statuses, Incomplete
  <2> QED
    BY <2>1, StatusOnly, PhaseOnly
<1>4. "pausing" \in PCs /\ {"failed", "paused"} \subseteq Outcomes
  BY DEF PCs, Working, Outcomes
<1>5. /\ End(t, o) \in Session /\ End(t, o).pc = "closing"
      /\ End(t, o).outcome # "completed"
      /\ \A e \in errs : /\ e \in Session /\ e.outcome # "completed"
                         /\ e.pc \in Resting \/ e.pc = "closing"
  BY <1>1, <1>4, Successors DEF Resting
<1>6. /\ Save(t, st, End(t, o), errs, "lease_lost")
      /\ UNCHANGED <<leaseOwner, leaseLive, applied, tierRuns>>
  BY <1>2
<1>7. errs \in SUBSET Session /\ st.status # "completed"
  BY <1>3, <1>5
<1> HIDE DEF st
<1> QED
  BY <1>1, <1>3, <1>5, <1>6, <1>7, StatusSave

LEMMA CompleteRunStep ==
  ASSUME IInv, NEW t \in Tokens, CompleteRun(t)
  PROVE  IInv' /\ WorkKept
<1> DEFINE st == SetPhase(SetStatus(sess[t].local, "completed"), "completed")
           errs == {To(t, "readback"), End(t, "completion_unconfirmed")}
<1>1. sess[t].pc \in Live \ {"readback"}
  BY DEF CompleteRun, Live, Working
<1>2. /\ Save(t, st, End(t, "completed"), errs, "lease_lost")
      /\ UNCHANGED <<leaseOwner, leaseLive, applied, tierRuns>>
  BY DEF CompleteRun
<1>3. SameRun(sess[t].local, st) /\ st.status = "completed"
  <2> DEFINE q == SetStatus(sess[t].local, "completed")
  <2>1. sess[t].local \in RunRecord /\ "completed" \in Statuses /\ "completed" \in Phases
    BY <1>1, LiveFacts DEF Statuses, Phases
  <2>2. SameRun(sess[t].local, q) /\ q.status = "completed" /\ q \in RunRecord
    BY <2>1, StatusOnly DEF SameRun
  <2>3. SameRun(q, SetPhase(q, "completed")) /\ SetPhase(q, "completed").status = q.status
    BY <2>1, <2>2, PhaseOnly
  <2> QED
    BY <2>2, <2>3 DEF SameRun
<1>4. "readback" \in PCs /\ {"completed", "completion_unconfirmed"} \subseteq Outcomes
  BY DEF PCs, Working, Outcomes
<1>5. errs \in SUBSET Session
      /\ \A e \in errs : e.pc \in {"readback", "closing"} /\ e.outcome # "completed"
  BY <1>1, <1>4, Successors
<1>6. End(t, "completed") \in Session /\ End(t, "completed").pc = "closing"
  BY <1>1, <1>4, Successors
<1> HIDE DEF st, errs
<1> QED
  BY <1>1, <1>2, <1>3, <1>5, <1>6, StatusSave DEF Resting

LEMMA AdvancedCopy ==
  ASSUME NEW r \in RunRecord, NEW s \in Strategies, NEW c \in Cursors,
         r.cursor[s] <= c
  PROVE  LET q == Advance(r, s, c)
         IN  /\ q \in RunRecord
             /\ q.owner = r.owner /\ q.run = r.run /\ q.done = r.done
             /\ q.status = "running"
             /\ q.cursor[s] = c
             /\ \A x \in Strategies \ {s} : q.cursor[x] = r.cursor[x]
             /\ Behind(r, q)
<1> DEFINE q == Advance(r, s, c)
<1>1. /\ q \in RunRecord
      /\ q.owner = r.owner /\ q.run = r.run /\ q.done = r.done
      /\ q.status = "running"
      /\ q.cursor = [r.cursor EXCEPT ![s] = c]
  BY DEF Advance, RunRecord, Statuses, Incomplete, Phases
<1>2. r.cursor \in [Strategies -> Cursors]
  BY DEF RunRecord
<1>3. q.cursor[s] = c /\ \A x \in Strategies \ {s} : q.cursor[x] = r.cursor[x]
  BY <1>1, <1>2
<1>4. Behind(r, q)
  BY <1>1, <1>2, <1>3, ConstantsAssumption DEF Behind, Cursors, NoState
<1> QED
  BY <1>1, <1>3, <1>4

\* The two checkpoints of a strategy, "starting" and after a unit: the cursor
\* moves to c, all units up to c being written. There is something left to do
\* in the strategy, so it is not one of the completed ones.
LEMMA CheckpointSave ==
  ASSUME IInv, NEW t \in Tokens, sess[t].pc \in Live \ {"readback"},
         NEW s \in Strategies, s \notin sess[t].local.done \/ sess[t].local.cursor[s] < Units,
         NEW c \in 0 .. Units, sess[t].local.cursor[s] <= c,
         \A u \in 1 .. Units : u <= c => <<sess[t].local.run, s, u>> \in applied,
         NEW here \in Session, here.pc = "handler", here.at = s,
         here.outcome # "completed",
         NEW errs \in SUBSET Session,
         \A e \in errs : e.pc \in Resting /\ e.outcome # "completed",
         Save(t, Advance(sess[t].local, s, c), here, errs, "lease_lost"),
         UNCHANGED <<leaseOwner, leaseLive, applied, tierRuns>>
  PROVE  IInv' /\ WorkKept
<1> DEFINE r == sess[t].local
           st == Advance(r, s, c)
<1>1. /\ r \in RunRecord /\ r.owner = t /\ r.run \in Tokens
      /\ Backed(r, applied)
  BY LiveFacts
<1>2. c \in Cursors
  BY ConstantsAssumption DEF Cursors, NoState
<1>3. /\ st \in RunRecord
      /\ st.owner = r.owner /\ st.run = r.run /\ st.done = r.done
      /\ st.status = "running"
      /\ st.cursor[s] = c
      /\ \A x \in Strategies \ {s} : st.cursor[x] = r.cursor[x]
      /\ Behind(r, st)
  BY <1>1, <1>2, AdvancedCopy
<1> HIDE DEF st
<1>4. s \notin r.done
  BY <1>1, ConstantsAssumption DEF Backed
<1>5. Backed(st, applied)
  BY <1>1, <1>3, <1>4 DEF Backed
<1>6. Fit(t, here, st, finished \cup {st.run})
  <2>1. /\ Holding(here, st) \in Session
        /\ Holding(here, st).pc = "handler" /\ Holding(here, st).at = s
        /\ Holding(here, st).local = st
        /\ Holding(here, st).outcome # "completed"
    BY <1>3 DEF Holding, Session
  <2>2. AtStrategy(Holding(here, st))
    BY <2>1, <1>3 DEF AtStrategy
  <2> QED
    BY <1>1, <1>3, <1>5, <2>1, <2>2 DEF Fit, Good, PreClaim, Live, Working
<1>7. \A e \in errs : Fit(t, e, st, finished)
  BY <1>1, <1>3, <1>5, RestFit
<1>8. Save(t, st, here, errs, "lease_lost")
  BY DEF st
<1> QED
  BY <1>1, <1>3, <1>5, <1>6, <1>7, <1>8, SaveStep

LEMMA NextStrategyStep ==
  ASSUME IInv, NEW t \in Tokens, NextStrategy(t)
  PROVE  IInv' /\ WorkKept
<1>1. sess[t].pc = "loop" /\ sess[t].pc \in Live \ {"readback"}
  BY DEF NextStrategy, Live, Working
<1>2. PICK s \in Remaining(t) :
         LET here == [To(t, "handler") EXCEPT !.at = s]
             skip == [FailAt(t, s, "loop") EXCEPT !.at = s]
         IN  IF sess[t].local.cursor[s] = NoState
             THEN Save(t, Advance(sess[t].local, s, 0), here,
                       {skip, To(t, "pausing")}, "lease_lost")
             ELSE Become(t, here) /\ UNCHANGED <<rec, finished, faults>>
  BY DEF NextStrategy
<1> DEFINE here == [To(t, "handler") EXCEPT !.at = s]
           skip == [FailAt(t, s, "loop") EXCEPT !.at = s]
<1>3. UNCHANGED <<leaseOwner, leaseLive, applied, tierRuns>>
  BY DEF NextStrategy
<1>4. s \in Strategies /\ s \notin sess[t].local.done
  BY <1>1, LiveFacts, ConstantsAssumption DEF Remaining
<1>5. {"handler", "loop", "pausing"} \subseteq PCs
  BY DEF PCs, Working
<1>6. s \in 0 .. NStrategies
  BY <1>4, ConstantsAssumption DEF Strategies
<1>7. /\ here \in Session /\ here.pc = "handler" /\ here.at = s
      /\ here.local = sess[t].local /\ here.outcome # "completed"
  <2>1. /\ To(t, "handler") \in Session /\ To(t, "handler").pc = "handler"
        /\ To(t, "handler").local = sess[t].local
        /\ To(t, "handler").outcome # "completed"
    BY <1>1, <1>5, Successors
  <2> QED
    BY <2>1, <1>6 DEF Session
<1>8. skip \in Session /\ skip.pc = "loop" /\ skip.outcome # "completed"
  <2>1. /\ FailAt(t, s, "loop") \in Session /\ FailAt(t, s, "loop").pc = "loop"
        /\ FailAt(t, s, "loop").outcome # "completed"
    BY <1>1, <1>4, <1>5, Successors
  <2> QED
    BY <2>1, <1>6 DEF Session
<1>9. /\ To(t, "pausing") \in Session /\ To(t, "pausing").pc = "pausing"
      /\ To(t, "pausing").outcome # "completed"
  BY <1>1, <1>5, Successors
<1>10. CASE sess[t].local.cursor[s] = NoState
  <2> DEFINE errs == {skip, To(t, "pausing")}
  <2>1. Save(t, Advance(sess[t].local, s, 0), here, errs, "lease_lost")
    BY <1>2, <1>10
  <2>2. /\ errs \in SUBSET Session
        /\ \A e \in errs : e.pc \in Resting /\ e.outcome # "completed"
    BY <1>8, <1>9 DEF Resting
  <2>3. 0 \in 0 .. Units /\ sess[t].local.cursor[s] <= 0
    BY <1>10, ConstantsAssumption DEF NoState
  <2>4. \A u \in 1 .. Units : u <= 0 => <<sess[t].local.run, s, u>> \in applied
    BY ConstantsAssumption
  <2> HIDE DEF here, errs
  <2> QED
    BY <1>1, <1>3, <1>4, <1>7, <2>1, <2>2, <2>3, <2>4, CheckpointSave
<1>11. CASE sess[t].local.cursor[s] # NoState
  <2>1. Become(t, here) /\ UNCHANGED <<rec, finished, faults>>
    BY <1>2, <1>11
  <2>2. sess[t].local.cursor[s] \in 0 .. Units
    BY <1>1, <1>4, <1>11, LiveFacts, ConstantsAssumption
    DEF RunRecord, Cursors, NoState
  <2>3. Good(t, here, applied', finished)
    BY <1>1, <1>3, <1>4, <1>7, <2>2, LiveFacts DEF Good, AtStrategy
  <2>4. here.pc \in Live /\ here.pc \notin PreClaim
    BY <1>7 DEF Live, Working, PreClaim
  <2>5. OtherTypes
    BY DEF IInv
  <2> HIDE DEF here
  <2> QED
    BY <1>1, <1>3, <1>7, <2>1, <2>3, <2>4, <2>5, LocalStep DEF OtherTypes
<1> QED
  BY <1>10, <1>11

LEMMA CheckpointUnitStep ==
  ASSUME IInv, NEW t \in Tokens, CheckpointUnit(t)
  PROVE  IInv' /\ WorkKept
<1> DEFINE s == sess[t].at
           c == sess[t].local.cursor[s] + 1
           errs == {FailAt(t, s, "loop"), To(t, "pausing")}
<1>1. sess[t].pc = "checkpoint" /\ sess[t].pc \in Live \ {"readback"}
  BY DEF CheckpointUnit, Live, Working
<1>2. /\ Save(t, Advance(sess[t].local, s, c), To(t, "handler"), errs, "lease_lost")
      /\ UNCHANGED <<leaseOwner, leaseLive, applied, tierRuns>>
  BY DEF CheckpointUnit
<1>3. /\ s \in Strategies /\ sess[t].local.cursor[s] \in 0 .. Units
      /\ sess[t].local.cursor[s] < Units
      /\ <<sess[t].local.run, s, c>> \in applied
  BY <1>1, SessionFacts DEF Good, AtStrategy
<1>4. c \in 0 .. Units /\ sess[t].local.cursor[s] <= c
  BY <1>3, ConstantsAssumption
<1>5. \A u \in 1 .. Units : u <= c => <<sess[t].local.run, s, u>> \in applied
  <2>1. SUFFICES ASSUME NEW u \in 1 .. Units, u <= c
                 PROVE  <<sess[t].local.run, s, u>> \in applied
    OBVIOUS
  <2>2. CASE u = c
    BY <1>3, <2>2
  <2>3. CASE u <= sess[t].local.cursor[s]
    BY <1>1, <1>3, <2>3, LiveFacts DEF Backed
  <2> QED
    BY <1>3, <2>1, <2>2, <2>3, ConstantsAssumption
<1>6. {"handler", "loop", "pausing"} \subseteq PCs
  BY DEF PCs, Working
<1>7. /\ To(t, "handler") \in Session /\ To(t, "handler").pc = "handler"
      /\ To(t, "handler").at = s /\ To(t, "handler").outcome # "completed"
      /\ errs \in SUBSET Session
      /\ \A e \in errs : e.pc \in Resting /\ e.outcome # "completed"
  BY <1>1, <1>3, <1>6, Successors DEF Resting
<1> HIDE DEF s, c, errs
<1> QED
  BY <1>1, <1>2, <1>3, <1>4, <1>5, <1>7, CheckpointSave DEF s

LEMMA CompleteStrategyStep ==
  ASSUME IInv, NEW t \in Tokens, CompleteStrategy(t)
  PROVE  IInv' /\ WorkKept
<1> DEFINE s == sess[t].at
           r == sess[t].local
           st == Completed(r, s)
           errs == {FailAt(t, s, "loop"), To(t, "pausing")}
<1>1. sess[t].pc = "finish" /\ sess[t].pc \in Live \ {"readback"}
  BY DEF CompleteStrategy, Live, Working
<1>2. /\ Save(t, st, To(t, "loop"), errs, "lease_lost")
      /\ UNCHANGED <<leaseOwner, leaseLive, applied, tierRuns>>
  BY DEF CompleteStrategy
<1>3. s \in Strategies /\ r.cursor[s] = Units
  BY <1>1, SessionFacts DEF Good, AtStrategy
<1>4. /\ r \in RunRecord /\ r.owner = t /\ r.run \in Tokens
      /\ Backed(r, applied) /\ r.status # "completed" /\ Behind(r, r)
  BY <1>1, LiveFacts
<1>5. /\ st \in RunRecord /\ st.owner = r.owner /\ st.run = r.run
      /\ st.status = r.status /\ st.cursor = r.cursor
      /\ st.done = r.done \cup {s}
  BY <1>3, <1>4 DEF Completed, RunRecord, Phases
<1>6. Backed(st, applied) /\ Behind(r, st)
  BY <1>3, <1>4, <1>5 DEF Backed, Behind
<1>7. {"loop", "pausing"} \subseteq PCs
  BY DEF PCs, Working
<1>8. /\ To(t, "loop") \in Session /\ To(t, "loop").pc \in Resting
      /\ To(t, "loop").outcome # "completed"
      /\ errs \in SUBSET Session
      /\ \A e \in errs : e.pc \in Resting /\ e.outcome # "completed"
  BY <1>1, <1>3, <1>7, Successors DEF Resting
<1> HIDE DEF st, errs
<1>9. Fit(t, To(t, "loop"), st, finished \cup {st.run})
  BY <1>4, <1>5, <1>6, <1>8, RestFit
<1>10. \A e \in errs : Fit(t, e, st, finished)
  BY <1>4, <1>5, <1>6, <1>8, RestFit
<1> QED
  BY <1>1, <1>2, <1>4, <1>5, <1>6, <1>8, <1>9, <1>10, SaveStep

-----------------------------------------------------------------------------
(* The steps that do not save. *)

LEMMA ApplyUnitStep ==
  ASSUME IInv, NEW t \in Tokens, ApplyUnit(t)
  PROVE  IInv' /\ WorkKept
<1> DEFINE n == [To(t, "checkpoint") EXCEPT !.late = Late(t)]
<1>1. sess[t].pc = "unit" /\ sess[t].pc \in Live /\ sess[t].pc # "readback"
  BY DEF ApplyUnit, Live, Working
<1>2. /\ Become(t, n) /\ applied' = applied \cup {WorkUnit(t)}
      /\ UNCHANGED <<leaseOwner, leaseLive, rec, tierRuns, finished, faults>>
  BY DEF ApplyUnit
<1>3. /\ sess[t] \in Session /\ AtStrategy(sess[t])
      /\ sess[t].local.cursor[sess[t].at] < Units
  BY <1>1, SessionFacts DEF Good
<1>4. Late(t) \in Nat
  BY <1>3 DEF Late, Session
<1>5. /\ n \in Session /\ n.pc = "checkpoint" /\ n.at = sess[t].at
      /\ n.local = sess[t].local /\ n.outcome # "completed"
  <2>1. /\ To(t, "checkpoint") \in Session /\ To(t, "checkpoint").pc = "checkpoint"
        /\ To(t, "checkpoint").at = sess[t].at
        /\ To(t, "checkpoint").local = sess[t].local
        /\ To(t, "checkpoint").outcome # "completed"
    BY <1>1, Successors DEF PCs, Working
  <2> QED
    BY <1>4, <2>1 DEF Session
<1>6. WorkUnit(t) \in Tokens \X Strategies \X (1 .. Units)
  BY <1>1, <1>3, LiveFacts, ConstantsAssumption DEF WorkUnit, AtStrategy
<1>7. Good(t, n, applied', finished)
  <2>1. Backed(sess[t].local, applied')
    BY <1>1, <1>2, LiveFacts DEF Backed
  <2> QED
    BY <1>1, <1>2, <1>3, <1>5, <2>1, LiveFacts DEF Good, AtStrategy, WorkUnit
<1>8. OtherTypes /\ n.pc \in Live /\ n.pc \notin PreClaim
  BY <1>5 DEF IInv, Live, Working, PreClaim
<1> HIDE DEF n
<1> QED
  BY <1>1, <1>2, <1>5, <1>6, <1>7, <1>8, LocalStep DEF OtherTypes

LEMMA UnitFailsStep ==
  ASSUME IInv, NEW t \in Tokens, UnitFails(t)
  PROVE  IInv' /\ WorkKept
<1>1. sess[t].pc = "unit" /\ sess[t].pc \in Live /\ sess[t].pc # "readback"
  BY DEF UnitFails, Live, Working
<1>2. /\ sess[t] \in Session /\ AtStrategy(sess[t])
      /\ sess[t].local.cursor[sess[t].at] < Units
  BY <1>1, SessionFacts DEF Good
<1>3. PICK next \in {"loop", "failing"} :
          \/ /\ Become(t, FailAt(t, sess[t].at, next))
             /\ UNCHANGED applied
          \/ /\ Become(t, [FailAt(t, sess[t].at, next) EXCEPT !.late = Late(t)])
             /\ applied' = applied \cup {WorkUnit(t)}
  BY DEF UnitFails
<1> DEFINE f == FailAt(t, sess[t].at, next)
<1>4. /\ f \in Session /\ f.pc = next /\ f.local = sess[t].local
      /\ f.outcome # "completed"
  BY <1>1, <1>2, Successors DEF AtStrategy, PCs, Working
<1>5. Late(t) \in Nat
  BY <1>2 DEF Late, Session
<1>6. PICK n \in {f, [f EXCEPT !.late = Late(t)]} : Become(t, n)
  BY <1>3
<1>7. /\ n \in Session /\ n.pc = next /\ n.local = sess[t].local
      /\ n.outcome # "completed"
  BY <1>4, <1>5, <1>6 DEF Session
<1>8. WorkUnit(t) \in Tokens \X Strategies \X (1 .. Units)
  BY <1>1, <1>2, LiveFacts, ConstantsAssumption DEF WorkUnit, AtStrategy
<1>9. /\ applied \subseteq applied'
      /\ applied' \subseteq applied \cup {WorkUnit(t)}
  BY <1>3
<1>10. Good(t, n, applied', finished)
  <2>1. Backed(sess[t].local, applied')
    BY <1>1, <1>9, LiveFacts DEF Backed
  <2> QED
    BY <1>1, <1>7, <2>1, LiveFacts, RestGood DEF Resting
<1>11. OtherTypes /\ n.pc \in Live /\ n.pc \notin PreClaim
  BY <1>7 DEF IInv, Live, Working, PreClaim
<1>12. UNCHANGED <<leaseOwner, leaseLive, rec, tierRuns, finished>> /\ faults' \in Nat
  BY <1>11 DEF UnitFails, Fault, OtherTypes
<1> HIDE DEF f
<1> QED
  BY <1>1, <1>6, <1>7, <1>8, <1>9, <1>10, <1>11, <1>12, LocalStep DEF OtherTypes

LEMMA CheckBudgetStep ==
  ASSUME IInv, NEW t \in Tokens, CheckBudget(t)
  PROVE  IInv' /\ WorkKept
<1>1. sess[t].pc = "handler" /\ sess[t].pc \in Live /\ sess[t].pc # "readback"
  BY DEF CheckBudget, Live, Working
<1>2. OtherTypes /\ sess[t] \in Session /\ AtStrategy(sess[t])
  BY <1>1, SessionFacts DEF Good, IInv
<1>3. UNCHANGED <<leaseOwner, leaseLive, rec, applied, tierRuns, finished>>
  BY DEF CheckBudget
<1>4. CASE Become(t, LostEnd(t, "lease_lost")) /\ UNCHANGED faults
  <2>1. /\ LostEnd(t, "lease_lost") \in Session
        /\ LostEnd(t, "lease_lost").pc = "closing"
        /\ LostEnd(t, "lease_lost").outcome # "completed"
    <3>1. "lease_lost" \in Outcomes
      BY DEF Outcomes
    <3>2. LostEnd(t, "lease_lost") \in Session
      BY <3>1, SessionFacts
    <3> QED
      BY <1>2, <3>2 DEF LostEnd, End, Session
  <2> QED
    BY <1>2, <1>3, <1>4, <2>1, ControlStep DEF OtherTypes
<1>5. CASE Become(t, To(t, Handler(t))) /\ UNCHANGED faults
  <2> DEFINE n == To(t, Handler(t))
  <2>1. /\ Handler(t) \in {"unit", "finish"}
        /\ Handler(t) = "unit" => sess[t].local.cursor[sess[t].at] < Units
        /\ Handler(t) = "finish" => sess[t].local.cursor[sess[t].at] = Units
    BY <1>2, ConstantsAssumption DEF Handler, AtStrategy
  <2>2. /\ n \in Session /\ n.pc = Handler(t) /\ n.at = sess[t].at
        /\ n.local = sess[t].local /\ n.outcome # "completed"
    BY <1>1, <2>1, Successors DEF PCs, Working
  <2>3. Good(t, n, applied', finished)
    BY <1>1, <1>2, <1>3, <2>1, <2>2, LiveFacts DEF Good, AtStrategy
  <2>4. n.pc \in Live /\ n.pc \notin PreClaim
    BY <2>1, <2>2 DEF Live, Working, PreClaim
  <2> HIDE DEF n
  <2>5. Become(t, n)
    BY <1>5 DEF n
  <2> QED
    BY <1>1, <1>2, <1>3, <1>5, <2>2, <2>3, <2>4, <2>5, LocalStep DEF OtherTypes
<1>6. CASE Become(t, To(t, "pausing")) /\ Fault
  <2>1. /\ To(t, "pausing") \in Session /\ To(t, "pausing").pc = "pausing"
        /\ To(t, "pausing").local = sess[t].local
        /\ To(t, "pausing").outcome # "completed"
    BY <1>1, Successors DEF PCs, Working
  <2> QED
    BY <1>1, <1>2, <1>3, <1>6, <2>1, ControlStep DEF OtherTypes, Resting
<1> QED
  BY <1>4, <1>5, <1>6 DEF CheckBudget

LEMMA RunAutoTierStep ==
  ASSUME IInv, NEW t \in Tokens, RunAutoTier(t)
  PROVE  IInv' /\ WorkKept
<1>1. sess[t].pc = "tier_run" /\ sess[t].pc \in Live /\ sess[t].pc # "readback"
  BY DEF RunAutoTier, Live, Working
<1>2. PICK n \in {To(t, "tier_done"), FailAt(t, 0, "failing"), To(t, "pausing")} :
         Become(t, n)
  BY DEF RunAutoTier
<1>3. {"tier_done", "failing", "pausing"} \subseteq PCs
  BY DEF PCs, Working
<1>4. /\ n \in Session /\ n.pc \in {"tier_done", "failing", "pausing"}
      /\ n.local = sess[t].local /\ n.outcome # "completed"
  BY <1>1, <1>2, <1>3, Successors
<1>5. n.pc \in Resting /\ n.pc \in Live /\ n.pc \notin PreClaim
  BY <1>4 DEF Resting, Live, Working, PreClaim
<1>6. OtherTypes /\ Good(t, n, applied, finished)
  BY <1>1, <1>4, <1>5, LiveFacts, RestGood DEF IInv
<1>7. /\ UNCHANGED <<leaseOwner, leaseLive, rec, applied, finished>>
      /\ tierRuns' \in [Tokens -> Nat] /\ faults' \in Nat
  BY <1>1, <1>6, LiveFacts DEF RunAutoTier, Fault, OtherTypes
<1> QED
  BY <1>1, <1>2, <1>4, <1>5, <1>6, <1>7, LocalStep DEF OtherTypes

LEMMA ReadBackStep ==
  ASSUME IInv, NEW t \in Tokens, ReadBack(t)
  PROVE  IInv' /\ WorkKept
<1>1. sess[t].pc = "readback" /\ sess[t].pc \in Live
  BY DEF ReadBack, Live, Working
<1>2. OtherTypes /\ RowOK(rec, applied, finished)
  BY DEF IInv
<1>3. {"completed", "completion_unconfirmed"} \subseteq Outcomes
  BY DEF Outcomes
<1>4. PICK o \in {"completed", "completion_unconfirmed"} :
         Become(t, End(t, o)) /\ (o = "completed" => Confirms(t))
  BY DEF ReadBack
<1>5. /\ End(t, o) \in Session /\ End(t, o).pc = "closing"
      /\ End(t, o).local = sess[t].local /\ End(t, o).outcome = o
  BY <1>1, <1>3, Successors
<1>6. o = "completed" => sess[t].local.run \in finished
  BY <1>2, <1>4 DEF Confirms, RowOK
<1> QED
  BY <1>2, <1>4, <1>5, <1>6, ControlStep DEF ReadBack, OtherTypes

LEMMA LoopEndsStep ==
  ASSUME IInv, NEW t \in Tokens, LoopEnds(t)
  PROVE  IInv' /\ WorkKept
<1>1. sess[t].pc = "loop" /\ sess[t].pc \in Live
  BY DEF LoopEnds, Live, Working
<1>2. PICK n \in {To(t, "failing"), To(t, "completing"), FailAt(t, 0, "failing"),
                  To(t, "tier_start")} : Become(t, n)
  BY DEF LoopEnds
<1>3. {"failing", "completing", "tier_start"} \subseteq PCs
  BY DEF PCs, Working
<1>4. /\ n \in Session /\ n.pc \in {"failing", "completing", "tier_start"}
      /\ n.local = sess[t].local /\ n.outcome # "completed"
  BY <1>1, <1>2, <1>3, Successors
<1> QED
  BY <1>1, <1>2, <1>4, ControlStep DEF LoopEnds, Resting, IInv, OtherTypes

LEMMA TotalTimeoutStep ==
  ASSUME IInv, NEW t \in Tokens, TotalTimeout(t)
  PROVE  IInv' /\ WorkKept
<1>1. sess[t].pc \in Live
  BY DEF TotalTimeout, Live, Working
<1>2. /\ End(t, "paused") \in Session /\ End(t, "paused").pc = "closing"
      /\ End(t, "paused").outcome # "completed"
  BY <1>1, Successors DEF Outcomes
<1> QED
  BY <1>2, ControlStep DEF TotalTimeout, IInv, OtherTypes

LEMMA InterruptStep ==
  ASSUME IInv, NEW t \in Tokens, Interrupt(t)
  PROVE  IInv' /\ WorkKept
<1>1. sess[t] \in Session
  BY SessionFacts
<1>2. PICK n \in {End(t, "blocked"), End(t, "completion_unconfirmed"), To(t, "pausing")} :
         /\ Become(t, n)
         /\ n = To(t, "pausing") => sess[t].pc \in {"handler", "unit", "tier_run"}
  BY <1>1 DEF Interrupt, End, To, Session
<1>3. CASE n # To(t, "pausing")
  <2>1. n \in Session /\ n.pc = "closing" /\ n.outcome # "completed"
    <3>1. PICK o \in {"blocked", "completion_unconfirmed"} : n = End(t, o)
      BY <1>2, <1>3
    <3>2. n \in Session
      BY <3>1, SessionFacts DEF Outcomes
    <3> QED
      BY <1>1, <3>1, <3>2 DEF End, Session
  <2> QED
    BY <1>2, <2>1, ControlStep DEF Interrupt, IInv, OtherTypes
<1>4. CASE n = To(t, "pausing")
  <2>1. sess[t].pc \in Live /\ sess[t].pc # "readback"
    BY <1>2, <1>4 DEF Live, Working
  <2>2. /\ n \in Session /\ n.pc = "pausing" /\ n.local = sess[t].local
        /\ n.outcome # "completed"
    BY <1>4, <2>1, Successors DEF PCs, Working
  <2> QED
    BY <1>2, <2>1, <2>2, ControlStep DEF Interrupt, Resting, IInv, OtherTypes
<1> QED
  BY <1>3, <1>4

LEMMA CloseCrashStep ==
  ASSUME IInv, NEW t \in Tokens, Close(t) \/ Crash(t)
  PROVE  IInv' /\ WorkKept
<1>1. sess[t] \in Session /\ sess[t].opt \in Options /\ sess[t].local \in RunRecord
      /\ Good(t, sess[t], applied, finished)
  BY SessionFacts DEF Session
<1>2. PICK o \in {"none", sess[t].outcome} : Become(t, Gone(t, o))
  BY DEF Close, Crash
<1> DEFINE n == Gone(t, o)
<1>3. /\ n \in Session /\ n.pc = "closed" /\ n.outcome = o
      /\ n.local.run = sess[t].local.run
  <2>1. Fresh(sess[t].opt) \in Session
    BY <1>1, BlankType
  <2>2. o \in Outcomes /\ sess[t].local.run \in Tokens \cup {NoToken}
    BY <1>1, <1>2 DEF Outcomes, Session, RunRecord
  <2> QED
    BY <2>1, <2>2 DEF Gone, Session, RunRecord, PCs
<1>4. n.outcome = "completed" => n.local.run \in finished
  BY <1>1, <1>3 DEF Good
<1>5. /\ leaseOwner' \in Tokens \cup {NoToken} /\ leaseLive' \in BOOLEAN
      /\ UNCHANGED faults \/ Fault
      /\ UNCHANGED <<rec, applied, tierRuns, finished>>
  BY DEF Close, Crash, IInv, OtherTypes
<1> HIDE DEF n
<1> QED
  BY <1>2, <1>3, <1>4, <1>5, ControlStep DEF n

\* The heartbeat touches nothing but the flag.
LEMMA HeartbeatStep ==
  ASSUME IInv, NEW t \in Tokens, Heartbeat(t)
  PROVE  IInv' /\ WorkKept
<1> DEFINE n == [sess[t] EXCEPT !.lost = TRUE]
<1>1. sess[t].pc \in Live /\ sess[t] \in Session
  BY SessionFacts DEF Heartbeat, Live
<1>2. /\ n \in Session /\ n.pc = sess[t].pc /\ n.local = sess[t].local
      /\ n.at = sess[t].at /\ n.outcome = sess[t].outcome
  BY <1>1 DEF Session
<1>3. Good(t, n, applied, finished)
  BY <1>2, SessionFacts DEF Good, AtStrategy
<1>4. n.pc \notin PreClaim
  BY <1>1, <1>2 DEF Live, Working, PreClaim
<1>5. /\ Become(t, n) /\ faults' \in Nat
      /\ UNCHANGED <<leaseOwner, leaseLive, rec, applied, tierRuns, finished>>
  BY DEF Heartbeat, IInv, OtherTypes, Fault
<1> HIDE DEF n
<1> QED
  BY <1>1, <1>2, <1>3, <1>4, <1>5, LocalStep DEF IInv, OtherTypes

LEMMA EnvironmentStep ==
  ASSUME IInv, LeaseExpires \/ UNCHANGED vars
  PROVE  IInv' /\ WorkKept
<1>1. /\ rec' = rec /\ sess' = sess /\ applied' = applied /\ finished' = finished
      /\ leaseOwner' = leaseOwner /\ tierRuns' = tierRuns
  BY DEF LeaseExpires, vars
<1>2. leaseLive' \in BOOLEAN /\ faults' \in Nat
  <2>1. faults \in Nat /\ leaseLive \in BOOLEAN
    BY DEF IInv, OtherTypes
  <2>2. faults' = faults \/ faults' = faults + 1
    BY DEF LeaseExpires, Fault, vars
  <2>3. leaseLive' = FALSE \/ leaseLive' = leaseLive
    BY Zenon DEF LeaseExpires, vars
  <2>4. leaseLive' \in BOOLEAN
    BY <2>1, <2>3, Zenon
  <2> QED
    BY <2>1, <2>2, <2>4
<1>3. OtherTypes'
  BY <1>1, <1>2 DEF IInv, OtherTypes
<1>4. IInv'
  BY <1>1, <1>3 DEF IInv
<1>5. WorkKept
  BY <1>1, ConstantsAssumption
  DEF WorkKept, IInv, RowOK, RunRecord, Cursors, NoState
<1> QED
  BY <1>4, <1>5

-----------------------------------------------------------------------------
(* The theorems. *)

LEMMA StepIInv == IInv /\ [Next]_vars => IInv' /\ WorkKept
<1> SUFFICES ASSUME IInv, [Next]_vars PROVE IInv' /\ WorkKept
  OBVIOUS
<1>1. ASSUME NEW t \in Tokens, NEW o \in Options, Acquire(t, o)
      PROVE  IInv' /\ WorkKept
  BY <1>1, AcquireStep
<1>2. ASSUME NEW t \in Tokens, Step(t)
      PROVE  IInv' /\ WorkKept
  BY <1>2, ReadRecordStep, ClaimStep, ResumeSaveStep, StartStep,
     NextStrategyStep, CheckBudgetStep, ApplyUnitStep, CheckpointUnitStep,
     CompleteStrategyStep, LoopEndsStep, TierCheckpointStep, RunAutoTierStep,
     FailPauseStep, CompleteRunStep, ReadBackStep, CloseCrashStep
  DEF Step
<1>3. ASSUME NEW t \in Tokens,
             TotalTimeout(t) \/ UnitFails(t) \/ Heartbeat(t) \/ Interrupt(t) \/ Crash(t)
      PROVE  IInv' /\ WorkKept
  BY <1>3, TotalTimeoutStep, UnitFailsStep, HeartbeatStep, InterruptStep, CloseCrashStep
<1>4. CASE LeaseExpires \/ AllClosed \/ UNCHANGED vars
  BY <1>4, EnvironmentStep DEF AllClosed
<1> QED
  BY <1>1, <1>2, <1>3, <1>4 DEF Next

\* Every reachable state satisfies the inductive invariant.
LEMMA InvariantHolds == Spec => []IInv
<1>1. IInv /\ [Next]_vars => IInv'
  BY StepIInv
<1> QED
  BY InitIInv, <1>1, PTL DEF Spec

\* Type correctness of the lease, the row and the sessions.
THEOREM TypeCorrect == Spec => []TypeOK
<1>1. IInv => TypeOK
  BY DEF IInv, OtherTypes, RowOK, TypeOK
<1> QED
  BY <1>1, InvariantHolds, PTL

\* No crash, stall, takeover or lost acknowledgement makes the saves of one
\* session undo what another committed to the same run: consolidation_state's
\* owner_token predicate is enough, the lease is not needed for it.
THEOREM CommittedWorkKept == Spec => CommittedWorkIsKept
<1>1. IInv /\ [Next]_vars => [WorkKept]_vars
  BY StepIInv
<1> QED
  BY <1>1, InvariantHolds, PTL DEF Spec, CommittedWorkIsKept

\* Every unit the row says is committed was written to the brain.
THEOREM NothingSkipped == Spec => []NoUnitSkipped
<1>1. IInv => NoUnitSkipped
  BY DEF IInv, RowOK, Backed, NoUnitSkipped
<1> QED
  BY <1>1, InvariantHolds, PTL

\* A reported completion is backed by a completed row, read-back included.
THEOREM ReportedCompletion == Spec => []ReportedCompletionIsDurable
<1>1. IInv => ReportedCompletionIsDurable
  BY DEF IInv, Good, ReportedCompletionIsDurable
<1> QED
  BY <1>1, InvariantHolds, PTL

-----------------------------------------------------------------------------
(* How long a fenced-out session goes on. *)

\* What bounds the units a fenced-out session writes: it is one behind its
\* failed strategies until a unit's checkpoint finds out, and at the strategy
\* under way it has not failed yet.
Stopping(s) ==
    /\ s.failed \subseteq 0 .. s.at
    /\ s.pc \in PreClaim \cup {"closed"} => s.late = 0
    /\ s.pc \in {"handler", "unit", "checkpoint", "finish"} => s.at \notin s.failed
    /\ s.late <= 1 + Cardinality(s.failed)
    /\ s.pc \notin {"checkpoint", "pausing", "closing"} =>
          s.late <= Cardinality(s.failed)

LateInv ==
    \A t \in Tokens : /\ Stopping(sess[t])
                      /\ rec.owner = t => sess[t].late = 0

\* Only pc and the three fields differ in what Stopping reads.
Counts(n, s) == n.late = s.late /\ n.failed = s.failed /\ n.at = s.at

LEMMA FailedCount ==
  ASSUME NEW s \in Session
  PROVE  /\ Cardinality(s.failed) \in Nat
         /\ Cardinality({}) = 0
         /\ \A x : Cardinality(s.failed \cup {x}) =
                      IF x \in s.failed THEN Cardinality(s.failed)
                                        ELSE Cardinality(s.failed) + 1
<1>1. s.failed \subseteq 0 .. NStrategies
  BY ConstantsAssumption DEF Session, Strategies
<1>2. IsFiniteSet(0 .. NStrategies)
  BY FS_Interval, ConstantsAssumption
<1>3. IsFiniteSet(s.failed)
  BY <1>1, <1>2, FS_Subset
<1> QED
  BY <1>3, FS_CardinalityType, FS_AddElement, FS_EmptySet

\* The fields of the sessions the steps go on as, apart from local.
LEMMA Moved ==
  ASSUME IInv, NEW t \in Tokens
  PROVE  /\ \A pc \in PCs : /\ To(t, pc).pc = pc
                            /\ Counts(To(t, pc), sess[t])
                            /\ To(t, pc).opt = sess[t].opt
                            /\ To(t, pc).local = sess[t].local
                            /\ To(t, pc).finOnly = sess[t].finOnly
         /\ \A o \in Outcomes : /\ End(t, o).pc = "closing"
                                /\ Counts(End(t, o), sess[t])
                                /\ LostEnd(t, o).pc = "closing"
                                /\ Counts(LostEnd(t, o), sess[t])
         /\ \A pc \in PCs, x \in Strategies \cup {0} :
               /\ FailAt(t, x, pc).pc = pc
               /\ FailAt(t, x, pc).late = sess[t].late
               /\ FailAt(t, x, pc).at = sess[t].at
               /\ FailAt(t, x, pc).failed = sess[t].failed \cup {x}
               /\ FailAt(t, x, pc).opt = sess[t].opt
               /\ FailAt(t, x, pc).local = sess[t].local
<1>1. sess[t] \in Session
  BY SessionFacts
<1>2. \A pc \in PCs : /\ To(t, pc).pc = pc
                      /\ Counts(To(t, pc), sess[t])
                      /\ To(t, pc).opt = sess[t].opt
                      /\ To(t, pc).local = sess[t].local
                      /\ To(t, pc).finOnly = sess[t].finOnly
  BY <1>1 DEF To, Session, Counts
<1>3. \A o \in Outcomes : /\ End(t, o).pc = "closing"
                          /\ Counts(End(t, o), sess[t])
                          /\ LostEnd(t, o).pc = "closing"
                          /\ Counts(LostEnd(t, o), sess[t])
  BY <1>1 DEF End, LostEnd, Session, Counts
<1>4. \A pc \in PCs, x \in Strategies \cup {0} :
               /\ FailAt(t, x, pc).pc = pc
               /\ FailAt(t, x, pc).late = sess[t].late
               /\ FailAt(t, x, pc).at = sess[t].at
               /\ FailAt(t, x, pc).failed = sess[t].failed \cup {x}
               /\ FailAt(t, x, pc).opt = sess[t].opt
               /\ FailAt(t, x, pc).local = sess[t].local
  BY <1>1 DEF FailAt, Session
<1> QED
  BY <1>2, <1>3, <1>4

LEMMA LateMoves ==
  ASSUME IInv, LateInv, NEW t \in Tokens, NEW n, Become(t, n),
         Stopping(n), rec'.owner \in {rec.owner, t},
         rec'.owner = t => n.late = 0
  PROVE  LateInv'
<1>1. sess \in [Tokens -> Session] /\ sess' = [sess EXCEPT ![t] = n]
  BY DEF IInv, OtherTypes, Become
<1> QED
  BY <1>1 DEF LateInv

\* A session that keeps its counters, or books the strategy under way as
\* failed, at a program point that promises no more than the one it leaves.
LEMMA StillStopping ==
  ASSUME NEW s \in Session, Stopping(s), NEW n,
         n.late = s.late, n.at = s.at,
         \/ /\ n.failed = s.failed
            /\ \/ n.pc \in {"pausing", "closing"}
               \/ /\ n.pc \in {"unit", "finish", "handler", "checkpoint"}
                  /\ s.pc \in {"handler", "unit"}
               \/ /\ n.pc \in (Opening \cup Working)
                        \ {"unit", "finish", "handler", "checkpoint"}
                  /\ n.pc \in PreClaim => s.pc \in PreClaim
                  /\ s.late = 0 \/ s.pc \notin {"checkpoint", "pausing", "closing"}
         \/ /\ n.failed = s.failed \cup {s.at}
            /\ s.pc \in {"handler", "unit", "checkpoint", "finish"}
            /\ n.pc \in {"loop", "failing"}
         \/ /\ n.failed = s.failed \cup {0} /\ n.pc = "failing"
            /\ s.pc \notin {"checkpoint", "pausing", "closing"}
  PROVE  Stopping(n)
<1>1. s.late \in Nat /\ s.at \in 0 .. NStrategies
  BY DEF Session
<1>2. /\ Cardinality(s.failed) \in Nat
      /\ \A x : Cardinality(s.failed \cup {x}) =
                   IF x \in s.failed THEN Cardinality(s.failed)
                                     ELSE Cardinality(s.failed) + 1
  BY FailedCount
<1>3. CASE n.failed = s.failed
  BY <1>1, <1>2, <1>3 DEF Stopping, PreClaim, Opening, Working
<1>4. CASE /\ n.failed = s.failed \cup {s.at}
           /\ s.pc \in {"handler", "unit", "checkpoint", "finish"}
           /\ n.pc \in {"loop", "failing"}
  <2>1. Cardinality(n.failed) = Cardinality(s.failed) + 1
    BY <1>2, <1>4 DEF Stopping
  <2> QED
    BY <1>1, <1>2, <1>4, <2>1 DEF Stopping, PreClaim
<1>5. CASE /\ n.failed = s.failed \cup {0} /\ n.pc = "failing"
           /\ s.pc \notin {"checkpoint", "pausing", "closing"}
  <2>1. Cardinality(n.failed) >= Cardinality(s.failed) /\ Cardinality(n.failed) \in Nat
    BY <1>2, <1>5
  <2> QED
    BY <1>1, <1>2, <1>5, <2>1, ConstantsAssumption DEF Stopping, PreClaim
<1> QED
  BY <1>3, <1>4, <1>5

LEMMA LateSave ==
  ASSUME IInv, LateInv, NEW t \in Tokens, sess[t].pc \in Live,
         NEW st \in RunRecord, st.owner = t,
         NEW ok \in Session, ok.late = sess[t].late,
         sess[t].late = 0 => Stopping(ok),
         NEW errs \in SUBSET Session,
         \A e \in errs : Stopping(e) /\ e.late = sess[t].late,
         NEW fencedAs \in {"blocked", "lease_lost"},
         Save(t, st, ok, errs, fencedAs)
  PROVE  LateInv'
<1>1. /\ sess[t] \in Session /\ Stopping(sess[t])
      /\ rec.owner = t => sess[t].late = 0
  BY SessionFacts DEF LateInv
<1>2. \A e \in Session : /\ Holding(e, st).late = e.late
                         /\ Stopping(e) => Stopping(Holding(e, st))
  BY DEF Holding, Session, Stopping
<1>3. /\ LostEnd(t, fencedAs) \in Session
      /\ LostEnd(t, fencedAs).late = sess[t].late
      /\ Stopping(LostEnd(t, fencedAs))
  <2>1. fencedAs \in Outcomes
    BY DEF Outcomes
  <2>2. /\ LostEnd(t, fencedAs) \in Session
        /\ LostEnd(t, fencedAs).pc = "closing"
        /\ Counts(LostEnd(t, fencedAs), sess[t])
    BY <2>1, SessionFacts, Moved
  <2> HIDE DEF Stopping
  <2> QED
    BY <1>1, <2>2, StillStopping DEF Counts
<1>4. PICK e \in {ok, LostEnd(t, fencedAs)} \cup errs :
         /\ Become(t, Holding(e, st))
         /\ rec' = rec \/ (rec' = st /\ OwnsRow(t))
         /\ e = ok => OwnsRow(t) \/ Stopping(ok)
  BY <1>3 DEF Save
<1>5. /\ e \in Session /\ e.late = sess[t].late /\ Stopping(e)
  BY <1>1, <1>3, <1>4 DEF OwnsRow
<1>6. rec'.owner \in {rec.owner, t} /\ (rec'.owner = t => rec.owner = t)
  BY <1>4 DEF OwnsRow
<1> QED
  BY <1>1, <1>2, <1>4, <1>5, <1>6, LateMoves

\* The steps that save, one group per program point they start from.
LEMMA LateSaves ==
  ASSUME IInv, LateInv, NEW t \in Tokens,
         \/ ResumeSave(t) \/ CheckpointUnit(t) \/ CompleteStrategy(t)
         \/ TierStarted(t) \/ TierCompleted(t) \/ FailRun(t) \/ PauseRun(t)
         \/ CompleteRun(t)
  PROVE  LateInv'
<1> DEFINE s == sess[t]
<1>1. s \in Session /\ Stopping(s)
  BY SessionFacts DEF LateInv
<1>2. s.pc \in Live /\ s.local \in RunRecord /\ s.local.owner = t
  <2>1. s.pc \in Live
    BY DEF ResumeSave, CheckpointUnit, CompleteStrategy, TierStarted,
           TierCompleted, FailRun, PauseRun, CompleteRun, Live, Working
  <2> QED
    BY <2>1, LiveFacts
<1>3. /\ \A pc \in Opening \cup Working \cup {"closing"} : pc \in PCs
      /\ {"blocked", "failed", "paused", "completed", "completion_unconfirmed"}
            \subseteq Outcomes
      /\ {"loop", "handler", "pausing", "failing", "tier_run", "completing",
          "readback"} \subseteq PCs
  BY DEF PCs, Opening, Working, Outcomes
<1>4. ASSUME NEW pc \in {"loop", "handler", "tier_run", "completing", "pausing",
                         "readback"},
             s.late = 0 \/ pc = "pausing" \/ s.pc \notin {"checkpoint", "pausing", "closing"},
             pc = "handler" => s.pc = "checkpoint" /\ s.late = 0
      PROVE  /\ Stopping(To(t, pc)) /\ To(t, pc).late = s.late
             /\ To(t, pc) \in Session
  <2>1. /\ To(t, pc).pc = pc /\ Counts(To(t, pc), s) /\ To(t, pc) \in Session
    BY <1>3, Moved, SessionFacts
  <2>2. CASE pc # "handler"
    <3>1. pc = "pausing" \/ pc \in (Opening \cup Working)
                        \ {"unit", "finish", "handler", "checkpoint"}
      BY <2>2 DEF Working
    <3>2. pc \notin PreClaim
      BY DEF PreClaim
    <3> QED
      BY <1>1, <1>4, <2>1, <3>1, <3>2, StillStopping DEF Counts
  <2>3. CASE pc = "handler"
    <3>1. Cardinality(s.failed) \in Nat
      BY <1>1, FailedCount
    <3> QED
      BY <1>1, <1>4, <2>1, <2>3, <3>1 DEF Counts, Stopping, PreClaim
  <2> QED
    BY <2>2, <2>3
<1>5. ASSUME NEW o \in Outcomes
      PROVE  /\ Stopping(End(t, o)) /\ End(t, o).late = s.late
             /\ End(t, o) \in Session
  <2>1. /\ End(t, o).pc = "closing" /\ Counts(End(t, o), s)
        /\ End(t, o) \in Session
    BY Moved, SessionFacts
  <2> QED
    BY <1>1, <2>1, StillStopping DEF Counts
<1>6. ASSUME NEW x \in Strategies \cup {0}, NEW pc \in {"loop", "failing"},
             \/ x = s.at /\ s.pc \in {"checkpoint", "finish"}
             \/ x = 0 /\ pc = "failing" /\ s.pc \notin {"checkpoint", "pausing", "closing"}
      PROVE  /\ Stopping(FailAt(t, x, pc)) /\ FailAt(t, x, pc).late = s.late
             /\ FailAt(t, x, pc) \in Session
  <2>1. /\ FailAt(t, x, pc).pc = pc /\ FailAt(t, x, pc).late = s.late
        /\ FailAt(t, x, pc).at = s.at
        /\ FailAt(t, x, pc).failed = s.failed \cup {x}
        /\ FailAt(t, x, pc) \in Session
    BY <1>3, Moved, SessionFacts
  <2> HIDE DEF Stopping
  <2>2. CASE x = s.at /\ s.pc \in {"checkpoint", "finish"}
    BY <1>1, <2>1, <2>2, StillStopping
  <2>3. CASE x = 0 /\ pc = "failing" /\ s.pc \notin {"checkpoint", "pausing", "closing"}
    BY <1>1, <2>1, <2>3, StillStopping
  <2> QED
    BY <1>6, <2>2, <2>3
<1>7. s.at \in Strategies \/ s.pc \notin {"checkpoint", "finish"}
  BY SessionFacts DEF Good, AtStrategy
<1>8. \A x \in Statuses : /\ SetStatus(s.local, x) \in RunRecord
                          /\ SetStatus(s.local, x).owner = t
  BY <1>2, StatusOnly DEF SameRun
<1>9. \A y \in Phases, r \in RunRecord :
         r.owner = t => SetPhase(r, y) \in RunRecord /\ SetPhase(r, y).owner = t
  BY PhaseOnly DEF SameRun
<1>10. /\ {"running", "failed", "paused", "completed"} \subseteq Statuses
       /\ {"auto_tier_started", "auto_tier_completed", "completed"} \subseteq Phases
  BY DEF Statuses, Incomplete, Phases
<1>11. CASE ResumeSave(t)
  <2> DEFINE st == SetStatus(s.local, "running")
             ok == [To(t, "loop") EXCEPT !.finOnly = Requested[s.opt] \subseteq st.done]
  <2>1. s.pc = "resume" /\ Save(t, st, ok, {End(t, "blocked")}, "blocked")
    BY <1>11 DEF ResumeSave
  <2>2. To(t, "loop") \in Session /\ Stopping(To(t, "loop")) /\ To(t, "loop").late = s.late
    BY <1>4, <2>1
  <2>3. ok \in Session /\ Stopping(ok) /\ ok.late = s.late
    BY <2>2 DEF Session, Stopping
  <2>4. st \in RunRecord /\ st.owner = t
    BY <1>8, <1>10
  <2> HIDE DEF st, ok
  <2> QED
    BY <1>2, <1>3, <1>5, <2>1, <2>3, <2>4, LateSave
<1>12. CASE CheckpointUnit(t)
  <2> DEFINE c == s.local.cursor[s.at] + 1
             st == Advance(s.local, s.at, c)
             errs == {FailAt(t, s.at, "loop"), To(t, "pausing")}
  <2>1. s.pc = "checkpoint" /\ Save(t, st, To(t, "handler"), errs, "lease_lost")
    BY <1>12 DEF CheckpointUnit
  <2>2. st \in RunRecord /\ st.owner = t
    <3>1. s.at \in Strategies /\ s.local.cursor[s.at] \in 0 .. Units
          /\ s.local.cursor[s.at] < Units
      BY <2>1, SessionFacts DEF Good, AtStrategy
    <3>2. c \in Cursors /\ s.local.cursor[s.at] <= c
      BY <3>1, ConstantsAssumption DEF Cursors, NoState
    <3> HIDE DEF c
    <3> QED
      BY <1>2, <3>1, <3>2, AdvancedCopy
  <2>3. errs \in SUBSET Session /\ \A e \in errs : Stopping(e) /\ e.late = s.late
    BY <1>4, <1>6, <1>7, <2>1
  <2>4. /\ To(t, "handler") \in Session /\ To(t, "handler").late = s.late
        /\ s.late = 0 => Stopping(To(t, "handler"))
    BY <1>3, <1>4, <2>1, SessionFacts, Moved DEF Counts
  <2> HIDE DEF st, errs
  <2> QED
    BY <1>2, <2>1, <2>2, <2>3, <2>4, LateSave
<1>13. CASE CompleteStrategy(t)
  <2> DEFINE st == Completed(s.local, s.at)
             errs == {FailAt(t, s.at, "loop"), To(t, "pausing")}
  <2>1. s.pc = "finish" /\ Save(t, st, To(t, "loop"), errs, "lease_lost")
    BY <1>13 DEF CompleteStrategy
  <2>2. st \in RunRecord /\ st.owner = t
    BY <1>2, <1>7, <2>1 DEF Completed, RunRecord, Phases
  <2>3. errs \in SUBSET Session /\ \A e \in errs : Stopping(e) /\ e.late = s.late
    BY <1>4, <1>6, <1>7, <2>1
  <2>4. /\ To(t, "loop") \in Session /\ To(t, "loop").late = s.late
        /\ Stopping(To(t, "loop"))
    BY <1>4, <2>1
  <2> HIDE DEF st, errs
  <2> QED
    BY <1>2, <2>1, <2>2, <2>3, <2>4, LateSave
<1>14. CASE TierStarted(t) \/ TierCompleted(t)
  <2> DEFINE errs == {FailAt(t, 0, "failing"), To(t, "pausing")}
  <2>1. PICK ph \in {"auto_tier_started", "auto_tier_completed"},
             pc \in {"tier_run", "completing"} :
           Save(t, SetPhase(s.local, ph), To(t, pc), errs, "lease_lost")
    BY <1>14 DEF TierStarted, TierCompleted
  <2>2. s.pc \in {"tier_start", "tier_done"}
    BY <1>14 DEF TierStarted, TierCompleted
  <2>3. errs \in SUBSET Session /\ \A e \in errs : Stopping(e) /\ e.late = s.late
    BY <1>4, <1>6, <2>2
  <2>4. /\ To(t, pc) \in Session /\ To(t, pc).late = s.late
        /\ Stopping(To(t, pc))
    BY <1>4, <2>2
  <2> HIDE DEF errs
  <2> QED
    BY <1>2, <1>9, <1>10, <2>1, <2>3, <2>4, LateSave
<1>15. CASE FailRun(t)
  <2> DEFINE errs == {End(t, "failed"), To(t, "pausing")}
  <2>1. s.pc = "failing"
        /\ Save(t, SetStatus(s.local, "failed"), End(t, "failed"), errs, "lease_lost")
    BY <1>15 DEF FailRun
  <2>2. errs \in SUBSET Session /\ \A e \in errs : Stopping(e) /\ e.late = s.late
    BY <1>3, <1>4, <1>5, <2>1
  <2> HIDE DEF errs
  <2> QED
    BY <1>2, <1>3, <1>5, <1>8, <1>10, <2>1, <2>2, LateSave
<1>16. CASE PauseRun(t)
  <2> DEFINE errs == {End(t, "paused")}
  <2>1. Save(t, SetStatus(s.local, "paused"), End(t, "paused"), errs, "lease_lost")
    BY <1>16 DEF PauseRun
  <2>2. errs \in SUBSET Session /\ \A e \in errs : Stopping(e) /\ e.late = s.late
    BY <1>3, <1>5
  <2> HIDE DEF errs
  <2> QED
    BY <1>2, <1>3, <1>5, <1>8, <1>10, <2>1, <2>2, LateSave
<1>17. CASE CompleteRun(t)
  <2> DEFINE st == SetPhase(SetStatus(s.local, "completed"), "completed")
             errs == {To(t, "readback"), End(t, "completion_unconfirmed")}
  <2>1. s.pc = "completing" /\ Save(t, st, End(t, "completed"), errs, "lease_lost")
    BY <1>17 DEF CompleteRun
  <2>2. errs \in SUBSET Session /\ \A e \in errs : Stopping(e) /\ e.late = s.late
    BY <1>3, <1>4, <1>5, <2>1
  <2>3. st \in RunRecord /\ st.owner = t
    BY <1>8, <1>9, <1>10
  <2> HIDE DEF st, errs
  <2> QED
    BY <1>2, <1>3, <1>5, <2>1, <2>2, <2>3, LateSave
<1> QED
  BY <1>11, <1>12, <1>13, <1>14, <1>15, <1>16, <1>17

\* The other steps of a session.
LEMMA LateSteps ==
  ASSUME IInv, LateInv, NEW t \in Tokens,
         \/ \E o \in Options : Acquire(t, o)
         \/ ReadRecord(t) \/ Claim(t) \/ Start(t) \/ NextStrategy(t)
         \/ CheckBudget(t) \/ ApplyUnit(t) \/ LoopEnds(t) \/ RunAutoTier(t)
         \/ ReadBack(t) \/ Close(t) \/ TotalTimeout(t) \/ UnitFails(t)
         \/ Heartbeat(t) \/ Interrupt(t) \/ Crash(t)
  PROVE  LateInv'
<1> DEFINE s == sess[t]
<1>1. /\ s \in Session /\ Stopping(s)
      /\ rec.owner = t => s.late = 0
  BY SessionFacts DEF LateInv
<1>2. /\ \A pc \in Opening \cup Working \cup {"closing"} : pc \in PCs
      /\ {"loop", "handler", "checkpoint", "pausing", "failing"} \subseteq PCs
      /\ {"blocked", "lease_lost", "paused", "completed", "completion_unconfirmed"}
            \subseteq Outcomes
  BY DEF PCs, Opening, Working, Outcomes
<1>3. Cardinality(s.failed) \in Nat /\ Cardinality({}) = 0
  BY <1>1, FailedCount
\* A quiet step: the row stays and no unit is written.
<1>4. ASSUME NEW n, Become(t, n), Stopping(n), n.late = s.late, rec' = rec
      PROVE  LateInv'
  BY <1>1, <1>4, LateMoves
<1>5. ASSUME NEW pc \in Opening \cup Working, Become(t, To(t, pc)), rec' = rec,
             \/ pc = "pausing"
             \/ pc \in {"unit", "finish"} /\ s.pc = "handler"
             \/ /\ pc \notin {"unit", "finish", "handler", "checkpoint"}
                /\ pc \in PreClaim => s.pc \in PreClaim
                /\ s.pc \notin {"checkpoint", "pausing", "closing"}
      PROVE  LateInv'
  <2>1. /\ To(t, pc).pc = pc /\ Counts(To(t, pc), s)
    BY <1>2, Moved
  <2>2. Stopping(To(t, pc))
    BY <1>1, <1>5, <2>1, StillStopping DEF Counts
  <2> QED
    BY <1>4, <1>5, <2>1, <2>2 DEF Counts
<1>6. ASSUME NEW o \in Outcomes, rec' = rec,
             Become(t, End(t, o)) \/ Become(t, LostEnd(t, o))
      PROVE  LateInv'
  <2>1. PICK n \in {End(t, o), LostEnd(t, o)} : Become(t, n)
    BY <1>6
  <2>2. n.pc = "closing" /\ Counts(n, s)
    BY <2>1, Moved
  <2> QED
    BY <1>1, <1>4, <1>6, <2>1, <2>2, StillStopping DEF Counts
<1>7. ASSUME rec' = rec, s.pc \notin {"checkpoint", "pausing", "closing"},
             Become(t, FailAt(t, 0, "failing"))
      PROVE  LateInv'
  <2>1. /\ FailAt(t, 0, "failing").pc = "failing"
        /\ FailAt(t, 0, "failing").late = s.late
        /\ FailAt(t, 0, "failing").at = s.at
        /\ FailAt(t, 0, "failing").failed = s.failed \cup {0}
    BY <1>2, Moved
  <2> QED
    BY <1>1, <1>4, <1>7, <2>1, StillStopping
<1>8. ASSUME NEW o \in Options, Acquire(t, o) PROVE LateInv'
  <2> DEFINE n == [Fresh(o) EXCEPT !.pc = "acquired"]
  <2>1. n.late = 0 /\ n.failed = {} /\ n.pc = "acquired" /\ n.at = 0
    BY DEF Fresh
  <2>2. Stopping(n)
    BY <1>3, <2>1 DEF Stopping, PreClaim
  <2>3. Become(t, n) /\ rec' = rec
    BY <1>8 DEF Acquire
  <2> HIDE DEF n
  <2> QED
    BY <2>1, <2>2, <2>3, LateMoves
<1>9. CASE ReadRecord(t)
  BY <1>2, <1>5, <1>6, <1>9 DEF ReadRecord, Opening, PreClaim
<1>10. CASE Claim(t) \/ Start(t)
  <2>1. PICK n \in {Holding(To(t, pc), st) : pc \in {"resume", "loop"},
                                            st \in {Claimed(t), NewRun(t)}}
                  \cup {End(t, "blocked")} :
           Become(t, n) /\ rec' \in {rec, Claimed(t), NewRun(t)}
    BY <1>10 DEF Claim, Start
  <2>2. s.late = 0
    BY <1>1, <1>10 DEF Stopping, Claim, Start, PreClaim
  <2>3. n.pc \in {"resume", "loop", "closing"} /\ Counts(n, s)
    <3>1. ASSUME NEW pc \in {"resume", "loop"}, NEW st
          PROVE  /\ Holding(To(t, pc), st).pc = pc
                 /\ Counts(Holding(To(t, pc), st), s)
      <4>1. To(t, pc) \in Session /\ To(t, pc).pc = pc /\ Counts(To(t, pc), s)
        BY <1>2, Moved, SessionFacts DEF Opening, Working
      <4> QED
        BY <4>1 DEF Holding, Session, Counts
    <3>2. End(t, "blocked").pc = "closing" /\ Counts(End(t, "blocked"), s)
      BY <1>2, Moved
    <3> QED
      BY <2>1, <3>1, <3>2
  <2>4. Stopping(n)
    BY <1>1, <1>3, <2>2, <2>3, StillStopping DEF Counts, Opening, Working, PreClaim
  <2>5. rec'.owner \in {rec.owner, t}
    <3>1. Claimed(t).owner = t
      BY DEF Claimed, IInv, RowOK, RunRecord
    <3>2. NewRun(t).owner = t
      BY DEF NewRun, Blank
    <3> QED
      BY <2>1, <3>1, <3>2
  <2> QED
    BY <2>1, <2>2, <2>3, <2>4, <2>5, LateMoves DEF Counts
<1>11. CASE NextStrategy(t)
  <2>1. PICK x \in Remaining(t) :
         LET here == [To(t, "handler") EXCEPT !.at = x]
             skip == [FailAt(t, x, "loop") EXCEPT !.at = x]
         IN  IF s.local.cursor[x] = NoState
             THEN Save(t, Advance(s.local, x, 0), here,
                       {skip, To(t, "pausing")}, "lease_lost")
             ELSE Become(t, here) /\ UNCHANGED <<rec, finished, faults>>
    BY <1>11 DEF NextStrategy
  <2> DEFINE here == [To(t, "handler") EXCEPT !.at = x]
             skip == [FailAt(t, x, "loop") EXCEPT !.at = x]
  <2>2. s.pc = "loop" /\ s.pc \in Live
    BY <1>11 DEF NextStrategy, Live, Working
  <2>3. x \in Strategies /\ x > s.at /\ x \in 0 .. NStrategies /\ x \notin s.failed
    <3>1. x \in Strategies /\ x > s.at /\ x \in 0 .. NStrategies
      BY <2>2, LiveFacts, ConstantsAssumption DEF Remaining, Strategies
    <3> QED
      BY <1>1, <3>1, ConstantsAssumption DEF Stopping, Session
  <2>4. /\ here \in Session /\ here.late = s.late /\ here.failed = s.failed
        /\ here.at = x /\ here.pc = "handler"
    <3>1. To(t, "handler") \in Session /\ To(t, "handler").pc = "handler"
          /\ Counts(To(t, "handler"), s)
      BY <1>2, Moved, SessionFacts
    <3> QED
      BY <2>3, <3>1 DEF Session, Counts
  <2>5. /\ skip \in Session /\ skip.late = s.late /\ skip.failed = s.failed \cup {x}
        /\ skip.at = x /\ skip.pc = "loop"
    <3>1. /\ FailAt(t, x, "loop") \in Session /\ FailAt(t, x, "loop").pc = "loop"
          /\ FailAt(t, x, "loop").late = s.late
          /\ FailAt(t, x, "loop").failed = s.failed \cup {x}
      BY <1>2, <2>3, Moved, SessionFacts
    <3> QED
      BY <2>3, <3>1 DEF Session
  <2>6. /\ To(t, "pausing") \in Session /\ To(t, "pausing").late = s.late
        /\ Stopping(To(t, "pausing"))
    <3>1. /\ To(t, "pausing") \in Session /\ To(t, "pausing").pc = "pausing"
          /\ Counts(To(t, "pausing"), s)
      BY <1>2, Moved, SessionFacts
    <3> QED
      BY <1>1, <3>1, StillStopping DEF Counts
  <2> HIDE DEF here, skip
  <2>7. Stopping(here)
    BY <1>1, <1>3, <2>2, <2>3, <2>4, ConstantsAssumption DEF Stopping, PreClaim, Session
  <2>8. Stopping(skip)
    <3>1. Cardinality(skip.failed) = Cardinality(s.failed) + 1
      BY <1>1, <2>3, <2>5, FailedCount
    <3> QED
      BY <1>1, <1>3, <2>2, <2>3, <2>5, <3>1, ConstantsAssumption
      DEF Stopping, PreClaim, Session
  <2>9. CASE s.local.cursor[x] = NoState
    <3> DEFINE st == Advance(s.local, x, 0)
               errs == {skip, To(t, "pausing")}
    <3>1. Save(t, st, here, errs, "lease_lost")
      BY <2>1, <2>9 DEF here, skip
    <3>2. st \in RunRecord /\ st.owner = t
      <4>1. 0 \in Cursors /\ s.local.cursor[x] <= 0
        BY <2>9, ConstantsAssumption DEF Cursors, NoState
      <4>2. s.local \in RunRecord /\ s.local.owner = t
        BY <2>2, LiveFacts
      <4> QED
        BY <2>3, <4>1, <4>2, AdvancedCopy
    <3>3. errs \in SUBSET Session /\ \A e \in errs : Stopping(e) /\ e.late = s.late
      BY <2>5, <2>6, <2>8
    <3> HIDE DEF st, errs
    <3> QED
      BY <2>2, <2>4, <2>7, <3>1, <3>2, <3>3, LateSave
  <2>10. CASE s.local.cursor[x] # NoState
    <3>1. Become(t, here) /\ rec' = rec
      BY <2>1, <2>10 DEF here
    <3> QED
      BY <1>4, <2>4, <2>7, <3>1
  <2> QED
    BY <2>9, <2>10
<1>12. CASE CheckBudget(t)
  BY <1>2, <1>5, <1>6, <1>12 DEF CheckBudget, Handler, Working
<1>13. CASE ApplyUnit(t) \/ UnitFails(t)
  <2>1. s.pc = "unit" /\ rec' = rec
    BY <1>13 DEF ApplyUnit, UnitFails
  <2>2. s.at \in Strategies
    BY <2>1, SessionFacts DEF Good, AtStrategy
  <2>3. PICK f \in {To(t, "checkpoint"), FailAt(t, s.at, "loop"), FailAt(t, s.at, "failing")} :
           Become(t, f) \/ Become(t, [f EXCEPT !.late = Late(t)])
    BY <1>13 DEF ApplyUnit, UnitFails
  <2> DEFINE n == IF Become(t, f) THEN f ELSE [f EXCEPT !.late = Late(t)]
  <2>4. /\ f \in Session /\ f.late = s.late /\ f.at = s.at
        /\ f.pc \in {"checkpoint", "loop", "failing"}
        /\ f.failed = IF f.pc = "checkpoint" THEN s.failed ELSE s.failed \cup {s.at}
    <3>1. CASE f = To(t, "checkpoint")
      BY <1>2, <3>1, Moved, SessionFacts DEF Counts
    <3>2. ASSUME NEW pc \in {"loop", "failing"}, f = FailAt(t, s.at, pc)
          PROVE  /\ f \in Session /\ f.late = s.late /\ f.at = s.at
                 /\ f.pc = pc /\ f.failed = s.failed \cup {s.at}
      BY <1>2, <2>2, <3>2, Moved, SessionFacts
    <3> QED
      BY <2>3, <3>1, <3>2
  <2>5. /\ Late(t) \in Nat /\ s.late <= Late(t) /\ Late(t) <= s.late + 1
        /\ rec.owner = t => Late(t) = s.late
    BY <1>1 DEF Late, Session
  <2>6. /\ n.late \in {s.late, Late(t)} /\ n.at = s.at /\ n.failed = f.failed
        /\ n.pc = f.pc
    BY <2>3, <2>4 DEF Session
  <2>9. Become(t, n)
    BY <2>3
  <2> HIDE DEF n
  <2>7. Stopping(n)
    <3>1. Cardinality(s.failed \cup {s.at}) = Cardinality(s.failed) + 1
      BY <1>1, <2>1, FailedCount DEF Stopping
    <3>2. CASE f.pc = "checkpoint"
      BY <1>1, <1>3, <2>1, <2>4, <2>5, <2>6, <3>2 DEF Stopping, PreClaim, Session
    <3>3. CASE f.pc # "checkpoint"
      BY <1>1, <1>3, <2>1, <2>4, <2>5, <2>6, <3>1, <3>3, ConstantsAssumption
      DEF Stopping, PreClaim, Session
    <3> QED
      BY <3>2, <3>3
  <2>8. rec'.owner = t => n.late = 0
    BY <1>1, <2>1, <2>5, <2>6
  <2> QED
    BY <2>1, <2>7, <2>8, <2>9, LateMoves
<1>14. CASE LoopEnds(t)
  BY <1>2, <1>5, <1>7, <1>14 DEF LoopEnds, Working, PreClaim
<1>15. CASE RunAutoTier(t)
  BY <1>2, <1>5, <1>7, <1>15 DEF RunAutoTier, Working, PreClaim
<1>16. CASE ReadBack(t)
  BY <1>2, <1>6, <1>16 DEF ReadBack
<1>17. CASE TotalTimeout(t)
  BY <1>2, <1>6, <1>17 DEF TotalTimeout
<1>18. CASE Interrupt(t)
  BY <1>2, <1>5, <1>6, <1>18 DEF Interrupt, Working
<1>19. CASE Close(t) \/ Crash(t)
  <2>1. PICK o : Become(t, Gone(t, o)) /\ rec' = rec
    BY <1>19 DEF Close, Crash
  <2>2. /\ Gone(t, o).late = 0 /\ Gone(t, o).failed = {} /\ Gone(t, o).at = 0
        /\ Gone(t, o).pc = "closed"
    BY DEF Gone, Fresh
  <2>3. Stopping(Gone(t, o))
    BY <1>3, <2>2 DEF Stopping
  <2> QED
    BY <2>1, <2>2, <2>3, LateMoves
<1>20. CASE Heartbeat(t)
  <2> DEFINE n == [s EXCEPT !.lost = TRUE]
  <2>1. Become(t, n) /\ rec' = rec
    BY <1>20 DEF Heartbeat
  <2>2. n.pc = s.pc /\ Counts(n, s)
    BY <1>1 DEF Session, Counts
  <2>3. Stopping(n)
    BY <1>1, <2>2 DEF Stopping, Counts
  <2> HIDE DEF n
  <2> QED
    BY <1>4, <2>1, <2>2, <2>3 DEF Counts
<1> QED
  BY <1>8, <1>9, <1>10, <1>11, <1>12, <1>13, <1>14, <1>15, <1>16, <1>17, <1>18,
     <1>19, <1>20

\* A session that another one has fenced out writes at most one more unit,
\* apart from the strategies it meanwhile saw fail: the fence is found at the
\* next save, and no path of the loop reaches a second unit before a save.
THEOREM FencedStops == Spec => []FencedSessionStops
<1>1. Init => LateInv
  <2> SUFFICES ASSUME Init PROVE LateInv
    OBVIOUS
  <2>1. PICK o \in Options : rec = Blank(o) /\ sess = NoSessions(o)
    BY DEF Init
  <2>2. Cardinality({}) = 0
    BY FS_EmptySet
  <2>3. rec.owner = NoToken
    BY <2>1 DEF Blank
  <2>4. ASSUME NEW t \in Tokens
        PROVE  Stopping(sess[t]) /\ sess[t].late = 0
    <3>1. /\ sess[t].pc = "idle" /\ sess[t].late = 0 /\ sess[t].failed = {}
          /\ sess[t].at = 0
      BY <2>1 DEF NoSessions, Fresh
    <3> QED
      BY <2>2, <3>1 DEF Stopping
  <2> QED
    BY <2>4 DEF LateInv
<1>2. IInv /\ LateInv /\ [Next]_vars => LateInv'
  <2> SUFFICES ASSUME IInv, LateInv, [Next]_vars PROVE LateInv'
    OBVIOUS
  <2>1. ASSUME NEW t \in Tokens, \/ \E o \in Options : Acquire(t, o)
                                 \/ Step(t) \/ TotalTimeout(t) \/ UnitFails(t)
                                 \/ Heartbeat(t) \/ Interrupt(t) \/ Crash(t)
        PROVE  LateInv'
    BY <2>1, LateSaves, LateSteps DEF Step
  <2>2. CASE LeaseExpires \/ AllClosed \/ UNCHANGED vars
    BY <2>2 DEF LateInv, LeaseExpires, AllClosed, vars
  <2> QED
    BY <2>1, <2>2 DEF Next
<1>3. LateInv => FencedSessionStops
  BY DEF LateInv, Stopping, FencedSessionStops
<1> QED
  BY <1>1, <1>2, <1>3, InvariantHolds, PTL DEF Spec

-----------------------------------------------------------------------------
(* The auto-tier runs at most once, and before the row is completed.       *)
(*                                                                         *)
(* Both hold as long as nobody resumes a run under other options than it   *)
(* was started with: ReadRecord compares them, but the claim that follows  *)
(* takes whatever row is there by then.                                    *)

\* The auto-tier of a run was executed, or a session is about to.
Engaged(run) ==
    \/ tierRuns[run] > 0
    \/ \E t \in Tokens : sess[t].pc = "tier_run" /\ sess[t].local.run = run

\* What the phase of a run record says of the run.
PhaseTells(r, tr) ==
    /\ r.phase # "work" => Requested[r.opt] \subseteq r.done
    /\ r.phase = "auto_tier_completed" => tr[r.run] >= 1

Finalized(r, tr) ==
    /\ Requested[r.opt] \subseteq r.done
    /\ AutoTier[r.opt] => tr[r.run] >= 1

TierCopy(s, tr) ==
    s.pc \in Live =>
        /\ s.local.opt = s.opt
        /\ PhaseTells(s.local, tr)
        /\ s.local.phase = "completed" => s.pc = "readback"
        /\ s.pc \in {"handler", "unit", "checkpoint", "finish", "tier_start"} =>
              s.local.phase = "work"
        /\ s.pc \in {"tier_start", "tier_run", "tier_done"} =>
              Requested[s.opt] \subseteq s.local.done
        /\ s.pc = "tier_run" => /\ s.local.phase = "auto_tier_started"
                                /\ tr[s.local.run] = 0
        /\ s.pc = "tier_done" => tr[s.local.run] >= 1
        /\ s.pc = "completing" => Finalized(s.local, tr)

TierRow(r, tr) ==
    /\ PhaseTells(r, tr)
    /\ r.phase = "completed" => r.status = "completed"
    /\ r.status = "completed" => Finalized(r, tr)

\* A run the auto-tier of which is under way shows it: in its row, and in the
\* copy of the session that owns the row.
TierShows ==
    rec.run \in Tokens /\ Engaged(rec.run) =>
        /\ rec.phase # "work"
        /\ \A t \in Tokens :
              rec.owner = t /\ sess[t].pc \in Live => sess[t].local.phase # "work"

\* No run is named by a token whose session has not started one.
Unstarted(t) ==
    /\ tierRuns[t] = 0
    /\ \A u \in Tokens : sess[u].pc \in Live => sess[u].local.run # t

OneAtTier ==
    \A t, u \in Tokens :
        /\ sess[t].pc = "tier_run" /\ sess[u].pc = "tier_run"
        /\ sess[t].local.run = sess[u].local.run
        => t = u

TierInv ==
    /\ TierRow(rec, tierRuns)
    /\ rec.run = NoToken => rec.phase = "work"
    /\ TierShows
    /\ OneAtTier
    /\ \A t \in Tokens :
          /\ tierRuns[t] <= 1
          /\ TierCopy(sess[t], tierRuns)
          /\ sess[t].pc \in PreClaim => Unstarted(t)

LEMMA TierTypes ==
  ASSUME IInv, NEW t \in Tokens
  PROVE  /\ sess[t] \in Session /\ sess[t].opt \in Options
         /\ sess[t].local \in RunRecord /\ sess[t].local.opt \in Options
         /\ sess[t].local.phase \in Phases
         /\ sess[t].pc \in Live => sess[t].local.run \in Tokens
         /\ rec \in RunRecord /\ rec.opt \in Options
         /\ tierRuns \in [Tokens -> Nat]
BY SessionFacts, LiveFacts DEF IInv, OtherTypes, RowOK, Session, RunRecord

\* A step of t that leaves the row alone and does not run the auto-tier.
LEMMA TierStay ==
  ASSUME IInv, TierInv, NEW t \in Tokens, NEW n, Become(t, n),
         rec' = rec, tierRuns' = tierRuns,
         TierCopy(n, tierRuns),
         n.pc \in PreClaim => sess[t].pc \in PreClaim,
         n.pc \in Live => /\ sess[t].pc \in Live
                          /\ n.local.run = sess[t].local.run
                          /\ sess[t].local.phase # "work" => n.local.phase # "work"
                          /\ n.pc = "tier_run" => sess[t].pc = "tier_run"
  PROVE  TierInv'
<1>1. sess \in [Tokens -> Session] /\ sess' = [sess EXCEPT ![t] = n]
  BY DEF IInv, OtherTypes, Become
<1>2. sess'[t] = n /\ \A u \in Tokens \ {t} : sess'[u] = sess[u]
  BY <1>1
<1>3. "tier_run" \in Live
  BY DEF Live, Working
<1>4. \A r : Engaged(r)' => Engaged(r)
  BY <1>2, <1>3 DEF Engaged
<1>5. TierRow(rec, tierRuns)'
  BY DEF TierInv, TierRow, PhaseTells, Finalized
<1>6. TierShows'
  BY <1>2, <1>4 DEF TierInv, TierShows
<1>7. OneAtTier'
  BY <1>2, <1>3 DEF TierInv, OneAtTier
<1>8. ASSUME NEW u \in Tokens
      PROVE  /\ tierRuns'[u] <= 1
             /\ TierCopy(sess'[u], tierRuns')
             /\ sess'[u].pc \in PreClaim => Unstarted(u)'
  <2>1. tierRuns'[u] <= 1 /\ TierCopy(sess'[u], tierRuns')
    BY <1>2 DEF TierInv
  <2>2. sess'[u].pc \in PreClaim => Unstarted(u)
    BY <1>2 DEF TierInv
  <2>3. Unstarted(u) => Unstarted(u)'
    BY <1>2 DEF Unstarted
  <2> QED
    BY <2>1, <2>2, <2>3
<1> QED
  BY <1>5, <1>6, <1>7, <1>8 DEF TierInv

\* A step of t that overwrites the row it owns.
LEMMA TierWrite ==
  ASSUME IInv, TierInv, NEW t \in Tokens, sess[t].pc \in Live, rec.owner = t,
         NEW st, st.run = sess[t].local.run, st.owner = t,
         rec' = st, tierRuns' = tierRuns, TierRow(st, tierRuns),
         NEW n, Become(t, n), n.local = st, TierCopy(n, tierRuns),
         n.pc \notin PreClaim,
         sess[t].local.phase # "work" => st.phase # "work",
         n.pc = "tier_run" => sess[t].local.phase = "work" /\ st.phase # "work"
  PROVE  TierInv'
<1>1. sess \in [Tokens -> Session] /\ sess' = [sess EXCEPT ![t] = n]
  BY DEF IInv, OtherTypes, Become
<1>2. sess'[t] = n /\ \A u \in Tokens \ {t} : sess'[u] = sess[u]
  BY <1>1
<1>3. rec.run = st.run /\ rec.run \in Tokens /\ t # NoToken
  BY LiveFacts, SessionFacts, ConstantsAssumption DEF Linked
<1>4. n.pc = "tier_run" => ~Engaged(rec.run)
  BY <1>3 DEF TierInv, TierShows
<1>5. "tier_run" \in Live
  BY DEF Live, Working
<1>6. \A r : Engaged(r)' => Engaged(r) \/ (n.pc = "tier_run" /\ r = rec.run)
  BY <1>2, <1>3 DEF Engaged
<1>7. TierRow(rec, tierRuns)'
  BY DEF TierInv, TierRow, PhaseTells, Finalized
<1>8. TierShows'
  <2>1. SUFFICES ASSUME Engaged(rec.run)'
                 PROVE  st.phase # "work"
    BY <1>2 DEF TierShows
  <2>2. Engaged(rec.run) \/ n.pc = "tier_run"
    BY <1>3, <1>6, <2>1
  <2> QED
    BY <1>3, <2>2 DEF TierInv, TierShows
<1>9. OneAtTier'
  <2>1. SUFFICES ASSUME n.pc = "tier_run",
                        NEW u \in Tokens \ {t}, sess[u].pc = "tier_run"
                 PROVE  sess[u].local.run # st.run
    BY <1>2 DEF TierInv, OneAtTier
  <2> QED
    BY <1>3, <1>4, <2>1 DEF Engaged
<1>10. ASSUME NEW u \in Tokens
       PROVE  /\ tierRuns'[u] <= 1
              /\ TierCopy(sess'[u], tierRuns')
              /\ sess'[u].pc \in PreClaim => Unstarted(u)'
  <2>1. tierRuns'[u] <= 1 /\ TierCopy(sess'[u], tierRuns')
    BY <1>2 DEF TierInv
  <2>2. sess'[u].pc \in PreClaim => Unstarted(u)
    BY <1>2 DEF TierInv
  <2>3. Unstarted(u) => Unstarted(u)'
    BY <1>2 DEF Unstarted
  <2> QED
    BY <2>1, <2>2, <2>3
<1> QED
  BY <1>3, <1>7, <1>8, <1>9, <1>10, ConstantsAssumption DEF TierInv

LEMMA TierSave ==
  ASSUME IInv, TierInv, NEW t \in Tokens, sess[t].pc \in Live,
         NEW st, st.run = sess[t].local.run, st.owner = t, TierRow(st, tierRuns),
         sess[t].local.phase # "work" => st.phase # "work",
         NEW ok \in Session, ok.pc \notin PreClaim,
         rec.owner = t => TierCopy(Holding(ok, st), tierRuns),
         ok.pc = "tier_run" => sess[t].local.phase = "work" /\ st.phase # "work",
         NEW errs \in SUBSET Session,
         \A e \in errs : /\ e.pc \notin PreClaim /\ e.pc # "tier_run"
                         /\ TierCopy(Holding(e, st), tierRuns),
         NEW fencedAs \in {"blocked", "lease_lost"},
         Save(t, st, ok, errs, fencedAs), tierRuns' = tierRuns
  PROVE  TierInv'
<1>1. \A e \in Session : /\ Holding(e, st).pc = e.pc
                         /\ Holding(e, st).local = st
  BY DEF Holding, Session
<1>2. /\ LostEnd(t, fencedAs) \in Session
      /\ LostEnd(t, fencedAs).pc = "closing"
  BY SessionFacts, Moved DEF Outcomes
<1>3. "closing" \notin Live /\ "closing" \notin PreClaim
  BY DEF Live, Working, PreClaim
<1>4. TierCopy(Holding(LostEnd(t, fencedAs), st), tierRuns)
  BY <1>1, <1>2, <1>3 DEF TierCopy
<1>5. PICK e \in Session :
         /\ Become(t, Holding(e, st))
         /\ e.pc \notin PreClaim
         /\ TierCopy(Holding(e, st), tierRuns)
         /\ \/ /\ rec' = st /\ rec.owner = t
               /\ e.pc = "tier_run" => sess[t].local.phase = "work" /\ st.phase # "work"
            \/ rec' = rec /\ e.pc # "tier_run"
  BY <1>2, <1>3, <1>4 DEF Save, OwnsRow
<1> DEFINE n == Holding(e, st)
<1>6. n.pc = e.pc /\ n.local = st
  BY <1>1
<1> HIDE DEF n
<1>7. CASE rec' = st /\ rec.owner = t
  BY <1>5, <1>6, <1>7, TierWrite DEF n
<1>8. CASE rec' = rec /\ e.pc # "tier_run"
  BY <1>5, <1>6, <1>8, TierStay DEF n
<1> QED
  BY <1>5, <1>7, <1>8

\* What a copy must say for the session to go on at each program point.
LEMMA TierCopyAt ==
  ASSUME NEW e \in Session, NEW st, NEW tr, st.opt = e.opt, PhaseTells(st, tr),
         \/ e.pc = "closing"
         \/ e.pc = "readback"
         \/ e.pc \in {"loop", "failing", "pausing"} /\ st.phase # "completed"
         \/ e.pc = "handler" /\ st.phase = "work"
         \/ e.pc = "completing" /\ st.phase # "completed" /\ Finalized(st, tr)
         \/ /\ e.pc = "tier_run" /\ st.phase = "auto_tier_started"
            /\ tr[st.run] = 0
  PROVE  TierCopy(Holding(e, st), tr)
<1>1. /\ Holding(e, st).pc = e.pc /\ Holding(e, st).opt = e.opt
      /\ Holding(e, st).local = st
  BY DEF Holding, Session
<1> QED
  BY <1>1 DEF TierCopy, PhaseTells, Live, Working

\* The four ways a copy changes, field by field.
LEMMA CopyFields ==
  ASSUME NEW r \in RunRecord
  PROVE  /\ \A x : LET q == SetStatus(r, x)
                   IN  /\ q.run = r.run /\ q.owner = r.owner /\ q.opt = r.opt
                       /\ q.done = r.done /\ q.phase = r.phase /\ q.status = x
                       /\ x \in Statuses => q \in RunRecord
         /\ \A y : LET q == SetPhase(r, y)
                   IN  /\ q.run = r.run /\ q.owner = r.owner /\ q.opt = r.opt
                       /\ q.done = r.done /\ q.phase = y /\ q.status = r.status
         /\ \A s, c : LET q == Advance(r, s, c)
                      IN  /\ q.run = r.run /\ q.owner = r.owner /\ q.opt = r.opt
                          /\ q.done = r.done /\ q.phase = "work"
                          /\ q.status = "running"
         /\ \A s : LET q == Completed(r, s)
                   IN  /\ q.run = r.run /\ q.owner = r.owner /\ q.opt = r.opt
                       /\ q.phase = "work" /\ q.status = r.status
<1>1. ASSUME NEW x
      PROVE  LET q == SetStatus(r, x)
             IN  /\ q.run = r.run /\ q.owner = r.owner /\ q.opt = r.opt
                 /\ q.done = r.done /\ q.phase = r.phase /\ q.status = x
                 /\ x \in Statuses => q \in RunRecord
  BY DEF SetStatus, RunRecord
<1>2. ASSUME NEW y
      PROVE  LET q == SetPhase(r, y)
             IN  /\ q.run = r.run /\ q.owner = r.owner /\ q.opt = r.opt
                 /\ q.done = r.done /\ q.phase = y /\ q.status = r.status
  BY DEF SetPhase, RunRecord
<1>3. ASSUME NEW s, NEW c
      PROVE  LET q == Advance(r, s, c)
             IN  /\ q.run = r.run /\ q.owner = r.owner /\ q.opt = r.opt
                 /\ q.done = r.done /\ q.phase = "work"
                 /\ q.status = "running"
  BY DEF Advance, RunRecord
<1>4. ASSUME NEW s
      PROVE  LET q == Completed(r, s)
             IN  /\ q.run = r.run /\ q.owner = r.owner /\ q.opt = r.opt
                 /\ q.phase = "work" /\ q.status = r.status
  BY DEF Completed, RunRecord
<1> QED
  BY <1>1, <1>2, <1>3, <1>4

\* Where the saves of session s may go on: e keeps the invocation's options.
GoesOn(t, e, pcs) == e \in Session /\ e.pc \in pcs /\ e.opt = sess[t].opt

LEMMA TierMoved ==
  ASSUME IInv, NEW t \in Tokens
  PROVE  /\ \A pc \in {"loop", "handler", "pausing", "failing", "tier_run",
                       "completing", "readback"} : GoesOn(t, To(t, pc), {pc})
         /\ \A x \in Strategies \cup {0} :
               /\ GoesOn(t, FailAt(t, x, "loop"), {"loop"})
               /\ GoesOn(t, FailAt(t, x, "failing"), {"failing"})
         /\ \A o \in Outcomes : GoesOn(t, End(t, o), {"closing"})
<1>1. {"loop", "handler", "pausing", "failing", "tier_run", "completing",
       "readback"} \subseteq PCs
  BY DEF PCs, Working
<1>2. \A o \in Outcomes : End(t, o).opt = sess[t].opt
  BY SessionFacts DEF End, Session
<1>3. \A pc \in {"loop", "handler", "pausing", "failing", "tier_run",
                 "completing", "readback"} : GoesOn(t, To(t, pc), {pc})
  BY <1>1, Moved, SessionFacts DEF GoesOn
<1>4. ASSUME NEW pc \in {"loop", "failing"}, NEW x \in Strategies \cup {0}
      PROVE  GoesOn(t, FailAt(t, x, pc), {pc})
  BY <1>1, Moved, SessionFacts DEF GoesOn
<1> QED
  BY <1>2, <1>3, <1>4, Moved, SessionFacts DEF GoesOn

LEMMA TierSaves ==
  ASSUME IInv, TierInv, NEW t \in Tokens,
         \/ ResumeSave(t) \/ NextStrategy(t) \/ CheckpointUnit(t)
         \/ CompleteStrategy(t) \/ TierStarted(t) \/ TierCompleted(t)
         \/ FailRun(t) \/ PauseRun(t) \/ CompleteRun(t)
  PROVE  TierInv'
<1> DEFINE s == sess[t]
           r == sess[t].local
<1>1. /\ s.pc \in Live /\ s.pc # "readback" /\ tierRuns' = tierRuns
  BY DEF ResumeSave, NextStrategy, CheckpointUnit, CompleteStrategy, TierStarted,
         TierCompleted, FailRun, PauseRun, CompleteRun, Live, Working
<1>2. /\ s \in Session /\ r \in RunRecord /\ r.owner = t /\ r.run \in Tokens
      /\ r.status # "completed" /\ r.phase \in Phases
      /\ tierRuns \in [Tokens -> Nat]
  BY <1>1, LiveFacts, TierTypes
<1>3. /\ TierCopy(s, tierRuns) /\ r.opt = s.opt /\ PhaseTells(r, tierRuns)
      /\ r.phase # "completed"
  BY <1>1 DEF TierInv, TierCopy
<1>4. /\ {"blocked", "failed", "paused", "completed", "completion_unconfirmed"}
            \subseteq Outcomes
      /\ {"loop", "failing", "pausing", "handler", "tier_run", "completing",
          "readback", "closing"} \cap PreClaim = {}
  BY DEF Outcomes, PreClaim
\* A save that only changes the status, to something that is not completed.
<1>5. ASSUME NEW x \in {"running", "failed", "paused"},
             NEW ok, GoesOn(t, ok, {"loop", "closing"}),
             NEW errs, \A e \in errs : GoesOn(t, e, {"loop", "failing", "pausing", "closing"}),
             NEW fencedAs \in {"blocked", "lease_lost"},
             Save(t, SetStatus(r, x), ok, errs, fencedAs)
      PROVE  TierInv'
  <2> DEFINE st == SetStatus(r, x)
  <2>1. /\ st.run = r.run /\ st.owner = r.owner /\ st.opt = r.opt
        /\ st.done = r.done /\ st.phase = r.phase /\ st.status = x
    BY <1>2, CopyFields
  <2> HIDE DEF st
  <2>2. PhaseTells(st, tierRuns) /\ TierRow(st, tierRuns)
    BY <1>3, <2>1 DEF PhaseTells, TierRow
  <2>3. ASSUME NEW e, GoesOn(t, e, {"loop", "failing", "pausing", "closing"})
        PROVE  TierCopy(Holding(e, st), tierRuns)
    BY <1>3, <2>1, <2>2, <2>3, TierCopyAt DEF GoesOn
  <2>4. errs \in SUBSET Session
    BY <1>5 DEF GoesOn
  <2>5. ok \in Session /\ ok.pc \in {"loop", "closing"} /\ TierCopy(Holding(ok, st), tierRuns)
    BY <1>5, <2>3 DEF GoesOn
  <2>6. \A e \in errs : /\ e.pc \notin PreClaim /\ e.pc # "tier_run"
                        /\ TierCopy(Holding(e, st), tierRuns)
    BY <1>4, <1>5, <2>3 DEF GoesOn
  <2>7. Save(t, st, ok, errs, fencedAs)
    BY <1>5 DEF st
  <2> QED
    BY <1>1, <1>2, <1>3, <1>4, <2>1, <2>2, <2>4, <2>5, <2>6, <2>7, TierSave
\* A save by which the run goes on working.
<1>6. ASSUME NEW st, st.run = r.run, st.owner = r.owner, st.opt = r.opt,
             st.phase = "work", st.status # "completed", r.phase = "work",
             NEW ok, GoesOn(t, ok, {"loop", "handler"}),
             NEW errs, \A e \in errs : GoesOn(t, e, {"loop", "pausing"}),
             Save(t, st, ok, errs, "lease_lost")
      PROVE  TierInv'
  <2>1. PhaseTells(st, tierRuns) /\ TierRow(st, tierRuns)
    BY <1>6 DEF PhaseTells, TierRow
  <2>2. ASSUME NEW e, GoesOn(t, e, {"loop", "handler", "pausing"})
        PROVE  TierCopy(Holding(e, st), tierRuns)
    BY <1>3, <1>6, <2>1, <2>2, TierCopyAt DEF GoesOn
  <2>3. errs \in SUBSET Session
    BY <1>6 DEF GoesOn
  <2>4. ok \in Session /\ ok.pc \in {"loop", "handler"} /\ TierCopy(Holding(ok, st), tierRuns)
    BY <1>6, <2>2 DEF GoesOn
  <2>5. \A e \in errs : /\ e.pc \notin PreClaim /\ e.pc # "tier_run"
                        /\ TierCopy(Holding(e, st), tierRuns)
    BY <1>4, <1>6, <2>2 DEF GoesOn
  <2> QED
    BY <1>1, <1>2, <1>4, <1>6, <2>1, <2>3, <2>4, <2>5, TierSave
<1>7. CASE ResumeSave(t)
  <2> DEFINE ok == [To(t, "loop") EXCEPT
                      !.finOnly = Requested[s.opt] \subseteq SetStatus(r, "running").done]
  <2>1. Save(t, SetStatus(r, "running"), ok, {End(t, "blocked")}, "blocked")
    BY <1>7 DEF ResumeSave
  <2>2. GoesOn(t, ok, {"loop", "closing"})
    <3>1. GoesOn(t, To(t, "loop"), {"loop"})
      BY TierMoved
    <3> QED
      BY <3>1 DEF GoesOn, Session
  <2>3. GoesOn(t, End(t, "blocked"), {"closing"})
    BY <1>4, TierMoved
  <2> HIDE DEF ok
  <2> QED
    BY <1>5, <2>1, <2>2, <2>3 DEF GoesOn
<1>8. CASE FailRun(t) \/ PauseRun(t)
  <2>1. PICK o \in {"failed", "paused"},
             errs \in SUBSET {End(t, "failed"), End(t, "paused"), To(t, "pausing")} :
           Save(t, SetStatus(r, o), End(t, o), errs, "lease_lost")
    BY <1>8 DEF FailRun, PauseRun
  <2>2. GoesOn(t, End(t, o), {"closing"})
    BY <1>4, TierMoved
  <2>3. \A e \in errs : GoesOn(t, e, {"closing", "pausing"})
    <3>1. /\ GoesOn(t, End(t, "failed"), {"closing"})
          /\ GoesOn(t, End(t, "paused"), {"closing"})
          /\ GoesOn(t, To(t, "pausing"), {"pausing"})
      BY <1>4, TierMoved
    <3> QED
      BY <3>1 DEF GoesOn
  <2> QED
    BY <1>5, <2>1, <2>2, <2>3 DEF GoesOn
<1>9. CASE CheckpointUnit(t)
  <2> DEFINE x == s.at
             st == Advance(r, x, r.cursor[x] + 1)
             errs == {FailAt(t, x, "loop"), To(t, "pausing")}
  <2>1. s.pc = "checkpoint" /\ Save(t, st, To(t, "handler"), errs, "lease_lost")
    BY <1>9 DEF CheckpointUnit
  <2>2. r.phase = "work" /\ x \in Strategies
    BY <1>1, <1>3, <2>1, SessionFacts DEF TierCopy, Good, AtStrategy
  <2>3. /\ st.run = r.run /\ st.owner = r.owner /\ st.opt = r.opt
        /\ st.phase = "work" /\ st.status = "running"
    BY <1>2, CopyFields
  <2>4. GoesOn(t, To(t, "handler"), {"loop", "handler"})
    BY TierMoved DEF GoesOn
  <2>5. \A e \in errs : GoesOn(t, e, {"loop", "pausing"})
    <3>1. GoesOn(t, FailAt(t, x, "loop"), {"loop"}) /\ GoesOn(t, To(t, "pausing"), {"pausing"})
      BY <2>2, TierMoved
    <3> QED
      BY <3>1 DEF GoesOn
  <2> HIDE DEF st, errs
  <2> QED
    BY <1>6, <2>1, <2>2, <2>3, <2>4, <2>5
<1>10. CASE CompleteStrategy(t)
  <2> DEFINE x == s.at
             st == Completed(r, x)
             errs == {FailAt(t, x, "loop"), To(t, "pausing")}
  <2>1. s.pc = "finish" /\ Save(t, st, To(t, "loop"), errs, "lease_lost")
    BY <1>10 DEF CompleteStrategy
  <2>2. r.phase = "work" /\ x \in Strategies
    BY <1>1, <1>3, <2>1, SessionFacts DEF TierCopy, Good, AtStrategy
  <2>3. /\ st.run = r.run /\ st.owner = r.owner /\ st.opt = r.opt
        /\ st.phase = "work" /\ st.status = r.status
    BY <1>2, CopyFields
  <2>4. GoesOn(t, To(t, "loop"), {"loop", "handler"})
    BY TierMoved DEF GoesOn
  <2>5. \A e \in errs : GoesOn(t, e, {"loop", "pausing"})
    <3>1. GoesOn(t, FailAt(t, x, "loop"), {"loop"}) /\ GoesOn(t, To(t, "pausing"), {"pausing"})
      BY <2>2, TierMoved
    <3> QED
      BY <3>1 DEF GoesOn
  <2> HIDE DEF st, errs
  <2> QED
    BY <1>2, <1>6, <2>1, <2>2, <2>3, <2>4, <2>5
<1>11. CASE NextStrategy(t)
  <2>1. PICK x \in Remaining(t) :
         LET here == [To(t, "handler") EXCEPT !.at = x]
             skip == [FailAt(t, x, "loop") EXCEPT !.at = x]
         IN  IF r.cursor[x] = NoState
             THEN Save(t, Advance(r, x, 0), here,
                       {skip, To(t, "pausing")}, "lease_lost")
             ELSE Become(t, here) /\ UNCHANGED <<rec, finished, faults>>
    BY <1>11 DEF NextStrategy
  <2> DEFINE here == [To(t, "handler") EXCEPT !.at = x]
             skip == [FailAt(t, x, "loop") EXCEPT !.at = x]
             st == Advance(r, x, 0)
             errs == {skip, To(t, "pausing")}
  <2>2. /\ x \in Strategies /\ x \in 0 .. NStrategies
        /\ x \in Requested[s.opt] /\ x \notin r.done
    BY <1>1, LiveFacts, ConstantsAssumption DEF Remaining, Strategies
  <2>3. r.phase = "work"
    BY <1>3, <2>2 DEF PhaseTells
  <2>4. /\ st.run = r.run /\ st.owner = r.owner /\ st.opt = r.opt
        /\ st.phase = "work" /\ st.status = "running"
    BY <1>2, CopyFields
  <2>5. GoesOn(t, here, {"handler"})
    <3>1. GoesOn(t, To(t, "handler"), {"handler"})
      BY TierMoved
    <3> QED
      BY <2>2, <3>1 DEF GoesOn, Session
  <2>6. GoesOn(t, skip, {"loop"})
    <3>1. GoesOn(t, FailAt(t, x, "loop"), {"loop"})
      BY <2>2, TierMoved
    <3> QED
      BY <2>2, <3>1 DEF GoesOn, Session
  <2>7. GoesOn(t, To(t, "pausing"), {"pausing"})
    BY TierMoved
  <2>8. here.local = r
    BY <1>2 DEF To, Session
  <2>9. CASE r.cursor[x] = NoState
    <3>1. Save(t, st, here, errs, "lease_lost")
      BY <2>1, <2>9
    <3>2. GoesOn(t, here, {"loop", "handler"}) /\ \A e \in errs : GoesOn(t, e, {"loop", "pausing"})
      BY <2>5, <2>6, <2>7 DEF GoesOn
    <3> HIDE DEF st, errs, here, skip
    <3> QED
      BY <1>6, <2>3, <2>4, <3>1, <3>2
  <2>10. CASE r.cursor[x] # NoState
    <3>1. Become(t, here) /\ rec' = rec
      BY <2>1, <2>10
    <3> HIDE DEF here, skip
    <3>2. here.pc = "handler" /\ here.opt = s.opt
      BY <2>5 DEF GoesOn
    <3>3. TierCopy(here, tierRuns)
      BY <1>3, <2>3, <2>8, <3>2 DEF TierCopy
    <3> QED
      BY <1>1, <1>4, <2>8, <3>1, <3>2, <3>3, TierStay
  <2> QED
    BY <2>9, <2>10
<1>12. CASE TierStarted(t)
  <2> DEFINE st == SetPhase(r, "auto_tier_started")
             errs == {FailAt(t, 0, "failing"), To(t, "pausing")}
  <2>1. s.pc = "tier_start" /\ Save(t, st, To(t, "tier_run"), errs, "lease_lost")
    BY <1>12 DEF TierStarted
  <2>2. r.phase = "work" /\ Requested[s.opt] \subseteq r.done
    BY <1>1, <1>3, <2>1 DEF TierCopy
  <2>3. /\ st.run = r.run /\ st.owner = r.owner /\ st.opt = r.opt
        /\ st.done = r.done /\ st.phase = "auto_tier_started" /\ st.status = r.status
    BY <1>2, CopyFields
  <2>4. /\ GoesOn(t, To(t, "tier_run"), {"tier_run"})
        /\ GoesOn(t, FailAt(t, 0, "failing"), {"failing"})
        /\ GoesOn(t, To(t, "pausing"), {"pausing"})
    BY TierMoved
  <2> HIDE DEF st
  <2>5. PhaseTells(st, tierRuns) /\ TierRow(st, tierRuns)
    BY <1>2, <1>3, <2>2, <2>3 DEF PhaseTells, TierRow
  <2>6. ASSUME NEW e, GoesOn(t, e, {"failing", "pausing"})
        PROVE  TierCopy(Holding(e, st), tierRuns)
    BY <1>3, <2>3, <2>5, <2>6, TierCopyAt DEF GoesOn
  <2>7. ASSUME rec.owner = t
        PROVE  TierCopy(Holding(To(t, "tier_run"), st), tierRuns)
    <3>1. rec.run = r.run
      BY <1>1, <2>7, SessionFacts DEF Linked
    <3>2. ~Engaged(r.run)
      BY <1>1, <1>2, <2>2, <2>7, <3>1 DEF TierInv, TierShows
    <3>3. tierRuns[st.run] = 0
      BY <1>2, <2>3, <3>2 DEF Engaged
    <3> QED
      BY <1>3, <2>3, <2>4, <2>5, <3>3, TierCopyAt DEF GoesOn
  <2>8. /\ errs \in SUBSET Session
        /\ \A e \in errs : /\ e.pc \notin PreClaim /\ e.pc # "tier_run"
                           /\ TierCopy(Holding(e, st), tierRuns)
    BY <1>4, <2>4, <2>6 DEF GoesOn
  <2>9. To(t, "tier_run") \in Session /\ To(t, "tier_run").pc \notin PreClaim
    BY <1>4, <2>4 DEF GoesOn
  <2> HIDE DEF errs
  <2> QED
    BY <1>1, <1>2, <2>1, <2>2, <2>3, <2>5, <2>7, <2>8, <2>9, TierSave
<1>13. CASE TierCompleted(t)
  <2> DEFINE st == SetPhase(r, "auto_tier_completed")
             errs == {FailAt(t, 0, "failing"), To(t, "pausing")}
  <2>1. s.pc = "tier_done" /\ Save(t, st, To(t, "completing"), errs, "lease_lost")
    BY <1>13 DEF TierCompleted
  <2>2. tierRuns[r.run] >= 1 /\ Requested[s.opt] \subseteq r.done
    BY <1>1, <1>3, <2>1 DEF TierCopy
  <2>3. /\ st.run = r.run /\ st.owner = r.owner /\ st.opt = r.opt
        /\ st.done = r.done /\ st.phase = "auto_tier_completed" /\ st.status = r.status
    BY <1>2, CopyFields
  <2>4. /\ GoesOn(t, To(t, "completing"), {"completing"})
        /\ GoesOn(t, FailAt(t, 0, "failing"), {"failing"})
        /\ GoesOn(t, To(t, "pausing"), {"pausing"})
    BY TierMoved
  <2> HIDE DEF st
  <2>5. PhaseTells(st, tierRuns) /\ TierRow(st, tierRuns) /\ Finalized(st, tierRuns)
    BY <1>2, <1>3, <2>2, <2>3 DEF PhaseTells, TierRow, Finalized
  <2>6. ASSUME NEW e, GoesOn(t, e, {"failing", "pausing", "completing"})
        PROVE  TierCopy(Holding(e, st), tierRuns)
    BY <1>3, <2>3, <2>5, <2>6, TierCopyAt DEF GoesOn
  <2>7. /\ errs \in SUBSET Session
        /\ \A e \in errs : /\ e.pc \notin PreClaim /\ e.pc # "tier_run"
                           /\ TierCopy(Holding(e, st), tierRuns)
    BY <1>4, <2>4, <2>6 DEF GoesOn
  <2>8. /\ To(t, "completing") \in Session
        /\ To(t, "completing").pc = "completing" /\ "completing" \notin PreClaim
        /\ TierCopy(Holding(To(t, "completing"), st), tierRuns)
    BY <1>4, <2>4, <2>6 DEF GoesOn
  <2> HIDE DEF errs
  <2> QED
    BY <1>1, <1>2, <2>1, <2>3, <2>5, <2>7, <2>8, TierSave
<1>14. CASE CompleteRun(t)
  <2> DEFINE q == SetStatus(r, "completed")
             st == SetPhase(q, "completed")
             errs == {To(t, "readback"), End(t, "completion_unconfirmed")}
  <2>1. s.pc = "completing" /\ Save(t, st, End(t, "completed"), errs, "lease_lost")
    BY <1>14 DEF CompleteRun
  <2>2. Finalized(r, tierRuns)
    BY <1>1, <1>3, <2>1 DEF TierCopy
  <2>3. /\ st.run = r.run /\ st.owner = r.owner /\ st.opt = r.opt
        /\ st.done = r.done /\ st.phase = "completed" /\ st.status = "completed"
    <3>1. "completed" \in Statuses
      BY DEF Statuses
    <3>2. /\ q \in RunRecord /\ q.run = r.run /\ q.owner = r.owner /\ q.opt = r.opt
          /\ q.done = r.done /\ q.status = "completed"
      BY <1>2, <3>1, CopyFields
    <3> HIDE DEF q
    <3> QED
      BY <3>2, CopyFields
  <2>4. /\ GoesOn(t, To(t, "readback"), {"readback"})
        /\ GoesOn(t, End(t, "completion_unconfirmed"), {"closing"})
        /\ GoesOn(t, End(t, "completed"), {"closing"})
    BY <1>4, TierMoved
  <2> HIDE DEF st, q
  <2>5. PhaseTells(st, tierRuns) /\ TierRow(st, tierRuns)
    BY <2>2, <2>3 DEF PhaseTells, TierRow, Finalized
  <2>6. ASSUME NEW e, GoesOn(t, e, {"readback", "closing"})
        PROVE  TierCopy(Holding(e, st), tierRuns)
    BY <1>3, <2>3, <2>5, <2>6, TierCopyAt DEF GoesOn
  <2>7. /\ errs \in SUBSET Session
        /\ \A e \in errs : /\ e.pc \notin PreClaim /\ e.pc # "tier_run"
                           /\ TierCopy(Holding(e, st), tierRuns)
    BY <1>4, <2>4, <2>6 DEF GoesOn
  <2>8. /\ End(t, "completed") \in Session /\ End(t, "completed").pc = "closing"
        /\ TierCopy(Holding(End(t, "completed"), st), tierRuns)
    BY <2>4, <2>6 DEF GoesOn
  <2> HIDE DEF errs
  <2> QED
    BY <1>1, <1>2, <1>4, <2>1, <2>3, <2>5, <2>7, <2>8, TierSave
<1> QED
  BY <1>7, <1>8, <1>9, <1>10, <1>11, <1>12, <1>13, <1>14

\* The steps that leave the row alone and do not run the auto-tier.
LEMMA TierQuiet ==
  ASSUME IInv, TierInv, NEW t \in Tokens,
         \/ \E o \in Options : Acquire(t, o)
         \/ ReadRecord(t) \/ CheckBudget(t) \/ ApplyUnit(t) \/ UnitFails(t)
         \/ LoopEnds(t) \/ ReadBack(t) \/ Close(t) \/ TotalTimeout(t)
         \/ Heartbeat(t) \/ Interrupt(t) \/ Crash(t)
  PROVE  TierInv'
<1> DEFINE s == sess[t]
           r == sess[t].local
<1>1. /\ rec' = rec /\ tierRuns' = tierRuns /\ s \in Session
      /\ TierCopy(s, tierRuns)
  BY SessionFacts
  DEF Acquire, ReadRecord, CheckBudget, ApplyUnit, UnitFails, LoopEnds, ReadBack,
      Close, TotalTimeout, Heartbeat, Interrupt, Crash, TierInv
<1>2. /\ {"claim", "start", "unit", "finish", "checkpoint", "loop", "failing",
          "pausing", "completing", "tier_start"} \subseteq PCs
      /\ {"blocked", "lease_lost", "paused", "completed", "completion_unconfirmed"}
            \subseteq Outcomes
  BY DEF PCs, Opening, Working, Outcomes
\* Steps that end outside the run.
<1>3. ASSUME NEW n, Become(t, n), n.pc \notin Live,
             n.pc \in PreClaim => s.pc \in PreClaim
      PROVE  TierInv'
  BY <1>1, <1>3, TierStay DEF TierCopy
\* Steps within the run: the copy stays.
<1>4. ASSUME NEW n, Become(t, n), s.pc \in Live, n.local = r, n.opt = s.opt,
             n.pc \in {"unit", "finish", "checkpoint", "loop", "failing",
                       "pausing", "completing", "tier_start"},
             s.pc # "readback",
             n.pc \in {"unit", "finish", "checkpoint"} => s.pc \in {"handler", "unit"},
             n.pc = "completing" => Finalized(r, tierRuns),
             n.pc = "tier_start" => r.phase = "work" /\ Requested[s.opt] \subseteq r.done
      PROVE  TierInv'
  <2>1. TierCopy(n, tierRuns)
    BY <1>1, <1>4 DEF TierCopy
  <2>2. n.pc \notin PreClaim /\ n.pc # "tier_run"
    BY <1>4 DEF PreClaim
  <2> QED
    BY <1>1, <1>4, <2>1, <2>2, TierStay
<1>5. ASSUME NEW pc \in PCs, Become(t, To(t, pc)), s.pc \in Live,
             pc \in {"unit", "finish", "checkpoint", "loop", "failing",
                       "pausing", "completing", "tier_start"},
             s.pc # "readback",
             pc \in {"unit", "finish", "checkpoint"} => s.pc \in {"handler", "unit"},
             pc = "completing" => Finalized(r, tierRuns),
             pc = "tier_start" => r.phase = "work" /\ Requested[s.opt] \subseteq r.done
      PROVE  TierInv'
  BY <1>4, <1>5, Moved
<1>6. ASSUME NEW o \in Outcomes, Become(t, End(t, o)) \/ Become(t, LostEnd(t, o))
      PROVE  TierInv'
  BY <1>3, <1>6, Moved DEF Live, Working, PreClaim
<1>7. ASSUME NEW o \in Options, Acquire(t, o)
      PROVE  TierInv'
  <2> DEFINE n == [Fresh(o) EXCEPT !.pc = "acquired"]
  <2>1. n.pc = "acquired"
    BY DEF Fresh
  <2>2. Become(t, n) /\ s.pc \in PreClaim
    BY <1>7 DEF Acquire, PreClaim
  <2>3. n.pc \notin Live
    BY <2>1 DEF Live, Working
  <2> HIDE DEF n
  <2> QED
    BY <1>3, <2>2, <2>3
<1>8. CASE ReadRecord(t)
  <2>1. s.pc \in PreClaim
    BY <1>8 DEF ReadRecord, PreClaim
  <2>2. ASSUME NEW pc \in {"claim", "start"}, Become(t, To(t, pc))
        PROVE  TierInv'
    <3>1. To(t, pc).pc = pc /\ pc \notin Live
      BY <1>2, Moved DEF Live, Working
    <3> QED
      BY <1>3, <2>1, <2>2, <3>1
  <2> QED
    BY <1>2, <1>6, <1>8, <2>2 DEF ReadRecord
<1>9. CASE CheckBudget(t)
  <2>1. s.pc = "handler" /\ s.pc \in Live
    BY <1>9 DEF CheckBudget, Live, Working
  <2>2. Handler(t) \in {"unit", "finish"}
    BY DEF Handler
  <2> QED
    BY <1>2, <1>5, <1>6, <1>9, <2>1, <2>2 DEF CheckBudget
<1>10. CASE ApplyUnit(t) \/ UnitFails(t)
  <2>1. s.pc = "unit" /\ s.pc \in Live
    BY <1>10 DEF ApplyUnit, UnitFails, Live, Working
  <2>2. s.at \in Strategies
    BY <2>1, SessionFacts DEF Good, AtStrategy
  <2>3. PICK f \in {To(t, "checkpoint"), FailAt(t, s.at, "loop"), FailAt(t, s.at, "failing")} :
           Become(t, f) \/ Become(t, [f EXCEPT !.late = Late(t)])
    BY <1>10 DEF ApplyUnit, UnitFails
  <2> DEFINE n == IF Become(t, f) THEN f ELSE [f EXCEPT !.late = Late(t)]
  <2>4. /\ f \in Session /\ f.pc \in {"checkpoint", "loop", "failing"}
        /\ f.local = r /\ f.opt = s.opt
    <3>1. CASE f = To(t, "checkpoint")
      BY <1>2, <3>1, Moved, SessionFacts
    <3>2. ASSUME NEW pc \in {"loop", "failing"}, f = FailAt(t, s.at, pc)
          PROVE  /\ f \in Session /\ f.pc = pc /\ f.local = r /\ f.opt = s.opt
      BY <1>2, <2>2, <3>2, Moved, SessionFacts
    <3> QED
      BY <2>3, <3>1, <3>2
  <2>5. n.pc = f.pc /\ n.local = r /\ n.opt = s.opt
    BY <2>4 DEF Session
  <2>6. Become(t, n)
    BY <2>3
  <2> HIDE DEF n
  <2> QED
    BY <1>4, <2>1, <2>4, <2>5, <2>6
<1>11. CASE LoopEnds(t)
  <2>1. s.pc = "loop" /\ s.pc \in Live
    BY <1>11 DEF LoopEnds, Live, Working
  <2>2. /\ PhaseTells(r, tierRuns) /\ r.phase # "completed" /\ r.opt = s.opt
        /\ r.phase \in Phases
    BY <1>1, <2>1, TierTypes DEF TierCopy
  <2>3. CASE Become(t, To(t, "failing"))
    BY <1>2, <1>5, <2>1, <2>3
  <2>4. CASE Become(t, FailAt(t, 0, "failing"))
    <3>1. /\ FailAt(t, 0, "failing").pc = "failing" /\ FailAt(t, 0, "failing").local = r
          /\ FailAt(t, 0, "failing").opt = s.opt
      BY <1>2, Moved
    <3> QED
      BY <1>4, <2>1, <2>4, <3>1
  <2>5. CASE Become(t, To(t, "completing")) /\ LoopSucceeded(t)
             /\ (~AutoTier[s.opt] \/ r.phase = "auto_tier_completed")
    <3>1. Finalized(r, tierRuns)
      BY <2>2, <2>5 DEF Finalized, PhaseTells, LoopSucceeded
    <3> QED
      BY <1>2, <1>5, <2>1, <2>5, <3>1
  <2>6. CASE Become(t, To(t, "tier_start")) /\ LoopSucceeded(t)
             /\ ~TierUnknown(t) /\ r.phase # "auto_tier_completed"
    <3>1. r.phase = "work" /\ Requested[s.opt] \subseteq r.done
      BY <2>2, <2>6 DEF TierUnknown, LoopSucceeded, Phases
    <3> QED
      BY <1>2, <1>5, <2>1, <2>6, <3>1
  <2> QED
    BY <1>11, <2>3, <2>4, <2>5, <2>6 DEF LoopEnds
<1>12. CASE ReadBack(t)
  BY <1>2, <1>6, <1>12 DEF ReadBack
<1>13. CASE TotalTimeout(t)
  BY <1>2, <1>6, <1>13 DEF TotalTimeout
<1>14. CASE Interrupt(t)
  <2>1. s.pc \in {"handler", "unit", "tier_run"} => s.pc \in Live
    BY DEF Live, Working
  <2> QED
    BY <1>2, <1>5, <1>6, <1>14, <2>1 DEF Interrupt
<1>15. CASE Close(t) \/ Crash(t)
  <2>1. PICK o : Become(t, Gone(t, o))
    BY <1>15 DEF Close, Crash
  <2>2. Gone(t, o).pc = "closed"
    BY DEF Gone, Fresh
  <2> QED
    BY <1>3, <2>1, <2>2 DEF Live, Working, PreClaim
<1>16. CASE Heartbeat(t)
  <2> DEFINE n == [s EXCEPT !.lost = TRUE]
  <2>1. Become(t, n) /\ s.pc \in Live
    BY <1>16 DEF Heartbeat, Live
  <2>2. n.pc = s.pc /\ n.local = r /\ n.opt = s.opt
    BY <1>1 DEF Session
  <2> HIDE DEF n
  <2>3. TierCopy(n, tierRuns)
    BY <1>1, <2>2 DEF TierCopy
  <2> QED
    BY <1>1, <2>1, <2>2, <2>3, TierStay
<1> QED
  BY <1>7, <1>8, <1>9, <1>10, <1>11, <1>12, <1>13, <1>14, <1>15, <1>16

\* The auto-tier is executed: by the one session that is at it.
LEMMA TierRuns ==
  ASSUME IInv, TierInv, NEW t \in Tokens, RunAutoTier(t)
  PROVE  TierInv'
<1> DEFINE s == sess[t]
           run == sess[t].local.run
<1>1. s.pc = "tier_run" /\ s.pc \in Live /\ run \in Tokens /\ s.pc \notin PreClaim
  BY LiveFacts DEF RunAutoTier, Live, Working, PreClaim
<1>2. PICK n \in {To(t, "tier_done"), FailAt(t, 0, "failing"), To(t, "pausing")} :
         Become(t, n)
  BY DEF RunAutoTier
<1>3. /\ n.pc \in {"tier_done", "failing", "pausing"}
      /\ n.local = s.local /\ n.opt = s.opt
  <2>1. {"tier_done", "failing", "pausing"} \subseteq PCs
    BY DEF PCs, Working
  <2> QED
    BY <1>2, <2>1, Moved
<1>4. /\ tierRuns \in [Tokens -> Nat] /\ rec' = rec
      /\ tierRuns' = [tierRuns EXCEPT ![run] = @ + 1]
      /\ sess \in [Tokens -> Session] /\ sess' = [sess EXCEPT ![t] = n]
  BY <1>2 DEF RunAutoTier, IInv, OtherTypes, Become
<1>5. /\ sess'[t] = n /\ \A u \in Tokens \ {t} : sess'[u] = sess[u]
      /\ tierRuns[run] = 0 /\ tierRuns'[run] = 1
      /\ \A x \in Tokens \ {run} : tierRuns'[x] = tierRuns[x]
      /\ \A x \in Tokens : tierRuns[x] \in Nat /\ tierRuns[x] <= tierRuns'[x]
  BY <1>1, <1>4 DEF TierInv, TierCopy
<1>6. Engaged(run) /\ \A x \in Tokens : Engaged(x)' => Engaged(x)
  <2>1. Engaged(run)
    BY <1>1 DEF Engaged
  <2>2. ASSUME NEW x \in Tokens, Engaged(x)'
        PROVE  Engaged(x)
    BY <1>3, <1>5, <2>1, <2>2 DEF Engaged
  <2> QED
    BY <2>1, <2>2
<1>7. ASSUME NEW r \in RunRecord, r.run \in Tokens \/ r.phase = "work"
      PROVE  PhaseTells(r, tierRuns) => PhaseTells(r, tierRuns')
  BY <1>5, <1>7 DEF PhaseTells
<1>8. ASSUME NEW r \in RunRecord, r.run \in Tokens
      PROVE  Finalized(r, tierRuns) => Finalized(r, tierRuns')
  BY <1>5, <1>8 DEF Finalized
<1>9. TierRow(rec, tierRuns)'
  <2>1. /\ rec \in RunRecord
        /\ rec.run \in Tokens \/ rec.phase = "work"
        /\ rec.status = "completed" => rec.run \in Tokens
    BY TierTypes DEF IInv, RowOK, RunRecord, TierInv
  <2>2. PhaseTells(rec, tierRuns')
    BY <1>7, <2>1 DEF TierInv, TierRow
  <2>3. rec.status = "completed" => Finalized(rec, tierRuns')
    BY <1>8, <2>1 DEF TierInv, TierRow
  <2> QED
    BY <1>4, <2>2, <2>3 DEF TierInv, TierRow
<1>10. TierShows'
  <2>1. SUFFICES ASSUME rec.run \in Tokens, Engaged(rec.run)'
                 PROVE  /\ rec.phase # "work"
                        /\ \A u \in Tokens : rec.owner = u /\ sess'[u].pc \in Live
                              => sess'[u].local.phase # "work"
    BY <1>4 DEF TierShows
  <2>2. /\ rec.phase # "work"
        /\ \A u \in Tokens : rec.owner = u /\ sess[u].pc \in Live
              => sess[u].local.phase # "work"
    <3>1. Engaged(rec.run)
      BY <1>4, <1>6, <2>1 DEF Engaged
    <3> QED
      BY <2>1, <3>1 DEF TierInv, TierShows
  <2>3. ASSUME NEW u \in Tokens, rec.owner = u, sess'[u].pc \in Live
        PROVE  sess'[u].local.phase # "work"
    <3>1. CASE u = t
      BY <1>1, <1>3, <1>5, <2>2, <2>3, <3>1
    <3>2. CASE u # t
      BY <1>5, <2>2, <2>3, <3>2
    <3> QED
      BY <3>1, <3>2
  <2> QED
    BY <2>2, <2>3
<1>11. OneAtTier'
  BY <1>3, <1>5 DEF TierInv, OneAtTier
<1>12. ASSUME NEW u \in Tokens
       PROVE  /\ tierRuns'[u] <= 1
              /\ TierCopy(sess'[u], tierRuns')
              /\ sess'[u].pc \in PreClaim => Unstarted(u)'
  <2>1. tierRuns'[u] <= 1
    BY <1>5 DEF TierInv
  <2>2. TierCopy(sess'[u], tierRuns')
    <3>1. CASE u = t
      <4>1. PhaseTells(s.local, tierRuns) => PhaseTells(s.local, tierRuns')
        BY <1>1, <1>7, TierTypes
      <4> QED
        BY <1>1, <1>3, <1>5, <3>1, <4>1 DEF TierInv, TierCopy
    <3>2. CASE u # t /\ sess[u].pc \in Live
      <4>1. /\ sess[u].local \in RunRecord /\ sess[u].local.run \in Tokens
        BY <3>2, TierTypes
      <4>2. /\ PhaseTells(sess[u].local, tierRuns) => PhaseTells(sess[u].local, tierRuns')
            /\ Finalized(sess[u].local, tierRuns) => Finalized(sess[u].local, tierRuns')
        BY <1>7, <1>8, <4>1
      <4>3. sess[u].pc = "tier_run" => sess[u].local.run # run
        BY <1>1, <3>2 DEF TierInv, OneAtTier
      <4>4. TierCopy(sess[u], tierRuns)
        BY DEF TierInv
      <4> QED
        BY <1>5, <3>2, <4>1, <4>2, <4>3, <4>4 DEF TierCopy
    <3>3. CASE u # t /\ sess[u].pc \notin Live
      BY <1>5, <3>3 DEF TierCopy
    <3> QED
      BY <3>1, <3>2, <3>3
  <2>3. ASSUME sess'[u].pc \in PreClaim
        PROVE  Unstarted(u)'
    <3>1. u # t /\ sess[u].pc \in PreClaim
      BY <1>3, <1>5, <2>3 DEF PreClaim
    <3>2. Unstarted(u) /\ u # run
      BY <1>1, <3>1 DEF TierInv, Unstarted
    <3> QED
      BY <1>1, <1>3, <1>5, <3>2 DEF Unstarted
  <2> QED
    BY <2>1, <2>2, <2>3
<1> QED
  BY <1>4, <1>9, <1>10, <1>11, <1>12 DEF TierInv

\* The row changes hands, or makes way for a new run.
LEMMA TierOpens ==
  ASSUME IInv, TierInv, NEW t \in Tokens, Claim(t) \/ Start(t),
         TakenOver => sess[rec'.owner].opt = rec.opt
  PROVE  TierInv'
<1> DEFINE s == sess[t]
<1>1. /\ s \in Session /\ s.pc \in PreClaim /\ Linked(t, s, rec)
      /\ rec \in RunRecord /\ tierRuns' = tierRuns
      /\ RowOK(rec, applied, finished) /\ Unstarted(t) /\ tierRuns \in [Tokens -> Nat]
      /\ TierRow(rec, tierRuns)
  BY SessionFacts, TierTypes DEF IInv, Claim, Start, PreClaim, TierInv
<1>2. rec.owner # t /\ rec.run # t
  BY <1>1 DEF Linked
<1>3. {"resume", "loop"} \subseteq PCs /\ "blocked" \in Outcomes
  BY DEF PCs, Opening, Working, Outcomes
<1>4. /\ End(t, "blocked").pc = "closing" /\ "closing" \notin Live /\ "closing" \notin PreClaim
      /\ "resume" \notin PreClaim /\ "loop" \notin PreClaim
  BY <1>3, Moved DEF Live, Working, PreClaim
<1>5. "tier_run" \in Live /\ "tier_run" # "closing"
  BY DEF Live, Working
\* Whatever the new row is, as long as it is a run of which enough is known.
<1>6. ASSUME NEW st, st.run \in Tokens, st.owner = t, rec' = st,
             TierRow(st, tierRuns),
             Engaged(st.run) => st.phase # "work",
             \A u \in Tokens \ {t} : sess[u].pc \in PreClaim => st.run # u,
             NEW n, Become(t, n),
             \/ n.pc \in {"resume", "loop"} /\ n.local = st /\ n.opt = st.opt
                /\ st.phase # "completed"
             \/ n.pc = "closing"
      PROVE  TierInv'
  <2>1. sess \in [Tokens -> Session] /\ sess' = [sess EXCEPT ![t] = n]
    BY <1>6 DEF IInv, OtherTypes, Become
  <2>2. sess'[t] = n /\ \A u \in Tokens \ {t} : sess'[u] = sess[u]
    BY <2>1
  <2>3. n.pc \notin PreClaim /\ n.pc # "tier_run"
    BY <1>4, <1>6
  <2>4. \A x : Engaged(x)' => Engaged(x)
    BY <1>1, <2>2, <2>3 DEF Engaged
  <2>5. TierRow(rec, tierRuns)'
    BY <1>1, <1>6 DEF TierRow, PhaseTells, Finalized
  <2>6. TierCopy(n, tierRuns)
    BY <1>4, <1>6 DEF TierCopy, TierRow
  <2>7. TierShows'
    <3>1. SUFFICES ASSUME Engaged(st.run)'
                   PROVE  /\ st.phase # "work"
                          /\ \A u \in Tokens :
                                st.owner = u /\ sess'[u].pc \in Live
                                => sess'[u].local.phase # "work"
      BY <1>6 DEF TierShows
    <3>2. st.phase # "work"
      BY <1>6, <2>4, <3>1
    <3> QED
      BY <1>4, <1>6, <2>2, <3>2
  <2>8. OneAtTier'
    BY <2>2, <2>3 DEF TierInv, OneAtTier
  <2>9. ASSUME NEW u \in Tokens
        PROVE  /\ tierRuns'[u] <= 1
               /\ TierCopy(sess'[u], tierRuns')
               /\ sess'[u].pc \in PreClaim => Unstarted(u)'
    <3>1. tierRuns'[u] <= 1 /\ TierCopy(sess'[u], tierRuns')
      BY <1>1, <2>2, <2>6 DEF TierInv
    <3>2. ASSUME sess'[u].pc \in PreClaim
          PROVE  Unstarted(u)'
      <4>1. u # t /\ Unstarted(u)
        BY <2>2, <2>3, <3>2 DEF TierInv
      <4>2. n.pc \in Live => n.local.run # u
        BY <1>4, <1>6, <2>2, <3>2, <4>1
      <4> QED
        BY <1>1, <2>2, <4>1, <4>2 DEF Unstarted
    <3> QED
      BY <3>1, <3>2
  <2> QED
    BY <1>6, <2>5, <2>7, <2>8, <2>9, ConstantsAssumption DEF TierInv
<1>7. ASSUME NEW pc \in {"resume", "loop"}, NEW st
      PROVE  /\ Holding(To(t, pc), st).pc = pc
             /\ Holding(To(t, pc), st).local = st
             /\ Holding(To(t, pc), st).opt = s.opt
  <2>1. To(t, pc) \in Session /\ To(t, pc).pc = pc /\ To(t, pc).opt = s.opt
    BY <1>3, Moved, SessionFacts
  <2> QED
    BY <2>1 DEF Holding, Session
<1>8. CASE Claim(t) /\ Claimable
  <2> DEFINE st == Claimed(t)
  <2>1. rec' = st /\ rec.status \in Incomplete /\ rec.run \in Tokens
    BY <1>1, <1>8 DEF Claim, Claimable, RowOK, Incomplete
  <2>2. /\ st.run = rec.run /\ st.owner = t /\ st.opt = rec.opt /\ st.done = rec.done
        /\ st.phase = rec.phase /\ st.status = rec.status
    BY <1>1 DEF Claimed, RunRecord
  <2>3. s.opt = rec.opt
    BY <1>2, <2>1, <2>2 DEF TakenOver
  <2>4. TierRow(st, tierRuns) /\ st.phase # "completed"
    BY <1>1, <2>1, <2>2 DEF TierRow, PhaseTells, Finalized, Incomplete
  <2>5. Engaged(st.run) => st.phase # "work"
    BY <2>1, <2>2 DEF TierInv, TierShows
  <2>6. \A u \in Tokens \ {t} : sess[u].pc \in PreClaim => st.run # u
    BY <2>2 DEF IInv, Linked
  <2> HIDE DEF st
  <2>7. CASE Become(t, Holding(To(t, "resume"), st))
    BY <1>6, <1>7, <2>1, <2>2, <2>3, <2>4, <2>5, <2>6, <2>7
  <2>8. CASE Become(t, End(t, "blocked"))
    BY <1>4, <1>6, <2>1, <2>2, <2>4, <2>5, <2>6, <2>8
  <2> QED
    BY <1>8, <2>7, <2>8 DEF Claim, st
<1>9. CASE Claim(t) /\ ~Claimable
  <2>1. Become(t, End(t, "blocked")) /\ rec' = rec
    BY <1>9 DEF Claim
  <2>2. TierCopy(End(t, "blocked"), tierRuns)
    BY <1>4 DEF TierCopy
  <2> QED
    BY <1>1, <1>4, <2>1, <2>2, TierStay
<1>10. CASE Start(t)
  <2> DEFINE st == NewRun(t)
  <2>1. rec' = st
    BY <1>10 DEF Start
  <2>2. /\ st.run = t /\ st.owner = t /\ st.opt = s.opt /\ st.done = {}
        /\ st.phase = "work" /\ st.status = "running"
    BY DEF NewRun, Blank
  <2>3. TierRow(st, tierRuns) /\ st.phase # "completed"
    BY <2>2 DEF TierRow, PhaseTells
  <2>4. ~Engaged(st.run)
    BY <1>1, <1>5, <2>2 DEF Unstarted, Engaged
  <2> HIDE DEF st
  <2>5. CASE Become(t, Holding(To(t, "loop"), st))
    BY <1>6, <1>7, <2>1, <2>2, <2>3, <2>4, <2>5
  <2>6. CASE Become(t, End(t, "blocked"))
    BY <1>4, <1>6, <2>1, <2>2, <2>3, <2>4, <2>6
  <2> QED
    BY <1>10, <2>5, <2>6 DEF Start, st
<1> QED
  BY <1>8, <1>9, <1>10

LEMMA InitTierInv == Init => TierInv
<1>1. SUFFICES ASSUME Init PROVE TierInv
  OBVIOUS
<1>2. PICK o \in Options : rec = Blank(o) /\ sess = NoSessions(o)
  BY <1>1 DEF Init
<1>3. tierRuns = [t \in Tokens |-> 0]
  BY <1>1 DEF Init
<1>4. rec.phase = "work" /\ rec.status = "absent" /\ rec.run = NoToken
  BY <1>2 DEF Blank
<1>5. \A t \in Tokens : sess[t].pc = "idle"
  BY <1>2 DEF NoSessions, Fresh
<1>6. "idle" \notin Live /\ "idle" # "tier_run"
  BY DEF Live, Working
<1>7. TierRow(rec, tierRuns)
  BY <1>4 DEF TierRow, PhaseTells
<1>8. TierShows /\ OneAtTier
  BY <1>4, <1>5, ConstantsAssumption DEF TierShows, OneAtTier
<1>9. \A t \in Tokens : TierCopy(sess[t], tierRuns) /\ Unstarted(t)
  BY <1>3, <1>5, <1>6 DEF TierCopy, Unstarted
<1> QED
  BY <1>3, <1>4, <1>7, <1>8, <1>9 DEF TierInv

LEMMA TierInvariant == Spec /\ ClaimantHasSameOptions => []TierInv
<1> DEFINE SameOptions == TakenOver => sess[rec'.owner].opt = rec.opt
<1>1. IInv /\ TierInv /\ [Next]_vars /\ [SameOptions]_vars => TierInv'
  <2> SUFFICES ASSUME IInv, TierInv, [Next]_vars, [SameOptions]_vars PROVE TierInv'
    OBVIOUS
  <2>1. ASSUME NEW t \in Tokens, \/ \E o \in Options : Acquire(t, o)
                                 \/ Step(t) /\ ~Claim(t) /\ ~Start(t)
                                 \/ TotalTimeout(t) \/ UnitFails(t)
                                 \/ Heartbeat(t) \/ Interrupt(t) \/ Crash(t)
        PROVE  TierInv'
    BY <2>1, TierSaves, TierQuiet, TierRuns DEF Step
  <2>2. ASSUME NEW t \in Tokens, Claim(t) \/ Start(t)
        PROVE  TierInv'
    <3>1. CASE SameOptions
      BY <2>2, <3>1, TierOpens
    <3>2. CASE UNCHANGED vars
      <4>1. ~TakenOver
        BY <3>2 DEF TakenOver, vars
      <4> QED
        BY <2>2, <4>1, TierOpens
    <3> QED
      BY <3>1, <3>2
  <2>3. CASE LeaseExpires \/ AllClosed \/ UNCHANGED vars
    <3>1. rec' = rec /\ sess' = sess /\ tierRuns' = tierRuns
      BY <2>3 DEF LeaseExpires, AllClosed, vars
    <3> QED
      BY <3>1 DEF TierInv, TierRow, TierShows, OneAtTier, Unstarted, Engaged
  <2> QED
    BY <2>1, <2>2, <2>3 DEF Next, Step
<1> QED
  BY InitTierInv, <1>1, InvariantHolds, PTL DEF Spec, ClaimantHasSameOptions

\* The auto-tier is executed at most once for a run, whatever crashes, lost
\* acknowledgements and takeovers there are, provided that whoever resumes the
\* run asks for the options it was started with.
THEOREM AutoTierOnce ==
  Spec /\ ClaimantHasSameOptions => []AutoTierAtMostOnce
<1>1. TierInv => AutoTierAtMostOnce
  BY DEF TierInv, AutoTierAtMostOnce
<1> QED
  BY <1>1, TierInvariant, PTL

\* Under the same condition a completed row has everything its run requested,
\* and with auto-tier on the auto-tier was executed before.
THEOREM CompletionIsComplete ==
  Spec /\ ClaimantHasSameOptions => []CompletedMeansAll
<1>1. TierInv => CompletedMeansAll
  BY DEF TierInv, TierRow, Finalized, CompletedMeansAll
<1> QED
  BY <1>1, TierInvariant, PTL

-----------------------------------------------------------------------------
(* The durable run implements the promise of DurableRun: what the steps do  *)
(* to the row and to the copies, the saves first, then the steps that leave *)
(* the row alone, then those that open a run.                               *)

\* The steps that save the copy of a session.
Saves(t) ==
    \/ ResumeSave(t) \/ NextStrategy(t) \/ CheckpointUnit(t) \/ CompleteStrategy(t)
    \/ TierStarted(t) \/ TierCompleted(t) \/ FailRun(t) \/ PauseRun(t)
    \/ CompleteRun(t)

\* The steps of a session that leave the row alone.
Aside(t) ==
    \/ \E o \in Options : Acquire(t, o)
    \/ ReadRecord(t) \/ CheckBudget(t) \/ ApplyUnit(t) \/ UnitFails(t)
    \/ LoopEnds(t) \/ RunAutoTier(t) \/ ReadBack(t) \/ Close(t)
    \/ TotalTimeout(t) \/ Heartbeat(t) \/ Interrupt(t) \/ Crash(t)

\* The identity of a copy, which no save changes.
Alike(r, q) == r.owner = q.owner /\ r.run = q.run /\ r.opt = q.opt

\* The owner of the row has a copy with the options of the row.
OptInv ==
    \A t \in Tokens :
        sess[t].pc \in Live /\ rec.owner = t => rec.opt = sess[t].local.opt

LEMMA SavedAs ==
  ASSUME NEW t \in Tokens, sess[t] \in Session, NEW st, Alike(st, sess[t].local),
         NEW ok \in Session, NEW errs \in SUBSET Session, NEW f,
         \A e \in errs \cup {ok} : e.pc \notin PreClaim,
         Save(t, st, ok, errs, f)
  PROVE  \E n : /\ Become(t, n) /\ n.pc \notin PreClaim
                /\ Alike(n.local, sess[t].local)
                /\ \/ rec' = rec
                   \/ rec.owner = t /\ rec' = n.local
<1>1. \A e \in Session : Holding(e, st).pc = e.pc /\ Holding(e, st).local = st
  BY DEF Holding, Session
<1>2. /\ Holding(LostEnd(t, f), st).pc = "closing"
      /\ Holding(LostEnd(t, f), st).local = st
  BY DEF Holding, Session, LostEnd, End
<1>3. "closing" \notin PreClaim
  BY DEF PreClaim
<1>4. CASE Become(t, Holding(LostEnd(t, f), st)) /\ rec' = rec
  BY <1>2, <1>3, <1>4
<1>5. CASE \E e \in errs \cup {ok} : /\ Become(t, Holding(e, st))
                                    /\ \/ rec' = rec
                                       \/ rec.owner = t /\ rec' = st
  BY <1>1, <1>5
<1>6. CASE ~sess[t].lost /\ OwnsRow(t) /\ rec' = st /\ Become(t, Holding(ok, st))
  BY <1>5, <1>6 DEF OwnsRow
<1>7. CASE /\ \/ OwnsRow(t) /\ rec' = st /\ Note(st)
              \/ UNCHANGED <<rec, finished>>
           /\ \E e \in errs : Become(t, Holding(e, st))
  BY <1>5, <1>7 DEF OwnsRow
<1> QED
  BY <1>4, <1>6, <1>7 DEF Save

LEMMA SaveShape ==
  ASSUME IInv, NEW t \in Tokens, Saves(t)
  PROVE  /\ sess[t].pc \in Live /\ UNCHANGED <<applied, tierRuns>>
         /\ \E n : /\ Become(t, n) /\ n.pc \notin PreClaim
                   /\ Alike(n.local, sess[t].local)
                   /\ \/ rec' = rec
                      \/ rec.owner = t /\ rec' = n.local
<1> DEFINE s == sess[t]
           Shape == \E n : /\ Become(t, n) /\ n.pc \notin PreClaim
                           /\ Alike(n.local, s.local)
                           /\ \/ rec' = rec
                              \/ rec.owner = t /\ rec' = n.local
<1>1. s.pc \in Live /\ UNCHANGED <<applied, tierRuns>>
  BY DEF Saves, ResumeSave, NextStrategy, CheckpointUnit, CompleteStrategy,
         TierStarted, TierCompleted, FailRun, PauseRun, CompleteRun, Live, Working
<1> SUFFICES Shape
  BY <1>1
<1>2. s \in Session /\ s.local \in RunRecord /\ s.pc \notin PreClaim
  BY <1>1, SessionFacts, LiveFacts DEF Live, Working, PreClaim
<1>3. /\ \A x : Alike(SetStatus(s.local, x), s.local) /\ Alike(SetPhase(s.local, x), s.local)
      /\ \A x, c : Alike(Advance(s.local, x, c), s.local) /\ Alike(Completed(s.local, x), s.local)
      /\ Alike(SetPhase(SetStatus(s.local, "completed"), "completed"), s.local)
  BY <1>2 DEF Alike, SetStatus, SetPhase, Advance, Completed, RunRecord
<1>4. {"loop", "handler", "tier_run", "completing", "pausing", "failing", "readback"}
         \subseteq PCs \ PreClaim
  BY DEF PCs, Working, PreClaim
<1>5. /\ \A pc \in PCs \ PreClaim : To(t, pc) \in Session /\ To(t, pc).pc \notin PreClaim
      /\ \A pc \in PCs \ PreClaim, x \in Strategies \cup {0} :
            FailAt(t, x, pc) \in Session /\ FailAt(t, x, pc).pc \notin PreClaim
      /\ \A o \in Outcomes : End(t, o) \in Session /\ End(t, o).pc \notin PreClaim
  <2>1. "closing" \notin PreClaim
    BY DEF PreClaim
  <2> QED
    BY <1>1, <2>1, Successors
<1>6. {"blocked", "failed", "paused", "completed", "completion_unconfirmed"}
         \subseteq Outcomes
  BY DEF Outcomes
<1>7. ASSUME NEW st, Alike(st, s.local), NEW ok \in Session, NEW errs \in SUBSET Session,
             NEW f, \A e \in errs \cup {ok} : e.pc \notin PreClaim,
             Save(t, st, ok, errs, f)
      PROVE  Shape
  BY <1>2, <1>7, SavedAs
<1> HIDE DEF Shape
<1>8. CASE ResumeSave(t)
  <2> DEFINE st == SetStatus(s.local, "running")
             ok == [To(t, "loop") EXCEPT !.finOnly = Requested[s.opt] \subseteq st.done]
  <2>1. Save(t, st, ok, {End(t, "blocked")}, "blocked")
    BY <1>8 DEF ResumeSave
  <2>2. To(t, "loop") \in Session /\ To(t, "loop").pc \notin PreClaim
    BY <1>4, <1>5
  <2>3. ok \in Session /\ ok.pc \notin PreClaim
    BY <2>2 DEF Session
  <2>4. {End(t, "blocked")} \in SUBSET Session /\ End(t, "blocked").pc \notin PreClaim
    BY <1>5, <1>6
  <2>5. Alike(st, s.local)
    BY <1>3
  <2> HIDE DEF st, ok
  <2> QED
    BY <1>7, <2>1, <2>3, <2>4, <2>5
<1>9. CASE NextStrategy(t)
  <2>1. PICK x \in Remaining(t) :
          LET here == [To(t, "handler") EXCEPT !.at = x]
              skip == [FailAt(t, x, "loop") EXCEPT !.at = x]
          IN  IF s.local.cursor[x] = NoState
              THEN Save(t, Advance(s.local, x, 0), here, {skip, To(t, "pausing")}, "lease_lost")
              ELSE Become(t, here) /\ UNCHANGED <<rec, finished, faults>>
    BY <1>9 DEF NextStrategy
  <2>2. x \in Strategies
    BY <1>2, <2>1, ConstantsAssumption DEF Remaining, Session
  <2> DEFINE here == [To(t, "handler") EXCEPT !.at = x]
             skip == [FailAt(t, x, "loop") EXCEPT !.at = x]
  <2>3. /\ To(t, "handler") \in Session /\ To(t, "handler").pc \notin PreClaim
        /\ FailAt(t, x, "loop") \in Session /\ FailAt(t, x, "loop").pc \notin PreClaim
        /\ To(t, "pausing") \in Session /\ To(t, "pausing").pc \notin PreClaim
        /\ To(t, "handler").local = s.local
    BY <1>1, <1>4, <1>5, <2>2, Successors
  <2>4. /\ here \in Session /\ here.pc \notin PreClaim /\ here.local = s.local
        /\ skip \in Session /\ skip.pc \notin PreClaim
    BY <2>2, <2>3, ConstantsAssumption DEF Session, Strategies
  <2> HIDE DEF here, skip
  <2>5. CASE Become(t, here) /\ rec' = rec
    BY <2>4, <2>5 DEF Shape, Alike
  <2>6. CASE Save(t, Advance(s.local, x, 0), here, {skip, To(t, "pausing")}, "lease_lost")
    BY <1>3, <1>7, <2>3, <2>4, <2>6
  <2> QED
    BY <2>1, <2>5, <2>6 DEF here, skip
<1>10. CASE CheckpointUnit(t) \/ CompleteStrategy(t)
  <2>1. ASSUME NEW st, Alike(st, s.local), NEW pc \in {"handler", "loop"},
               Save(t, st, To(t, pc), {FailAt(t, s.at, "loop"), To(t, "pausing")},
                    "lease_lost")
        PROVE  Shape
    <3>1. s.at \in Strategies
      BY <1>10, SessionFacts DEF CheckpointUnit, CompleteStrategy, Good, AtStrategy
    <3>2. /\ To(t, pc) \in Session /\ To(t, pc).pc \notin PreClaim
          /\ FailAt(t, s.at, "loop") \in Session /\ FailAt(t, s.at, "loop").pc \notin PreClaim
          /\ To(t, "pausing") \in Session /\ To(t, "pausing").pc \notin PreClaim
      BY <1>4, <1>5, <2>1, <3>1
    <3> QED
      BY <1>7, <2>1, <3>2
  <2>2. CASE CheckpointUnit(t)
    BY <1>3, <2>1, <2>2 DEF CheckpointUnit
  <2>3. CASE CompleteStrategy(t)
    BY <1>3, <2>1, <2>3 DEF CompleteStrategy
  <2> QED
    BY <1>10, <2>2, <2>3
<1>11. CASE TierStarted(t) \/ TierCompleted(t)
  <2>1. ASSUME NEW st, Alike(st, s.local), NEW pc \in {"tier_run", "completing"},
               Save(t, st, To(t, pc), {FailAt(t, 0, "failing"), To(t, "pausing")},
                    "lease_lost")
        PROVE  Shape
    <3>1. /\ To(t, pc) \in Session /\ To(t, pc).pc \notin PreClaim
          /\ FailAt(t, 0, "failing") \in Session /\ FailAt(t, 0, "failing").pc \notin PreClaim
          /\ To(t, "pausing") \in Session /\ To(t, "pausing").pc \notin PreClaim
      BY <1>4, <1>5, <2>1
    <3> QED
      BY <1>7, <2>1, <3>1
  <2>2. CASE TierStarted(t)
    BY <1>3, <2>1, <2>2 DEF TierStarted
  <2>3. CASE TierCompleted(t)
    BY <1>3, <2>1, <2>3 DEF TierCompleted
  <2> QED
    BY <1>11, <2>2, <2>3
<1>12. CASE FailRun(t) \/ PauseRun(t) \/ CompleteRun(t)
  <2> DEFINE Ends == {End(t, "failed"), End(t, "paused"), End(t, "completed"),
                      End(t, "completion_unconfirmed"), To(t, "pausing"),
                      To(t, "readback")}
  <2>1. \A e \in Ends : e \in Session /\ e.pc \notin PreClaim
    BY <1>4, <1>5, <1>6
  <2> HIDE DEF Ends
  <2>2. ASSUME NEW st, Alike(st, s.local), NEW ok \in Ends, NEW errs \in SUBSET Ends,
               Save(t, st, ok, errs, "lease_lost")
        PROVE  Shape
    <3>1. errs \in SUBSET Session /\ \A e \in errs \cup {ok} : e.pc \notin PreClaim
      BY <2>1, <2>2
    <3> QED
      BY <1>7, <2>1, <2>2, <3>1
  <2>3. /\ End(t, "failed") \in Ends /\ End(t, "paused") \in Ends /\ End(t, "completed") \in Ends
        /\ {End(t, "failed"), To(t, "pausing")} \in SUBSET Ends
        /\ {End(t, "paused")} \in SUBSET Ends
        /\ {To(t, "readback"), End(t, "completion_unconfirmed")} \in SUBSET Ends
    BY DEF Ends
  <2>4. CASE FailRun(t)
    BY <1>3, <2>2, <2>3, <2>4 DEF FailRun
  <2>5. CASE PauseRun(t)
    BY <1>3, <2>2, <2>3, <2>5 DEF PauseRun
  <2>6. CASE CompleteRun(t)
    BY <1>3, <2>2, <2>3, <2>6 DEF CompleteRun
  <2> QED
    BY <1>12, <2>4, <2>5, <2>6
<1> QED
  BY <1>8, <1>9, <1>10, <1>11, <1>12 DEF Saves

LEMMA AsideShape ==
  ASSUME IInv, NEW t \in Tokens, Aside(t)
  PROVE  /\ rec' = rec
         /\ \E n : /\ Become(t, n)
                   /\ n.pc \in PreClaim => sess[t].pc \in PreClaim
                   /\ n.pc \in Live => sess[t].pc \in Live /\ n.local = sess[t].local
<1> DEFINE s == sess[t]
           Shape == \E n : /\ Become(t, n)
                           /\ n.pc \in PreClaim => s.pc \in PreClaim
                           /\ n.pc \in Live => s.pc \in Live /\ n.local = s.local
<1>1. s \in Session
  BY SessionFacts
<1>2. rec' = rec
  BY DEF Aside, Acquire, ReadRecord, CheckBudget, ApplyUnit, UnitFails, LoopEnds,
         RunAutoTier, ReadBack, Close, TotalTimeout, Heartbeat, Interrupt, Crash
<1> SUFFICES Shape
  BY <1>2
<1>3. /\ \A pc : To(t, pc).pc = pc /\ To(t, pc).local = s.local
      /\ \A x, pc : FailAt(t, x, pc).pc = pc /\ FailAt(t, x, pc).local = s.local
      /\ \A o : End(t, o).pc = "closing" /\ LostEnd(t, o).pc = "closing"
      /\ \A o : Gone(t, o).pc = "closed"
  BY <1>1 DEF To, FailAt, End, LostEnd, Gone, Fresh, Session
<1>4. CASE \E o \in Options : Acquire(t, o)
  <2>1. PICK o \in Options : /\ Become(t, [Fresh(o) EXCEPT !.pc = "acquired"])
                             /\ s.pc = "idle"
    BY <1>4 DEF Acquire
  <2>2. [Fresh(o) EXCEPT !.pc = "acquired"].pc = "acquired"
    BY DEF Fresh
  <2> QED
    BY <2>1, <2>2 DEF PreClaim, Live, Working
<1>5. CASE ReadRecord(t)
  BY <1>3, <1>5 DEF ReadRecord, PreClaim, Live, Working
<1>6. CASE CheckBudget(t) \/ LoopEnds(t) \/ ReadBack(t) \/ TotalTimeout(t)
  BY <1>3, <1>6 DEF CheckBudget, Handler, LoopEnds, ReadBack, TotalTimeout, PreClaim,
                    Live, Working
<1>7. CASE ApplyUnit(t)
  <2> DEFINE n == [To(t, "checkpoint") EXCEPT !.late = Late(t)]
  <2>1. n.pc = "checkpoint" /\ n.local = s.local /\ s.pc = "unit" /\ Become(t, n)
    BY <1>1, <1>3, <1>7 DEF ApplyUnit, To, Session
  <2> QED
    BY <2>1 DEF PreClaim, Live, Working
<1>8. CASE UnitFails(t)
  <2>1. PICK pc \in {"loop", "failing"} :
          \/ Become(t, FailAt(t, s.at, pc))
          \/ Become(t, [FailAt(t, s.at, pc) EXCEPT !.late = Late(t)])
    BY <1>8 DEF UnitFails
  <2>2. PICK n \in {FailAt(t, s.at, pc), [FailAt(t, s.at, pc) EXCEPT !.late = Late(t)]} :
          Become(t, n)
    BY <2>1
  <2>3. n.pc = pc /\ n.local = s.local /\ s.pc = "unit"
    BY <1>1, <1>3, <1>8 DEF UnitFails, FailAt, Session
  <2> QED
    BY <2>2, <2>3 DEF PreClaim, Live, Working
<1>9. CASE RunAutoTier(t)
  BY <1>3, <1>9 DEF RunAutoTier, PreClaim, Live, Working
<1>10. CASE Close(t) \/ Crash(t)
  BY <1>3, <1>10 DEF Close, Crash, PreClaim, Live, Working
<1>11. CASE Heartbeat(t)
  <2> DEFINE n == [s EXCEPT !.lost = TRUE]
  <2>1. n.pc = s.pc /\ n.local = s.local /\ Become(t, n)
    BY <1>1, <1>11 DEF Heartbeat, Session
  <2> QED
    BY <2>1
<1>12. CASE Interrupt(t)
  BY <1>3, <1>12 DEF Interrupt, PreClaim, Live, Working
<1> QED
  BY <1>4, <1>5, <1>6, <1>7, <1>8, <1>9, <1>10, <1>11, <1>12 DEF Aside

\* The row of a run that is opened, and the copy of it.
LEMMA OpeningShape ==
  ASSUME IInv, NEW t \in Tokens, Claim(t) \/ Start(t)
  PROVE  \E n : /\ Become(t, n) /\ n.pc \notin PreClaim
                /\ n.pc \in Live => n.local = rec'
                /\ rec' = rec \/ rec'.owner = t
<1>1. sess[t] \in Session /\ rec \in RunRecord
  BY SessionFacts DEF IInv, RowOK
<1>2. /\ \A o : End(t, o).pc = "closing"
      /\ \A pc, st : Holding(To(t, pc), st).pc = pc /\ Holding(To(t, pc), st).local = st
  BY <1>1 DEF Holding, To, End, Session
<1>3. Claimed(t).owner = t /\ NewRun(t).owner = t
  BY <1>1 DEF Claimed, NewRun, Blank, RunRecord
<1> QED
  BY <1>2, <1>3 DEF Claim, Start, PreClaim, Live, Working

LEMMA OptNext ==
  ASSUME IInv, OptInv, [Next]_vars
  PROVE  OptInv'
<1>1. sess \in [Tokens -> Session]
  BY DEF IInv, OtherTypes
<1>2. ASSUME NEW t \in Tokens, NEW n, Become(t, n),
             rec' = rec \/ rec'.owner = t,
             n.pc \in Live /\ rec'.owner = t => rec'.opt = n.local.opt
      PROVE  OptInv'
  <2>1. sess'[t] = n /\ \A u \in Tokens \ {t} : sess'[u] = sess[u]
    BY <1>1, <1>2 DEF Become
  <2> QED
    BY <1>2, <2>1 DEF OptInv
<1>3. ASSUME NEW t \in Tokens, Saves(t) PROVE OptInv'
  <2>1. PICK n : /\ Become(t, n) /\ n.pc \notin PreClaim
                 /\ Alike(n.local, sess[t].local)
                 /\ \/ rec' = rec
                    \/ rec.owner = t /\ rec' = n.local
    BY <1>3, SaveShape
  <2>2. sess[t].pc \in Live /\ sess[t].local.owner = t
    BY <1>3, SaveShape, LiveFacts
  <2>3. rec' = rec \/ rec'.owner = t
    BY <2>1, <2>2 DEF Alike
  <2>4. n.pc \in Live /\ rec'.owner = t => rec'.opt = n.local.opt
    BY <2>1, <2>2 DEF Alike, OptInv
  <2> QED
    BY <1>2, <2>1, <2>3, <2>4
<1>4. ASSUME NEW t \in Tokens, Aside(t) PROVE OptInv'
  <2>1. PICK n : /\ Become(t, n)
                 /\ n.pc \in PreClaim => sess[t].pc \in PreClaim
                 /\ n.pc \in Live => sess[t].pc \in Live /\ n.local = sess[t].local
    BY <1>4, AsideShape
  <2>2. rec' = rec
    BY <1>4, AsideShape
  <2> QED
    BY <1>2, <2>1, <2>2 DEF OptInv
<1>5. ASSUME NEW t \in Tokens, Claim(t) \/ Start(t) PROVE OptInv'
  <2>1. PICK n : /\ Become(t, n) /\ n.pc \notin PreClaim
                 /\ n.pc \in Live => n.local = rec'
                 /\ rec' = rec \/ rec'.owner = t
    BY <1>5, OpeningShape
  <2> QED
    BY <1>2, <2>1
<1>6. CASE LeaseExpires \/ AllClosed \/ UNCHANGED vars
  BY <1>6 DEF LeaseExpires, AllClosed, vars, OptInv
<1> QED
  BY <1>3, <1>4, <1>5, <1>6 DEF Next, Step, Saves, Aside
-----------------------------------------------------------------------------
(* Every step is one of the promise's, or none. *)

Used == {t \in Tokens : sess[t].pc \notin PreClaim}
Recorded == {i \in Strategies \X (1 .. Units) : i[2] <= rec.cursor[i[1]]}
Written == {<<a[1], <<a[2], a[3]>>>> : a \in applied}
TierTaken == {t \in Tokens : tierRuns[t] > 0}

LEMMA UsedBy ==
  ASSUME IInv, NEW t \in Tokens, NEW n, Become(t, n),
         n.pc \in PreClaim => sess[t].pc \in PreClaim
  PROVE  /\ \/ Used' = Used
            \/ Used' = Used \cup {t}
         /\ sess[t].pc \notin PreClaim => Used' = Used
         /\ n.pc \notin PreClaim => Used' = Used \cup {t}
<1>1. sess'[t] = n /\ \A u \in Tokens \ {t} : sess'[u] = sess[u]
  BY DEF IInv, OtherTypes, Become
<1>2. CASE n.pc \in PreClaim
  <2>1. \A u \in Tokens : sess'[u].pc \notin PreClaim <=> sess[u].pc \notin PreClaim
    BY <1>1, <1>2
  <2> QED
    BY <1>2, <2>1 DEF Used
<1>3. CASE n.pc \notin PreClaim
  <2>1. \A u \in Tokens : sess'[u].pc \notin PreClaim <=> (sess[u].pc \notin PreClaim \/ u = t)
    BY <1>1, <1>3
  <2> QED
    BY <1>3, <2>1 DEF Used
<1> QED
  BY <1>2, <1>3

\* A step that touches neither the run on record nor the histories.
LEMMA RetireOrStutter ==
  ASSUME NEW t \in Tokens, Used' = Used \/ Used' = Used \cup {t},
         rec'.run = rec.run, rec'.opt = rec.opt, rec'.cursor = rec.cursor,
         rec'.status = rec.status, UNCHANGED <<applied, tierRuns>>
  PROVE  Promise!Retire(t) \/ UNCHANGED Promise!vars
<1>1. /\ Recorded' = Recorded /\ Written' = Written /\ TierTaken' = TierTaken
      /\ PlanOf(rec.opt)' = PlanOf(rec.opt)
      /\ (rec.status = "completed")' = (rec.status = "completed")
  BY DEF Recorded, Written, TierTaken, PlanOf
<1> QED
  BY <1>1 DEF Promise!Retire, Promise!vars, Used, PreClaim, Recorded, Written, TierTaken

\* A save, whoever's it is.
LEMMA SaveRecords ==
  ASSUME IInv, TierInv, OptInv, IInv', TierInv', WorkKept,
         NEW t \in Tokens, Saves(t)
  PROVE  Promise!Record \/ UNCHANGED Promise!vars
<1>1. PICK n : /\ Become(t, n) /\ n.pc \notin PreClaim
               /\ Alike(n.local, sess[t].local)
               /\ \/ rec' = rec
                  \/ rec.owner = t /\ rec' = n.local
  BY SaveShape
<1>2. /\ sess[t].pc \in Live /\ sess[t].pc \notin PreClaim
      /\ applied' = applied /\ tierRuns' = tierRuns
  BY SaveShape DEF Live, Working, PreClaim
<1>3. Used' = Used
  BY <1>1, <1>2, UsedBy
<1>4. CASE rec' = rec
  BY <1>2, <1>3, <1>4 DEF Promise!vars, Used, PreClaim, PlanOf
<1>5. CASE rec' # rec
  <2>1. rec'.run = rec.run /\ rec'.opt = rec.opt /\ rec.run \in Tokens
    BY <1>1, <1>2, <1>5, LiveFacts DEF Alike, OptInv, IInv, Linked
  <2>2. rec.status # "completed"
    BY <1>5, <2>1 DEF WorkKept
  <2>3. \A s \in Strategies : /\ rec.cursor[s] \in Int /\ rec'.cursor[s] \in Int
                              /\ rec.cursor[s] <= rec'.cursor[s]
    <3>1. rec.cursor \in [Strategies -> Cursors] /\ rec'.cursor \in [Strategies -> Cursors]
      BY DEF IInv, RowOK, RunRecord
    <3> QED
      BY <2>1, <3>1, ConstantsAssumption DEF WorkKept, Cursors, NoState
  <2>4. Recorded \subseteq Recorded'
    <3> SUFFICES ASSUME NEW i \in Recorded PROVE i \in Recorded'
      OBVIOUS
    <3>1. i \in Strategies \X (1 .. Units) /\ i[2] <= rec.cursor[i[1]]
      BY DEF Recorded
    <3>2. i[1] \in Strategies /\ i[2] \in Int
      BY <3>1
    <3>3. i[2] <= rec'.cursor[i[1]]
      BY <2>3, <3>1, <3>2
    <3> QED
      BY <3>1, <3>3 DEF Recorded
  <2>5. ASSUME NEW i \in Recorded'
        PROVE  i \in Strategies \X (1 .. Units) /\ <<rec.run, i>> \in Written
    <3>1. i \in Strategies \X (1 .. Units) /\ i[2] <= rec'.cursor[i[1]]
      BY DEF Recorded
    <3>2. i[1] \in Strategies /\ i[2] \in 1 .. Units /\ i = <<i[1], i[2]>>
      BY <3>1
    <3>3. Backed(rec', applied)
      BY <1>2, <2>1, ConstantsAssumption DEF IInv, RowOK
    <3>4. <<rec.run, i[1], i[2]>> \in applied
      BY <2>1, <3>1, <3>2, <3>3 DEF Backed
    <3>5. PICK a \in applied : a = <<rec.run, i[1], i[2]>>
      BY <3>4
    <3>6. <<a[1], <<a[2], a[3]>>>> \in Written
      BY DEF Written
    <3>7. a[1] = rec.run /\ a[2] = i[1] /\ a[3] = i[2]
      BY <3>5
    <3> QED
      BY <3>1, <3>2, <3>6, <3>7
  <2>6. ASSUME rec'.status = "completed"
        PROVE  /\ PlanOf(rec.opt).items \subseteq Recorded'
               /\ PlanOf(rec.opt).closing => rec.run \in TierTaken
    <3>1. /\ Requested[rec.opt] \subseteq rec'.done
          /\ AutoTier[rec.opt] => tierRuns[rec.run] >= 1
      BY <1>2, <2>1, <2>6 DEF TierInv, TierRow, Finalized
    <3>2. \A s \in rec'.done : s \in Strategies /\ rec'.cursor[s] = Units
      BY <1>2, <2>1, ConstantsAssumption DEF IInv, RowOK, Backed, RunRecord
    <3>3. \A s \in Requested[rec.opt], u \in 1 .. Units : <<s, u>> \in Recorded'
      BY <3>1, <3>2, ConstantsAssumption DEF Recorded
    <3>4. Requested[rec.opt] \X (1 .. Units) \subseteq Recorded'
      BY <3>3
    <3>5. tierRuns[rec.run] \in Nat
      BY <2>1 DEF IInv, OtherTypes
    <3> QED
      BY <2>1, <3>1, <3>4, <3>5 DEF PlanOf, TierTaken
  <2>7. Promise!Record
    BY <1>2, <1>3, <2>1, <2>2, <2>4, <2>5, <2>6
    DEF Promise!Record, Used, PreClaim, Recorded, Written, TierTaken
  <2> QED
    BY <2>7
<1> QED
  BY <1>4, <1>5

\* The write of a unit; the handler may still raise after it.
LEMMA UnitPerforms ==
  ASSUME IInv, TierInv, NEW t \in Tokens, sess[t].pc = "unit",
         Used' = Used, rec' = rec, tierRuns' = tierRuns,
         applied' = applied \cup {WorkUnit(t)}
  PROVE  \E r \in Tokens, i \in Strategies \X (1 .. Units) : Promise!Perform(r, i)
<1>1. sess[t].pc \in Live /\ sess[t].local.run \in Tokens
  BY LiveFacts DEF Live, Working
<1>2. sess[t].local.run \in Used
  BY <1>1 DEF TierInv, Unstarted, Used
<1>3. /\ sess[t].at \in Strategies
      /\ sess[t].local.cursor[sess[t].at] + 1 \in 1 .. Units
  <2>1. /\ sess[t].at \in Strategies
        /\ sess[t].local.cursor[sess[t].at] \in 0 .. Units
        /\ sess[t].local.cursor[sess[t].at] < Units
    BY SessionFacts DEF Good, AtStrategy
  <2> QED
    BY <2>1, ConstantsAssumption
<1>4. PICK r \in Tokens : r = sess[t].local.run
  BY <1>1
<1>5. PICK i \in Strategies \X (1 .. Units) :
         i = <<sess[t].at, sess[t].local.cursor[sess[t].at] + 1>>
  BY <1>3
<1>6. Written' = Written \cup {<<r, i>>}
  <2>1. Written' = Written \cup {<<WorkUnit(t)[1], <<WorkUnit(t)[2], WorkUnit(t)[3]>>>>}
    BY DEF Written
  <2> QED
    BY <1>4, <1>5, <2>1 DEF WorkUnit
<1>7. Promise!Perform(r, i)
  BY <1>2, <1>4, <1>6 DEF Promise!Perform, Used, PreClaim, Written, PlanOf
<1> QED
  BY <1>7

LEMMA TierCloses ==
  ASSUME IInv, TierInv, NEW t \in Tokens, RunAutoTier(t), Used' = Used
  PROVE  \E r \in Tokens : Promise!Close(r)
<1>1. /\ sess[t].pc \in Live /\ sess[t].pc = "tier_run"
      /\ sess[t].local.run \in Tokens
  BY LiveFacts DEF RunAutoTier, Live, Working
<1>2. PICK r \in Tokens : r = sess[t].local.run
  BY <1>1
<1>3. r \in Used
  BY <1>1, <1>2 DEF TierInv, Unstarted, Used
<1>4. tierRuns \in [Tokens -> Nat] /\ tierRuns[r] = 0
  BY <1>1, <1>2 DEF IInv, OtherTypes, TierInv, TierCopy
<1>5. /\ tierRuns' = [tierRuns EXCEPT ![r] = @ + 1]
      /\ rec' = rec /\ applied' = applied
  BY <1>2 DEF RunAutoTier
<1>6. \A u \in Tokens : tierRuns'[u] > 0 <=> (tierRuns[u] > 0 \/ u = r)
  BY <1>4, <1>5
<1>7. TierTaken' = TierTaken \cup {r} /\ r \notin TierTaken
  BY <1>4, <1>6 DEF TierTaken
<1>8. Promise!Close(r)
  BY <1>3, <1>5, <1>7 DEF Promise!Close, Used, PreClaim, PlanOf, TierTaken
<1> QED
  BY <1>8

LEMMA StartBegins ==
  ASSUME IInv, NEW t \in Tokens, Start(t), Used' = Used \cup {t}
  PROVE  \E p \in {PlanOf(o) : o \in Options} : Promise!Begin(t, p)
<1>1. /\ rec' = NewRun(t) /\ applied' = applied /\ tierRuns' = tierRuns
      /\ t \notin Used
  BY DEF Start, Used, PreClaim
<1>2. sess[t].opt \in Options
  BY SessionFacts DEF Session
<1>3. /\ rec'.run = t /\ rec'.opt = sess[t].opt /\ rec'.status = "running"
      /\ rec'.cursor = [s \in Strategies |-> NoState]
  BY <1>1 DEF NewRun, Blank
<1>4. Recorded' = {}
  BY <1>3, ConstantsAssumption DEF Recorded, NoState
<1>5. PICK p \in {PlanOf(o) : o \in Options} : p = PlanOf(sess[t].opt)
  BY <1>2
<1>6. PlanOf(rec.opt)' = p
  BY <1>3, <1>5 DEF PlanOf
<1>7. Promise!Begin(t, p)
  BY <1>1, <1>3, <1>4, <1>6 DEF Promise!Begin, Used, PreClaim, Recorded
<1> QED
  BY <1>7

LEMMA PromiseInit == Init => Promise!Init
<1> SUFFICES ASSUME Init PROVE Promise!Init
  OBVIOUS
<1>1. PICK o \in Options : rec = Blank(o) /\ sess = NoSessions(o)
  BY DEF Init
<1>2. /\ rec.run = NoToken /\ rec.opt = o /\ rec.status = "absent"
      /\ rec.cursor = [s \in Strategies |-> NoState]
      /\ applied = {} /\ tierRuns = [t \in Tokens |-> 0]
  BY <1>1 DEF Blank, Init
<1>3. \A t \in Tokens : sess[t].pc = "idle"
  BY <1>1 DEF NoSessions, Fresh
<1>4. Recorded = {} /\ Written = {} /\ TierTaken = {} /\ Used = {}
  <2>1. Recorded = {}
    BY <1>2, ConstantsAssumption DEF Recorded, NoState
  <2> QED
    BY <1>2, <1>3, <2>1 DEF Written, TierTaken, Used, PreClaim
<1> QED
  BY <1>2, <1>4 DEF Promise!Init, Used, PreClaim, Recorded, Written, TierTaken

LEMMA PromiseNext ==
  ASSUME IInv, TierInv, OptInv, IInv', TierInv', WorkKept, [Next]_vars
  PROVE  [Promise!Next]_(Promise!vars)
<1>1. ASSUME NEW t \in Tokens, Saves(t) PROVE [Promise!Next]_(Promise!vars)
  BY <1>1, SaveRecords DEF Promise!Next
<1>2. ASSUME NEW t \in Tokens, Aside(t) PROVE [Promise!Next]_(Promise!vars)
  <2>1. PICK n : /\ Become(t, n)
                 /\ n.pc \in PreClaim => sess[t].pc \in PreClaim
    BY <1>2, AsideShape
  <2>2. rec' = rec
    BY <1>2, AsideShape
  <2>3. /\ \/ Used' = Used
           \/ Used' = Used \cup {t}
        /\ sess[t].pc \notin PreClaim => Used' = Used
    BY <2>1, UsedBy
  <2>4. CASE RunAutoTier(t)
    <3>1. Used' = Used
      BY <2>3, <2>4 DEF RunAutoTier, PreClaim
    <3> QED
      BY <2>4, <3>1, TierCloses DEF Promise!Next
  <2>5. CASE /\ sess[t].pc = "unit" /\ tierRuns' = tierRuns
             /\ applied' = applied \cup {WorkUnit(t)}
    <3>1. Used' = Used
      BY <2>3, <2>5 DEF PreClaim
    <3> QED
      BY <2>2, <2>5, <3>1, UnitPerforms DEF Promise!Next
  <2>6. CASE UNCHANGED <<applied, tierRuns>>
    BY <2>2, <2>3, <2>6, RetireOrStutter DEF Promise!Next
  <2> QED
    BY <1>2, <2>4, <2>5, <2>6
    DEF Aside, Acquire, ReadRecord, CheckBudget, ApplyUnit, UnitFails, LoopEnds,
        ReadBack, Close, TotalTimeout, Heartbeat, Interrupt, Crash
<1>3. ASSUME NEW t \in Tokens, Claim(t) \/ Start(t) PROVE [Promise!Next]_(Promise!vars)
  <2>1. PICK n : Become(t, n) /\ n.pc \notin PreClaim
    BY <1>3, OpeningShape
  <2>2. Used' = Used \cup {t}
    BY <2>1, UsedBy
  <2>3. CASE Start(t)
    BY <2>2, <2>3, StartBegins DEF Promise!Next
  <2>4. CASE Claim(t)
    <3>1. /\ rec' = Claimed(t) \/ rec' = rec
          /\ UNCHANGED <<applied, tierRuns>> /\ rec \in RunRecord
      BY <2>4 DEF Claim, IInv, RowOK
    <3>2. /\ rec'.run = rec.run /\ rec'.opt = rec.opt /\ rec'.cursor = rec.cursor
          /\ rec'.status = rec.status
      BY <3>1 DEF Claimed, RunRecord
    <3> QED
      BY <2>2, <3>1, <3>2, RetireOrStutter DEF Promise!Next
  <2> QED
    BY <1>3, <2>3, <2>4
<1>4. CASE LeaseExpires \/ AllClosed \/ UNCHANGED vars
  BY <1>4 DEF LeaseExpires, AllClosed, vars, Promise!vars, PlanOf
<1> QED
  BY <1>1, <1>2, <1>3, <1>4 DEF Next, Step, Saves, Aside

\* The lease, the record and the sessions together are the durable run that
\* DurableRun describes, for every number of invocations, units and faults,
\* provided that whoever resumes a run asks for the options it was started with.
THEOREM RunImplementsPromise ==
  Spec /\ ClaimantHasSameOptions => ImplementsDurableRun
<1>1. Init => OptInv
  <2> SUFFICES ASSUME Init PROVE OptInv
    OBVIOUS
  <2>1. \A t \in Tokens : sess[t].pc = "idle"
    BY DEF Init, NoSessions, Fresh
  <2> QED
    BY <2>1 DEF OptInv, Live, Working
<1>2. IInv /\ OptInv /\ [Next]_vars => OptInv'
  BY OptNext
<1>3. /\ IInv /\ TierInv /\ OptInv /\ IInv' /\ TierInv' /\ [Next]_vars
      => [Promise!Next]_(Promise!vars)
  BY StepIInv, PromiseNext
<1> QED
  BY <1>1, <1>2, <1>3, InvariantHolds, TierInvariant, PromiseInit, PTL
  DEF Spec, ImplementsDurableRun, Promise!Spec
=============================================================================
