-------------------------- MODULE ConsolidationRun --------------------------
(***************************************************************************)
(* The durable consolidation run of one brain: the lease row, the run      *)
(* record, and the sessions (one per ConsolidationEngine.run invocation)   *)
(* that open, execute, pause, fail, complete and close a run over them.    *)
(*                                                                         *)
(* Sources: storage/surrealdb/consolidation_state.py (every query is one   *)
(* atomic step here), engine/consolidation_progress.py (the session) and   *)
(* engine/consolidation.py (run, the strategy loop, the finalization).     *)
(*                                                                         *)
(* A session is identified by its owner token, a fresh uuid; a run that a  *)
(* session starts gets another fresh uuid, and since a session starts at   *)
(* most one run the model names the run by the token that started it.      *)
(* Time is the boolean leaseLive: whether expires_at is still ahead of     *)
(* whoever compares it with the clock.                                     *)
(***************************************************************************)
EXTENDS Integers, FiniteSets

CONSTANTS
    Tokens,       \* owner tokens, one per invocation of the engine
    NoToken,      \* "no row" / "no owner"
    NStrategies,  \* strategies, numbered in the order the tiers dispatch them
    Units,        \* work units of one strategy (a page, a fiber, a group)
    Options,      \* option fingerprints an invocation may come with
    Requested,    \* Requested[o]: the strategies requested under o
    AutoTier,     \* AutoTier[o]: tier_config.auto_enabled under o
    MaxFaults     \* bound on faults, stalls, pauses and cancellations

Strategies == 1 .. NStrategies

ASSUME ConstantsAssumption ==
    /\ NoToken \notin Tokens
    /\ NStrategies \in Nat
    /\ Units \in Nat \ {0}
    /\ Options # {}
    /\ Requested \in [Options -> SUBSET Strategies]
    /\ AutoTier \in [Options -> BOOLEAN]
    /\ MaxFaults \in Nat

VARIABLES
    leaseOwner,   \* owner_token of the consolidation_lease row, or NoToken
    leaseLive,    \* expires_at > now
    rec,          \* the consolidation_progress row
    sess,         \* sess[t]: the invocation whose owner token is t
    applied,      \* history: <<run, strategy, unit>> whose effect was written
    tierRuns,     \* history: tierRuns[r], auto-tier executions for run r
    finished,     \* history: runs whose row has been seen completed
    faults        \* faults so far

vars == <<leaseOwner, leaseLive, rec, sess, applied, tierRuns, finished, faults>>

-----------------------------------------------------------------------------
(* Data *)

Incomplete == {"running", "paused", "failed"}
Statuses == Incomplete \cup {"absent", "completed"}

\* "work" stands for every phase a strategy writes; the finalization reads
\* only the three others.
Phases == {"work", "auto_tier_started", "auto_tier_completed", "completed"}

NoState == -1                       \* strategy_states has no entry
Cursors == NoState .. Units         \* units committed by a strategy

RunRecord ==
    [run    : Tokens \cup {NoToken},
     owner  : Tokens \cup {NoToken},
     opt    : Options,
     status : Statuses,
     done   : SUBSET Strategies,
     cursor : [Strategies -> Cursors],
     phase  : Phases]

Blank(o) ==
    [run |-> NoToken, owner |-> NoToken, opt |-> o, status |-> "absent",
     done |-> {}, cursor |-> [s \in Strategies |-> NoState], phase |-> "work"]

Opening == {"acquired", "claim", "start", "resume"}
Working == {"loop", "handler", "unit", "checkpoint", "finish", "pausing",
            "failing", "tier_start", "tier_run", "tier_done", "completing",
            "readback"}
PCs == {"idle", "closing", "closed"} \cup Opening \cup Working

Outcomes == {"none", "blocked", "paused", "failed", "lease_lost",
             "completed", "completion_unconfirmed"}

Session ==
    [pc      : PCs,
     opt     : Options,
     lost    : BOOLEAN,             \* _lease_lost
     local   : RunRecord,           \* session.state
     finOnly : BOOLEAN,             \* resume_finalization_only
     at      : 0 .. NStrategies,    \* the strategy the loop is at
     failed  : SUBSET (Strategies \cup {0}),  \* failed_strategies, 0: auto_tier
     late    : Nat,                 \* history: units written while fenced out
     outcome : Outcomes]            \* report.extra["consolidation_status"]

Fresh(o) ==
    [pc |-> "idle", opt |-> o, lost |-> FALSE, local |-> Blank(o),
     finOnly |-> FALSE, at |-> 0, failed |-> {}, late |-> 0, outcome |-> "none"]

NoSessions(o) == [t \in Tokens |-> Fresh(o)]

TypeOK ==
    /\ leaseOwner \in Tokens \cup {NoToken}
    /\ leaseLive \in BOOLEAN
    /\ rec \in RunRecord
    /\ sess \in [Tokens -> Session]
    /\ applied \subseteq Tokens \X Strategies \X (1 .. Units)
    /\ tierRuns \in [Tokens -> Nat]
    /\ finished \subseteq Tokens
    /\ faults \in Nat

Init ==
    /\ leaseOwner = NoToken
    /\ leaseLive = FALSE
    /\ \E o \in Options : rec = Blank(o) /\ sess = NoSessions(o)
    /\ applied = {}
    /\ tierRuns = [t \in Tokens |-> 0]
    /\ finished = {}
    /\ faults = 0

-----------------------------------------------------------------------------
(* Building blocks *)

Fault == faults < MaxFaults /\ faults' = faults + 1

Become(t, s) == sess' = [sess EXCEPT ![t] = s]

To(t, pc) == [sess[t] EXCEPT !.pc = pc]
End(t, outcome) == [sess[t] EXCEPT !.pc = "closing", !.outcome = outcome]

LostEnd_ignored(t, outcome) == To(t, "loop")     \* the loop goes on
LostEnd(t, outcome) == [End(t, outcome) EXCEPT !.lost = TRUE]

\* failed_strategies.append: an exception that is not a progress error is
\* recorded and the loop goes on with the next strategy.
FailAt(t, s, pc) ==
    [sess[t] EXCEPT !.pc = pc, !.failed = @ \cup {s}]

Holding(s, st) == [s EXCEPT !.local = st]

\* session.checkpoint(strategy, phase, cursor) and session.complete_strategy
\* on the session's copy r, before _save().
Advance(r, s, c) ==
    [r EXCEPT !.status = "running", !.phase = "work", !.cursor[s] = c]
Completed(r, s) == [r EXCEPT !.done = @ \cup {s}, !.phase = "work"]

SetStatus(r, x) == [r EXCEPT !.status = x]
SetPhase(r, x) == [r EXCEPT !.phase = x]

Note(r) == finished' = IF r.status = "completed" THEN finished \cup {r.run}
                                                ELSE finished

\* WHERE owner_token = $owner_token
OwnsRow_unfenced(t) == TRUE
OwnsRow(t) == rec.owner = t

(***************************************************************************)
(* session._save(): overwrite the row with st WHERE owner_token = t.       *)
(*  - acknowledged: the session becomes ok and its state is the saved row; *)
(*  - fenced out (no row matched, or the heartbeat already said so):       *)
(*    LeaseLostError, the session stops without another write;             *)
(*  - the query raises or the task is cancelled meanwhile: the row may or  *)
(*    may not have been written, session.state keeps the local change, and *)
(*    the caller goes on as one of errs.                                   *)
(***************************************************************************)
Save(t, st, ok, errs, fencedAs) ==
    \/ /\ ~sess[t].lost /\ OwnsRow(t)
       /\ rec' = st /\ Note(st)
       /\ Become(t, Holding(ok, st))
       /\ UNCHANGED faults
    \/ /\ sess[t].lost \/ ~OwnsRow(t)
       /\ Become(t, Holding(LostEnd(t, fencedAs), st))
       /\ UNCHANGED <<rec, finished, faults>>
    \/ /\ ~sess[t].lost /\ Fault
       /\ \/ OwnsRow(t) /\ rec' = st /\ Note(st)
          \/ UNCHANGED <<rec, finished>>
       /\ \E e \in errs : Become(t, Holding(e, st))

-----------------------------------------------------------------------------
(* Opening a session *)

LeaseFree == leaseOwner = NoToken \/ ~leaseLive

\* acquire_consolidation_lease: CREATE, or replace a row that has expired.
Acquire(t, o) ==
    /\ sess[t].pc = "idle"
    /\ LeaseFree
    /\ leaseOwner' = t /\ leaseLive' = TRUE
    /\ Become(t, [Fresh(o) EXCEPT !.pc = "acquired"])
    /\ UNCHANGED <<rec, applied, tierRuns, finished, faults>>

\* get_consolidation_progress and the checks on what it returned. The row is
\* not read again before the claim or the start. The invocation is blocked
\* when the options differ, and also when the read raises or an explicit
\* resume_run_id does not name the unfinished run.
ReadRecord(t) ==
    /\ sess[t].pc = "acquired"
    /\ \/ /\ rec.status \in Incomplete
          /\ Become(t, IF rec.opt = sess[t].opt THEN To(t, "claim")
                                                ELSE End(t, "blocked"))
          /\ UNCHANGED faults
       \/ /\ rec.status \notin Incomplete
          /\ Become(t, To(t, "start"))
          /\ UNCHANGED faults
       \/ Become(t, End(t, "blocked")) /\ Fault
    /\ UNCHANGED <<leaseOwner, leaseLive, rec, applied, tierRuns, finished>>

\* WHERE status IN ['queued', 'running', 'paused', 'failed']
Claimable_notFailed == rec.status \in {"running", "paused"}
Claimable_any == TRUE
Claimable == rec.status \in Incomplete

\* claim_consolidation_progress: take the row over, whatever run it holds by
\* now, as long as its status is incomplete.
Claimed(t) == [rec EXCEPT !.owner = t]

Claim(t) ==
    /\ sess[t].pc = "claim"
    /\ \/ /\ Claimable
          /\ rec' = Claimed(t)
          /\ \/ Become(t, Holding(To(t, "resume"), Claimed(t))) /\ UNCHANGED faults
             \/ Become(t, End(t, "blocked")) /\ Fault
       \/ /\ ~Claimable
          /\ Become(t, End(t, "blocked"))
          /\ UNCHANGED <<rec, faults>>
    /\ UNCHANGED <<leaseOwner, leaseLive, applied, tierRuns, finished>>

\* state.update(status="running", last_error=None); _save(). What the engine
\* derives from the resumed state before its loop belongs to the same step.
ResumeSave(t) ==
    LET st == SetStatus(sess[t].local, "running")
    IN  /\ sess[t].pc = "resume"
        /\ Save(t, st,
                [To(t, "loop") EXCEPT
                    !.finOnly = Requested[sess[t].opt] \subseteq st.done],
                {End(t, "blocked")}, "blocked")
        /\ UNCHANGED <<leaseOwner, leaseLive, applied, tierRuns>>

\* start_consolidation_progress: an UPSERT that replaces whatever is there.
NewRun(t) ==
    [Blank(sess[t].opt) EXCEPT !.run = t, !.owner = t, !.status = "running"]

Start(t) ==
    /\ sess[t].pc = "start"
    /\ rec' = NewRun(t)
    /\ \/ Become(t, Holding(To(t, "loop"), NewRun(t))) /\ UNCHANGED faults
       \/ Become(t, End(t, "blocked")) /\ Fault
    /\ UNCHANGED <<leaseOwner, leaseLive, applied, tierRuns, finished>>

-----------------------------------------------------------------------------
(* The strategy loop *)

Remaining(t) ==
    {s \in Requested[sess[t].opt] : s > sess[t].at /\ s \notin sess[t].local.done}

\* The next strategy in tier order that is not completed; a strategy without
\* saved state first checkpoints "starting".
NextStrategy(t) ==
    /\ sess[t].pc = "loop"
    /\ \E s \in Remaining(t) :
          /\ \A r \in Remaining(t) : s <= r
          /\ LET here == [To(t, "handler") EXCEPT !.at = s]
                 skip == [FailAt(t, s, "loop") EXCEPT !.at = s]
             IN  IF sess[t].local.cursor[s] = NoState
                 THEN Save(t, Advance(sess[t].local, s, 0), here,
                           {skip, To(t, "pausing")}, "lease_lost")
                 ELSE Become(t, here) /\ UNCHANGED <<rec, finished, faults>>
    /\ UNCHANGED <<leaseOwner, leaseLive, applied, tierRuns>>

\* remaining_total <= 0: reported as paused, nothing is saved.
TotalTimeout(t) ==
    /\ sess[t].pc = "loop" /\ Remaining(t) # {}
    /\ Fault
    /\ Become(t, End(t, "paused"))
    /\ UNCHANGED <<leaseOwner, leaseLive, rec, applied, tierRuns, finished>>

\* What the handler does next: another unit, or return when none is left.
Handler_checkpointsFirst(t) ==
    IF sess[t].local.cursor[sess[t].at] < Units THEN "checkpoint" ELSE "finish"
Handler_offByOne(t) ==
    IF sess[t].local.cursor[sess[t].at] <= Units THEN "unit" ELSE "finish"
Handler(t) ==
    IF sess[t].local.cursor[sess[t].at] < Units THEN "unit" ELSE "finish"

\* _check_progress_budget before a work unit.
CheckBudget(t) ==
    /\ sess[t].pc = "handler"
    /\ \/ /\ sess[t].lost
          /\ Become(t, LostEnd(t, "lease_lost")) /\ UNCHANGED faults
       \/ /\ ~sess[t].lost
          /\ Become(t, To(t, Handler(t)))
          /\ UNCHANGED faults
       \/ ~sess[t].lost /\ Become(t, To(t, "pausing")) /\ Fault
    /\ UNCHANGED <<leaseOwner, leaseLive, rec, applied, tierRuns, finished>>

\* The write of one work unit. It carries no fence: what it does to the brain
\* does not depend on who owns the run record by then.
WorkUnit(t) ==
    <<sess[t].local.run, sess[t].at, sess[t].local.cursor[sess[t].at] + 1>>

Late(t) == IF rec.owner = t THEN sess[t].late ELSE sess[t].late + 1

ApplyUnit(t) ==
    /\ sess[t].pc = "unit"
    /\ applied' = applied \cup {WorkUnit(t)}
    /\ Become(t, [To(t, "checkpoint") EXCEPT !.late = Late(t)])
    /\ UNCHANGED <<leaseOwner, leaseLive, rec, tierRuns, finished, faults>>

\* The handler raises, before or after the unit was written: a progress error
\* ends the loop, any other exception is recorded and the loop goes on.
UnitFails(t) ==
    /\ sess[t].pc = "unit" /\ Fault
    /\ \E next \in {"loop", "failing"} :
          \/ /\ Become(t, FailAt(t, sess[t].at, next))
             /\ UNCHANGED applied
          \/ /\ Become(t, [FailAt(t, sess[t].at, next) EXCEPT !.late = Late(t)])
             /\ applied' = applied \cup {WorkUnit(t)}
    /\ UNCHANGED <<leaseOwner, leaseLive, rec, tierRuns, finished>>

\* _checkpoint_progress after the unit: the cursor moves past it.
CheckpointUnit(t) ==
    LET s == sess[t].at
        c == sess[t].local.cursor[s] + 1
    IN  /\ sess[t].pc = "checkpoint"
        /\ Save(t, Advance(sess[t].local, s, c), To(t, "handler"),
                {FailAt(t, s, "loop"), To(t, "pausing")}, "lease_lost")
        /\ UNCHANGED <<leaseOwner, leaseLive, applied, tierRuns>>

\* complete_strategy after the handler returned.
CompleteStrategy(t) ==
    LET s == sess[t].at
    IN  /\ sess[t].pc = "finish"
        /\ Save(t, Completed(sess[t].local, s), To(t, "loop"),
                {FailAt(t, s, "loop"), To(t, "pausing")}, "lease_lost")
        /\ UNCHANGED <<leaseOwner, leaseLive, applied, tierRuns>>

-----------------------------------------------------------------------------
(* Finalization *)

TierUnknown_replayed(t) == FALSE
TierUnknown(t) ==
    \/ sess[t].local.phase = "auto_tier_started"
    \/ sess[t].finOnly /\ sess[t].local.phase # "auto_tier_completed"

LoopSucceeded_anyway(t) == TRUE
LoopSucceeded(t) ==
    sess[t].failed = {} /\ Requested[sess[t].opt] \subseteq sess[t].local.done

\* The loop is over: fail, finish the auto-tier first, or complete.
LoopEnds(t) ==
    /\ sess[t].pc = "loop" /\ Remaining(t) = {}
    /\ \/ /\ sess[t].failed # {}
          /\ Become(t, To(t, "failing"))
       \/ /\ LoopSucceeded(t)
          /\ Become(t,
                IF ~AutoTier[sess[t].opt]
                THEN To(t, "completing")
                ELSE IF TierUnknown(t) THEN FailAt(t, 0, "failing")
                ELSE IF sess[t].local.phase = "auto_tier_completed"
                THEN To(t, "completing") ELSE To(t, "tier_start"))
    /\ UNCHANGED <<leaseOwner, leaseLive, rec, applied, tierRuns, finished, faults>>

\* finalization_checkpoint("auto_tier_started")
TierStarted(t) ==
    /\ sess[t].pc = "tier_start"
    /\ Save(t, SetPhase(sess[t].local, "auto_tier_started"),
            To(t, "tier_run"), {FailAt(t, 0, "failing"), To(t, "pausing")},
            "lease_lost")
    /\ UNCHANGED <<leaseOwner, leaseLive, applied, tierRuns>>

\* _run_auto_tier: the promotions and demotions are written; it may raise
\* after having written them. tierRuns counts the calls, those included that
\* return without a write (no Pro licence, no brain).
RunAutoTier(t) ==
    LET r == sess[t].local.run
    IN  /\ sess[t].pc = "tier_run"
        /\ tierRuns' = [tierRuns EXCEPT ![r] = @ + 1]
        /\ \/ Become(t, To(t, "tier_done")) /\ UNCHANGED faults
           \/ /\ \E s \in {FailAt(t, 0, "failing"), To(t, "pausing")} : Become(t, s)
              /\ Fault
        /\ UNCHANGED <<leaseOwner, leaseLive, rec, applied, finished>>

\* finalization_checkpoint("auto_tier_completed")
TierCompleted(t) ==
    /\ sess[t].pc = "tier_done"
    /\ Save(t, SetPhase(sess[t].local, "auto_tier_completed"),
            To(t, "completing"), {FailAt(t, 0, "failing"), To(t, "pausing")},
            "lease_lost")
    /\ UNCHANGED <<leaseOwner, leaseLive, applied, tierRuns>>

\* fail(): a lost acknowledgement is only reported.
FailRun(t) ==
    /\ sess[t].pc = "failing"
    /\ Save(t, SetStatus(sess[t].local, "failed"),
            End(t, "failed"), {End(t, "failed"), To(t, "pausing")}, "lease_lost")
    /\ UNCHANGED <<leaseOwner, leaseLive, applied, tierRuns>>

\* pause(): after a budget stop, a strategy timeout or a cancellation.
PauseRun(t) ==
    /\ sess[t].pc = "pausing"
    /\ Save(t, SetStatus(sess[t].local, "paused"),
            End(t, "paused"), {End(t, "paused")}, "lease_lost")
    /\ UNCHANGED <<leaseOwner, leaseLive, applied, tierRuns>>

\* complete(): the terminal checkpoint. When its acknowledgement is lost the
\* row is read back; a cancellation leaves the completion unconfirmed and, by
\* the guards of run()'s CancelledError branch, is never followed by pause().
CompleteRun(t) ==
    /\ sess[t].pc = "completing"
    /\ Save(t, SetPhase(SetStatus(sess[t].local, "completed"), "completed"),
            End(t, "completed"),
            {To(t, "readback"), End(t, "completion_unconfirmed")}, "lease_lost")
    /\ UNCHANGED <<leaseOwner, leaseLive, applied, tierRuns>>

Confirms_blindly(t) == TRUE
Confirms(t) ==
    /\ rec.status = "completed" /\ rec.phase = "completed"
    /\ rec.run = sess[t].local.run /\ rec.opt = sess[t].local.opt
    /\ rec.done = sess[t].local.done
    /\ Requested[rec.opt] # {} /\ Requested[rec.opt] \subseteq rec.done

ReadBack(t) ==
    /\ sess[t].pc = "readback"
    /\ \/ Confirms(t) /\ Become(t, End(t, "completed")) /\ UNCHANGED faults
       \/ ~Confirms(t) /\ Become(t, End(t, "completion_unconfirmed"))
                       /\ UNCHANGED faults
       \/ Become(t, End(t, "completion_unconfirmed")) /\ Fault
    /\ UNCHANGED <<leaseOwner, leaseLive, rec, applied, tierRuns, finished>>

-----------------------------------------------------------------------------
(* Closing, the heartbeat, and what the environment does *)

\* The session object is dropped; what it reported, for which run, is kept.
Gone(t, outcome) ==
    [Fresh(sess[t].opt) EXCEPT !.pc = "closed", !.outcome = outcome,
                               !.local.run = sess[t].local.run]

\* close(), or open()'s exception path: release_consolidation_lease deletes
\* the row only while it is ours; a failing release leaves it to expire.
Close(t) ==
    /\ sess[t].pc = "closing"
    /\ \/ /\ leaseOwner' = IF leaseOwner = t THEN NoToken ELSE leaseOwner
          /\ leaseLive' = (leaseLive /\ leaseOwner # t)
          /\ UNCHANGED faults
       \/ Fault /\ UNCHANGED <<leaseOwner, leaseLive>>
    /\ Become(t, Gone(t, sess[t].outcome))
    /\ UNCHANGED <<rec, applied, tierRuns, finished>>

\* _renew_lease: a renewal that matches no row, or raises, fences the session
\* out locally. A successful renewal changes nothing the model keeps.
Heartbeat(t) ==
    /\ sess[t].pc \in Working /\ ~sess[t].lost
    /\ \/ (leaseOwner # t \/ ~leaseLive) /\ UNCHANGED faults
       \/ Fault
    /\ Become(t, [sess[t] EXCEPT !.lost = TRUE])
    /\ UNCHANGED <<leaseOwner, leaseLive, rec, applied, tierRuns, finished>>

\* The strategy's wait_for timeout or a task cancellation, at the points other
\* than a save where the session awaits something.
Interrupt(t) ==
    /\ Fault
    /\ \/ sess[t].pc \in Opening /\ Become(t, End(t, "blocked"))
       \/ sess[t].pc \in {"handler", "unit", "tier_run"} /\ Become(t, To(t, "pausing"))
       \/ sess[t].pc = "readback" /\ Become(t, End(t, "completion_unconfirmed"))
    /\ UNCHANGED <<leaseOwner, leaseLive, rec, applied, tierRuns, finished>>

\* The process dies: no pause, no release.
Crash(t) ==
    /\ sess[t].pc \notin {"idle", "closed"}
    /\ Fault
    /\ Become(t, Gone(t, "none"))
    /\ UNCHANGED <<leaseOwner, leaseLive, rec, applied, tierRuns, finished>>

\* LEASE_SECONDS pass without a renewal: the holder is gone, or it is alive
\* but stalled (a blocked event loop, a suspended host, clocks that differ).
LeaseExpires ==
    /\ leaseOwner # NoToken /\ leaseLive
    /\ leaseLive' = FALSE
    /\ IF sess[leaseOwner].pc = "closed" THEN UNCHANGED faults ELSE Fault
    /\ UNCHANGED <<leaseOwner, rec, sess, applied, tierRuns, finished>>

\* Every invocation has ended.
AllClosed ==
    /\ \A t \in Tokens : sess[t].pc = "closed"
    /\ UNCHANGED vars

-----------------------------------------------------------------------------
(* Specification *)

\* The steps a running session takes of its own accord.
Step(t) ==
    \/ ReadRecord(t) \/ Claim(t) \/ ResumeSave(t) \/ Start(t)
    \/ NextStrategy(t) \/ CheckBudget(t) \/ ApplyUnit(t) \/ CheckpointUnit(t)
    \/ CompleteStrategy(t) \/ LoopEnds(t) \/ TierStarted(t) \/ RunAutoTier(t)
    \/ TierCompleted(t) \/ FailRun(t) \/ PauseRun(t) \/ CompleteRun(t)
    \/ ReadBack(t) \/ Close(t)

Next ==
    \/ \E t \in Tokens :
          \/ \E o \in Options : Acquire(t, o)
          \/ Step(t)
          \/ TotalTimeout(t) \/ UnitFails(t) \/ Heartbeat(t)
          \/ Interrupt(t) \/ Crash(t)
    \/ LeaseExpires
    \/ AllClosed

Spec == Init /\ [][Next]_vars

(***************************************************************************)
(* Fairness: a session that runs keeps running (asyncio tasks), a dead     *)
(* holder's lease runs out, and the operator starts the command again      *)
(* while the run is unfinished. Faults are never forced.                   *)
(***************************************************************************)
HolderGone == leaseOwner # NoToken /\ sess[leaseOwner].pc = "closed"

Retry == rec.status # "completed" /\ \E t \in Tokens, o \in Options : Acquire(t, o)

FairSpec ==
    /\ Spec
    /\ \A t \in Tokens : WF_vars(Step(t))
    /\ WF_vars(HolderGone /\ LeaseExpires)
    /\ WF_vars(Retry)

-----------------------------------------------------------------------------
(* Properties *)

\* Within one run nothing that was committed is taken back, although every
\* save overwrites the whole row with the session's own copy: no strategy is
\* un-completed, no cursor moves back, a completed row stays as it is.
WorkKept ==
    rec'.run = rec.run =>
        /\ rec.done \subseteq rec'.done
        /\ \A s \in Strategies : rec.cursor[s] <= rec'.cursor[s]
        /\ rec.status = "completed" => rec' = rec

CommittedWorkIsKept == [][WorkKept]_vars

\* A cursor never runs ahead of the brain: every unit that the row says is
\* committed, in a strategy completed or under way, was written.
NoUnitSkipped ==
    rec.run # NoToken =>
        \A s \in Strategies :
            /\ \A u \in 1 .. Units :
                  u <= rec.cursor[s] => <<rec.run, s, u>> \in applied
            /\ s \in rec.done => rec.cursor[s] = Units

\* A session that another one has fenced out writes at most one more unit,
\* apart from the strategies it meanwhile saw fail.
FencedSessionStops ==
    \A t \in Tokens : sess[t].late <= 1 + Cardinality(sess[t].failed)

\* The auto-tier is executed at most once for a run, whatever crashes, resumes
\* and takeovers there are.
AutoTierAtMostOnce == \A r \in Tokens : tierRuns[r] <= 1

\* A row is completed only when everything its run requested is, and, with
\* auto-tier on, after the auto-tier was executed.
CompletedMeansAll ==
    rec.status = "completed" =>
        /\ Requested[rec.opt] \subseteq rec.done
        /\ AutoTier[rec.opt] => tierRuns[rec.run] >= 1

\* An invocation that reports "completed" did leave a completed row for its
\* run, even when the acknowledgement of the last save was lost.
ReportedCompletionIsDurable ==
    \A t \in Tokens :
        sess[t].outcome = "completed" => sess[t].local.run \in finished

\* The lease, the record and the sessions are together the durable run of
\* DurableRun: in particular no session, however late it wakes up, brings a
\* replaced run back or records what was not written.
PlanOf(o) ==
    [items |-> Requested[o] \X (1 .. Units), closing |-> AutoTier[o]]

Promise == INSTANCE DurableRun WITH
    Runs <- Tokens,
    NoRun <- NoToken,
    Items <- Strategies \X (1 .. Units),
    Plans <- {PlanOf(o) : o \in Options},
    run <- rec.run,
    plan <- PlanOf(rec.opt),
    recorded <- {i \in Strategies \X (1 .. Units) : i[2] <= rec.cursor[i[1]]},
    finished <- (rec.status = "completed"),
    used <- {t \in Tokens : sess[t].pc \notin {"idle", "acquired", "claim", "start"}},
    performed <- {<<a[1], <<a[2], a[3]>>>> : a \in applied},
    closed <- {t \in Tokens : tierRuns[t] > 0}

ImplementsDurableRun == Promise!Spec

\* What a run with auto-tier may come to: the row stays at a finalization whose
\* auto-tier outcome is unknown, which no invocation will replay.
OutcomeUnknown ==
    /\ rec.status \in Incomplete
    /\ AutoTier[rec.opt]
    /\ Requested[rec.opt] \subseteq rec.done
    /\ rec.phase \in {"work", "auto_tier_started"}

\* Started again after every interruption, a run completes, or is refused for
\* that one reason: no other sequence of crashes, stalls, pauses and failures
\* leaves the lease or the row in a state that blocks the next invocation for good.
CompletesOrRefuses == <>(rec.status = "completed") \/ <>[]OutcomeUnknown

\* What the operator guide says: a request with other options does not
\* override the saved run.
TakenOver == rec'.run = rec.run /\ rec'.owner # rec.owner
ClaimantHasSameOptions == [][TakenOver => sess[rec'.owner].opt = rec.opt]_vars
=============================================================================
