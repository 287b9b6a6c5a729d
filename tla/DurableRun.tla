----------------------------- MODULE DurableRun -----------------------------
(***************************************************************************)
(* What a durable consolidation run promises the operator                  *)
(* (docs/guides/consolidation.md; engine/consolidation_progress.py,        *)
(* "Durable, brain-scoped state for resumable consolidation runs"): one    *)
(* run is on record at a time; work is recorded only after it was done and *)
(* never unrecorded; a run that has been replaced does not come back; and  *)
(* it is finished, for good, when all of its plan is on record and its     *)
(* closing step, which is taken at most once, is behind it. Who executes   *)
(* the run, over which leases and through which failures, is left open.    *)
(***************************************************************************)

CONSTANTS
    Runs,     \* identities a run may have
    NoRun,    \* nothing on record
    Items,    \* units of work
    Plans     \* [items: SUBSET Items, closing: BOOLEAN], what may be asked for

VARIABLES
    run,        \* the run on record
    plan,       \* what it is to do
    recorded,   \* items on record
    finished,   \* whether it is recorded as finished
    used,       \* identities used up
    performed,  \* <<run, item>> that were done, also of runs since replaced
    closed      \* runs whose closing step was taken

vars == <<run, plan, recorded, finished, used, performed, closed>>

Init ==
    /\ run = NoRun
    /\ plan \in Plans
    /\ recorded = {}
    /\ finished = FALSE
    /\ used = {}
    /\ performed = {}
    /\ closed = {}

\* A run that was never on record replaces whatever is there.
Begin(r, p) ==
    /\ r \notin used
    /\ used' = used \cup {r}
    /\ run' = r /\ plan' = p /\ recorded' = {} /\ finished' = FALSE
    /\ UNCHANGED <<performed, closed>>

\* An invocation that starts no run uses its identity up as well.
Retire(r) ==
    /\ used' = used \cup {r}
    /\ UNCHANGED <<run, plan, recorded, finished, performed, closed>>

\* The work itself is written apart from the record, and possibly again.
Perform(r, i) ==
    /\ r \in used
    /\ performed' = performed \cup {<<r, i>>}
    /\ UNCHANGED <<run, plan, recorded, finished, used, closed>>

Close(r) ==
    /\ r \in used /\ r \notin closed
    /\ closed' = closed \cup {r}
    /\ UNCHANGED <<run, plan, recorded, finished, used, performed>>

\* The record catches up with some of what was done, and may say that this is all.
Record ==
    /\ ~finished
    /\ recorded \subseteq recorded'
    /\ \A i \in recorded' : i \in Items /\ <<run, i>> \in performed
    /\ finished' \in BOOLEAN
    /\ finished' => /\ plan.items \subseteq recorded'
                    /\ plan.closing => run \in closed
    /\ UNCHANGED <<run, plan, used, performed, closed>>

Next ==
    \/ \E r \in Runs, p \in Plans : Begin(r, p)
    \/ \E r \in Runs : Retire(r) \/ Close(r)
    \/ \E r \in Runs, i \in Items : Perform(r, i)
    \/ Record

Spec == Init /\ [][Next]_vars
=============================================================================
