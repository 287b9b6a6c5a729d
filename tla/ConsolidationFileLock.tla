----------------------- MODULE ConsolidationFileLock -----------------------
(***************************************************************************)
(* The lock file that the session-end consolidation of an MCP server takes *)
(* around its run: utils/consolidation_lock.py, as called from             *)
(* run_session_end_consolidation in mcp/maintenance_handler.py.            *)
(*                                                                         *)
(* A process is named by its pid. Every file system call is one step, so   *)
(* that the file may change between two of them. The file is its creator   *)
(* (lockedBy) and what a reader finds in it (content); a file that was     *)
(* unlinked while its creator still writes to it is no longer at the path. *)
(***************************************************************************)
EXTENDS Integers, FiniteSets

CONSTANTS
    Procs,      \* process ids
    NoProc,     \* the lock file does not exist
    MaxFaults   \* bound on crashes and failing calls

ASSUME ConstantsAssumption == NoProc \notin Procs /\ MaxFaults \in Nat

VARIABLES
    pc,         \* pc[p]: where process p is
    alive,      \* alive[p]: os.kill(p, 0) succeeds
    lockedBy,   \* the process that created the file at the path
    content,    \* what reading the file gives
    overlapped, \* history: an acquisition began while another was under way
    outlived,   \* history: a lock aged past _STALE_SECONDS while in use
    faults      \* faults so far

vars == <<pc, alive, lockedBy, content, overlapped, outlived, faults>>

Acquiring == {"judging", "clearing", "retrying", "writing"}
Using == {"held", "leaving", "checking", "removing"}

\* "empty": created, the payload not yet written; "old": _STALE_SECONDS or more
Contents == {"none", "empty", "fresh", "old"}

TypeOK ==
    /\ pc \in [Procs -> {"idle"} \cup Acquiring \cup Using]
    /\ alive \in [Procs -> BOOLEAN]
    /\ lockedBy \in Procs \cup {NoProc}
    /\ content \in Contents
    /\ lockedBy = NoProc <=> content = "none"
    /\ overlapped \in BOOLEAN /\ outlived \in BOOLEAN
    /\ faults \in Nat

Init ==
    /\ pc = [p \in Procs |-> "idle"]
    /\ alive = [p \in Procs |-> TRUE]
    /\ lockedBy = NoProc /\ content = "none"
    /\ overlapped = FALSE /\ outlived = FALSE
    /\ faults = 0

-----------------------------------------------------------------------------
Fault == faults < MaxFaults /\ faults' = faults + 1

Go(p, where) == pc' = [pc EXCEPT ![p] = where]

MakeFile(p) == lockedBy' = p /\ content' = "empty"
RemoveFile_contentStays == lockedBy' = NoProc /\ content' = content
RemoveFile == lockedBy' = NoProc /\ content' = "none"

\* os.open(O_CREAT | O_EXCL): whoever finds the file there goes on as told.
CreateFile_notExclusive(p, otherwise) == MakeFile(p) /\ Go(p, "writing")
CreateFile(p, otherwise) ==
    \/ /\ lockedBy = NoProc
       /\ MakeFile(p)
       /\ Go(p, "writing")
    \/ /\ lockedBy # NoProc
       /\ Go(p, otherwise)
       /\ UNCHANGED <<lockedBy, content>>

\* _is_pid_alive(pid) and age < _STALE_SECONDS, of a lock that parses.
HeldActively_either == content \in {"fresh", "old"} /\ (alive[lockedBy] \/ content = "fresh")
HeldActively == content = "fresh" /\ alive[lockedBy]

-----------------------------------------------------------------------------
(* acquire_consolidation_lock *)

Attempt(p) ==
    /\ pc[p] = "idle" /\ alive[p]
    /\ CreateFile(p, "judging")
    /\ overlapped' = (overlapped \/ \E q \in Procs : pc[q] \in Acquiring)
    /\ UNCHANGED <<alive, outlived, faults>>

\* _try_clear_stale, reading: a missing or empty file counts as corrupt.
Judge(p) ==
    /\ pc[p] = "judging"
    /\ Go(p, IF HeldActively THEN "idle" ELSE "clearing")
    /\ UNCHANGED <<alive, lockedBy, content, overlapped, outlived, faults>>

\* _try_clear_stale, unlinking whatever file is at the path by then; when
\* unlink fails the lock is reported as held.
Clear(p) ==
    /\ pc[p] = "clearing"
    /\ \/ RemoveFile /\ Go(p, "retrying") /\ UNCHANGED faults
       \/ UNCHANGED <<lockedBy, content>> /\ Go(p, "idle") /\ Fault
    /\ UNCHANGED <<alive, overlapped, outlived>>

Retry(p) ==
    /\ pc[p] = "retrying"
    /\ CreateFile(p, "idle")
    /\ UNCHANGED <<alive, overlapped, outlived, faults>>

\* os.write: into the file at the path, or into one that was unlinked since.
\* When it raises, acquire returns False and the empty file stays.
Write(p) ==
    /\ pc[p] = "writing"
    /\ \/ /\ Go(p, "held")
          /\ content' = IF lockedBy = p THEN "fresh" ELSE content
          /\ UNCHANGED faults
       \/ Go(p, "idle") /\ UNCHANGED content /\ Fault
    /\ UNCHANGED <<alive, lockedBy, overlapped, outlived>>

-----------------------------------------------------------------------------
(* release_consolidation_lock, in the finally of the consolidation *)

Finish(p) ==
    /\ pc[p] = "held"
    /\ Go(p, "leaving")
    /\ UNCHANGED <<alive, lockedBy, content, overlapped, outlived, faults>>

\* lock_file.exists()
Exists(p) ==
    /\ pc[p] = "leaving"
    /\ Go(p, IF lockedBy = NoProc THEN "idle" ELSE "checking")
    /\ UNCHANGED <<alive, lockedBy, content, overlapped, outlived, faults>>

\* The file's pid decides; what cannot be read or parsed is unlinked too.
Mine(p) == content \in {"none", "empty"} \/ lockedBy = p

Check(p) ==
    /\ pc[p] = "checking"
    /\ Go(p, IF Mine(p) THEN "removing" ELSE "idle")
    /\ UNCHANGED <<alive, lockedBy, content, overlapped, outlived, faults>>

Remove(p) ==
    /\ pc[p] = "removing"
    /\ \/ RemoveFile /\ UNCHANGED faults
       \/ UNCHANGED <<lockedBy, content>> /\ Fault
    /\ Go(p, "idle")
    /\ UNCHANGED <<alive, overlapped, outlived>>

-----------------------------------------------------------------------------
(* The environment *)

\* The process dies, wherever it is.
Crash(p) ==
    /\ alive[p] /\ Fault
    /\ alive' = [alive EXCEPT ![p] = FALSE]
    /\ Go(p, "idle")
    /\ UNCHANGED <<lockedBy, content, overlapped, outlived>>

\* The operating system gives the pid to another process.
ReusePid(p) ==
    /\ ~alive[p]
    /\ alive' = [alive EXCEPT ![p] = TRUE]
    /\ UNCHANGED <<pc, lockedBy, content, overlapped, outlived, faults>>

\* _STALE_SECONDS pass since the timestamp in the file.
Age ==
    /\ content = "fresh"
    /\ content' = "old"
    /\ outlived' = (outlived \/ pc[lockedBy] \in Using)
    /\ UNCHANGED <<pc, alive, lockedBy, overlapped, faults>>

-----------------------------------------------------------------------------
Step(p) ==
    \/ Judge(p) \/ Clear(p) \/ Retry(p) \/ Write(p)
    \/ Finish(p) \/ Exists(p) \/ Check(p) \/ Remove(p)

Next ==
    \/ \E p \in Procs : Attempt(p) \/ Step(p) \/ Crash(p) \/ ReusePid(p)
    \/ Age

Spec == Init /\ [][Next]_vars

\* A running process goes on, sessions keep ending (so that somebody attempts
\* to acquire), and time passes. Nothing forces a fault.
FairSpec ==
    /\ Spec
    /\ \A p \in Procs : WF_vars(Step(p))
    /\ WF_vars(\E p \in Procs : Attempt(p))
    /\ WF_vars(Age)

-----------------------------------------------------------------------------
(* Properties *)

\* What the module's docstring promises of the O_CREAT|O_EXCL creation: no
\* race lets two processes consolidate at the same time.
MutualExclusion == \A p, q \in Procs : pc[p] = "held" /\ pc[q] = "held" => p = q

\* What the lock does guarantee, through crashes, reused pids and failing
\* calls: as long as no two acquisitions overlap and no holder outlives the
\* staleness limit, one process at most is between its acquisition and the end
\* of its release, and the file at the path is its file.
SoleUser ==
    ~overlapped /\ ~outlived =>
        \A p \in Procs : pc[p] \in Using =>
            /\ lockedBy = p
            /\ \A q \in Procs : pc[q] \in Using => q = p

\* A lock whose process crashed or failed to remove it, even one whose pid
\* another process has by now, does not stay in the way for good.
Abandoned == lockedBy # NoProc /\ pc[lockedBy] \notin Using \cup {"writing"}

AbandonedIsCleared == Abandoned ~> ~Abandoned
=============================================================================
