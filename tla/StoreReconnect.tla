--------------------------- MODULE StoreReconnect ---------------------------
(***************************************************************************)
(* One query of the SurrealDB store and the repair of the connection that  *)
(* all queries share: _query_response of storage/surrealdb/store.py with   *)
(* what it calls.                                                          *)
(*                                                                         *)
(* Coroutines on one event loop multiplex their requests over one          *)
(* connection. It expires, breaks, loses its receiver or is left behind by *)
(* its loop; whoever notices rebuilds it under a lock, and closing the old *)
(* one cuts off the requests still pending on it. A step is what happens   *)
(* between two awaits.                                                     *)
(***************************************************************************)
EXTENDS Naturals, Sequences

CONSTANTS
    Callers,
    NoCaller,
    Attempts,  \* Len(_RECONNECT_BACKOFF)
    Socket,    \* WebSocket transport, which has a receiver; HTTP has none
    MaxFaults  \* bound on everything that goes wrong

ASSUME ReconnectAssumption ==
    /\ NoCaller \notin Callers
    /\ Attempts \in Nat \ {0}
    /\ Socket \in BOOLEAN
    /\ MaxFaults \in Nat

VARIABLES
    conns,   \* the connections so far; the last one is self._conn
    home,    \* whether self._conn belongs to the running loop
    lock,    \* who holds _reauth_lock
    call,    \* call[c]: the query that c has under way
    faults,
    sends,   \* history: how often c sent its query
    lost,    \* history: which sending of it was pending when its receiver stopped, or 0
    tried    \* history: the last connection that a request of c failed on, or 0

vars == <<conns, home, lock, call, faults, sends, lost, tried>>

Conditions == {"up", "expired", "broken", "stopped", "closed"}
Broken == {"broken", "stopped", "closed"}

\* _conn_generation: every reconnect sets _conn and counts together
Gen == Len(conns)
Stopped == conns[Gen] = "stopped"

\* at "waiting", stage says for which of the three uses of the lock
Steps == {"idle", "waiting", "dialing", "closing", "sent"}
Stages == {"loop", "receiver", "retry"}

Idle == [pc |-> "idle", stage |-> "loop", base |-> 0, noted |-> 0, attempt |-> 0, on |-> 0]

Init ==
    /\ conns = <<"up">> /\ home = TRUE
    /\ lock = NoCaller
    /\ call = [c \in Callers |-> Idle]
    /\ faults = 0
    /\ sends = [c \in Callers |-> 0]
    /\ lost = [c \in Callers |-> 0]
    /\ tried = [c \in Callers |-> 0]

Fault == faults < MaxFaults /\ faults' = faults + 1

-----------------------------------------------------------------------------
\* What c does next. base is the variable generation of _query_response,
\* noted is the generation that the holder of the lock compares with.
Become(c, x) == call' = [call EXCEPT ![c] = x]

Wait(c, x, stage, noted) ==
    /\ Become(c, [x EXCEPT !.pc = "waiting", !.stage = stage, !.noted = noted])
    /\ UNCHANGED sends

Send(c, x) ==
    /\ Become(c, [x EXCEPT !.pc = "sent", !.base = Gen', !.on = Gen'])
    /\ sends' = [sends EXCEPT ![c] = @ + 1]

End(c) == Become(c, Idle) /\ UNCHANGED sends

\* _reconnect_if_websocket_receiver_stopped, before the first sending only
CheckReceiver(c, x) == IF Stopped' THEN Wait(c, x, "receiver", Gen') ELSE Send(c, x)

Proceed(c, x) == IF x.stage = "loop" THEN CheckReceiver(c, x) ELSE Send(c, x)

Started(pc, stage, noted, on) ==
    [pc |-> pc, stage |-> stage, base |-> Gen, noted |-> noted, attempt |-> 0, on |-> on]

Begin(c) ==
    /\ call[c].pc = "idle"
    /\ UNCHANGED <<conns, home, lock, faults, tried>>
    /\ lost' = [lost EXCEPT ![c] = 0]
    /\ sends' = [sends EXCEPT ![c] = IF home /\ ~Stopped THEN 1 ELSE 0]
    /\ call' = [call EXCEPT ![c] = IF ~home THEN Started("waiting", "loop", Gen, 0)
                                   ELSE IF Stopped THEN Started("waiting", "receiver", Gen, 0)
                                   ELSE Started("sent", "loop", 0, Gen)]

\* async with the lock: only who finds the generation unmoved reconnects
Dial_unchecked(c) == TRUE
MayDial(c) == call[c].noted = Gen

Acquire(c) ==
    /\ call[c].pc = "waiting" /\ lock = NoCaller
    /\ UNCHANGED <<conns, home, faults, lost, tried>>
    /\ IF MayDial(c)
       THEN lock' = c /\ Become(c, [call[c] EXCEPT !.pc = "dialing"]) /\ UNCHANGED sends
       ELSE lock' = NoCaller /\ Proceed(c, call[c])

\* _reconnect: the connection of another loop is dropped without closing it
DialSucceeds(c) ==
    /\ call[c].pc = "dialing"
    /\ conns' = Append(conns, "up") /\ home' = TRUE
    /\ UNCHANGED <<faults, lost, tried>>
    /\ IF home THEN /\ Become(c, [call[c] EXCEPT !.pc = "closing"])
                    /\ UNCHANGED <<lock, sends>>
               ELSE lock' = NoCaller /\ Proceed(c, call[c])

\* the requests pending on connection g, whose receiver stops
Cut(g) ==
    lost' = [d \in Callers |->
               IF call[d].pc = "sent" /\ call[d].on = g /\ lost[d] = 0 THEN sends[d] ELSE lost[d]]

\* previous.close() ends, or is given up after _CONNECTION_CLOSE_TIMEOUT_SECONDS;
\* the HTTP transport has nothing to close
PreviousClosed(c) ==
    /\ call[c].pc = "closing"
    /\ IF Socket THEN /\ conns' = [conns EXCEPT ![call[c].noted] = "closed"]
                      /\ Cut(call[c].noted)
                 ELSE UNCHANGED <<conns, lost>>
    /\ lock' = NoCaller /\ Proceed(c, call[c])
    /\ UNCHANGED <<home, faults, tried>>

\* The except clauses, by the kind of exception: in the first attempt a request
\* that may have reached the server is not replayed, in the loop every failure is.
Replayable_unmoved(c, kind) == kind # "other" /\ ~Stopped
Replayable_connectionOnly(c, kind) == kind = "connection" /\ ~Stopped /\ call[c].base = Gen
Replayable(c, kind) == kind # "other" /\ ~Stopped /\ call[c].base = Gen

Handle_oneMore(c, kind) ==
    IF (call[c].attempt = 0 /\ ~Replayable(c, kind)) \/ call[c].attempt > Attempts
    THEN End(c)
    ELSE Wait(c, [call[c] EXCEPT !.attempt = @ + 1], "retry", call[c].base)
Handle(c, kind) ==
    IF (call[c].attempt = 0 /\ ~Replayable(c, kind)) \/ call[c].attempt = Attempts
    THEN End(c)
    ELSE Wait(c, [call[c] EXCEPT !.attempt = @ + 1], "retry", call[c].base)

\* async with: the lock is released on the way out, however that is
Released_kept(c) == lock
Released(c) == IF lock = c THEN NoCaller ELSE lock

\* In the loop, generation is the one that this attempt started from.
DialFails(c) ==
    /\ call[c].pc = "dialing" /\ Fault
    /\ lock' = Released(c)
    /\ Handle(c, "connection") \/ End(c)  \* StorageAuthError ends the call at once
    /\ UNCHANGED <<conns, home, lost, tried>>

RequestFails(c) ==
    /\ call[c].pc = "sent"
    /\ \E kind \in {"auth", "connection", "other"} :
          /\ \/ conns[call[c].on] = "up" /\ kind = "other" /\ Fault
             \/ conns[call[c].on] = "expired" /\ kind = "auth" /\ UNCHANGED faults
             \/ /\ conns[call[c].on] \in Broken /\ UNCHANGED faults
                /\ kind = "connection" \/ (Socket /\ kind = "other")  \* the SDK's KeyError
          /\ Handle(c, kind)
    /\ tried' = [tried EXCEPT ![c] = call[c].on]
    /\ UNCHANGED <<conns, home, lock, lost>>

Answered(c) ==
    /\ call[c].pc = "sent" /\ conns[call[c].on] = "up"
    /\ End(c)
    /\ UNCHANGED <<conns, home, lock, faults, lost, tried>>

\* task.cancel(), or the caller's own timeout
Cancel(c) ==
    /\ call[c].pc # "idle" /\ Fault
    /\ End(c)
    /\ lock' = Released(c)
    /\ UNCHANGED <<conns, home, lost, tried>>

-----------------------------------------------------------------------------
(* The environment *)

TokenExpires ==
    /\ conns[Gen] = "up" /\ Fault
    /\ conns' = [conns EXCEPT ![Gen] = "expired"]
    /\ UNCHANGED <<home, lock, call, sends, lost, tried>>

\* the server goes away: every open connection breaks
ServerRestarts ==
    /\ conns[Gen] \in {"up", "expired"} /\ Fault
    /\ conns' = [g \in 1 .. Gen |-> IF conns[g] \in {"up", "expired"} THEN "broken" ELSE conns[g]]
    /\ UNCHANGED <<home, lock, call, sends, lost, tried>>

\* the receive task of a broken connection ends
ReceiverStops ==
    /\ Socket
    /\ \E g \in 1 .. Gen :
         /\ conns[g] = "broken"
         /\ conns' = [conns EXCEPT ![g] = "stopped"]
         /\ Cut(g)
    /\ UNCHANGED <<home, lock, call, faults, sends, tried>>

\* The store is used again from a second asyncio.run; the first one cancelled
\* what was left on its loop, the receiver included.
LoopChanges ==
    /\ \A c \in Callers : call[c].pc = "idle"
    /\ home /\ Fault
    /\ home' = FALSE
    /\ conns' = IF Socket THEN [conns EXCEPT ![Gen] = "stopped"] ELSE conns
    /\ UNCHANGED <<lock, call, sends, lost, tried>>

OwnStep(c) ==
    \/ Acquire(c) \/ DialSucceeds(c) \/ PreviousClosed(c) \/ DialFails(c)
    \/ RequestFails(c) \/ Answered(c)

Next ==
    \/ \E c \in Callers : Begin(c) \/ OwnStep(c) \/ Cancel(c)
    \/ TokenExpires \/ ServerRestarts \/ ReceiverStops \/ LoopChanges

Spec == Init /\ [][Next]_vars

\* Callers keep calling, and what they wait for happens: a dial or a close is
\* bounded by a timeout, the asyncio lock is first come, first served, and the
\* receive task of a connection that broke ends.
FairSpec ==
    /\ Spec /\ WF_vars(ReceiverStops)
    /\ \A c \in Callers : WF_vars(Begin(c)) /\ WF_vars(OwnStep(c))

-----------------------------------------------------------------------------
Calls ==
    [pc : Steps, stage : Stages, base : 0 .. Gen, noted : 0 .. Gen,
     attempt : 0 .. Attempts, on : 0 .. Gen]

TypeOK ==
    /\ conns \in Seq(Conditions) /\ Gen > 0
    /\ home \in BOOLEAN
    /\ lock \in Callers \cup {NoCaller}
    /\ call \in [Callers -> Calls]
    /\ faults \in 0 .. MaxFaults
    /\ sends \in [Callers -> 0 .. Attempts + 1]
    /\ lost \in [Callers -> 0 .. Attempts + 1]
    /\ tried \in [Callers -> 0 .. Gen]

(***************************************************************************)
(* A query that was pending in its first attempt when its receiver stopped *)
(* or a peer replaced and closed the connection is not sent again: it may  *)
(* have been executed.                                                     *)
(***************************************************************************)
FirstNotReplayed == \A c \in Callers : lost[c] = 1 => sends[c] = 1

(***************************************************************************)
(* Callers that fail together reconnect once: a connection that a peer has *)
(* just built is replaced only by a caller whose own request failed on it, *)
(* or when it is visibly of no use. Otherwise the callers of one dead      *)
(* connection would close each other's replacements, and every request     *)
(* that is pending on them.                                                *)
(***************************************************************************)
FreshKept ==
    [][Gen' # Gen => \/ ~home \/ Stopped
                     \/ \E c \in Callers : lock = c /\ tried[c] = Gen]_vars

\* No call waits for ever, whoever else was cancelled or failed with the lock held.
CallsEnd == \A c \in Callers : call[c].pc # "idle" ~> call[c].pc = "idle"

\* While there are callers, a connection that went bad does not stay the one in use.
Recovers == ~(home /\ conns[Gen] = "up") ~> home /\ conns[Gen] = "up"

(***************************************************************************)
(* "the request may have reached the server, so the adapter must not retry *)
(* it" (_DeadWebSocketReceiverError, storage/surrealdb/store.py:79): a     *)
(* query that was pending when its receiver stopped is not sent again.     *)
(***************************************************************************)
NotReplayed == \A c \in Callers : lost[c] # 0 => sends[c] = lost[c]
=============================================================================
