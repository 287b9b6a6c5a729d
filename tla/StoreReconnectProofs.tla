------------------------ MODULE StoreReconnectProofs ------------------------
(***************************************************************************)
(* TLAPS proofs about StoreReconnect, for every number of callers, retries *)
(* and faults, on both transports.                                         *)
(***************************************************************************)
EXTENDS StoreReconnect, TLAPS

SharedOK ==
    /\ conns \in Seq(Conditions) /\ Gen > 0
    /\ home \in BOOLEAN
    /\ conns[Gen] # "closed"
    /\ Socket /\ ~home => Stopped
    /\ faults \in 0 .. MaxFaults

LockOK ==
    /\ lock \in Callers \cup {NoCaller}
    /\ \A c \in Callers : call[c].pc \in {"dialing", "closing"} <=> lock = c

TypesOK ==
    /\ call \in [Callers -> Calls]
    /\ sends \in [Callers -> Nat]
    /\ lost \in [Callers -> 0 .. Attempts + 1]
    /\ tried \in [Callers -> 0 .. Gen]

\* Whoever waits for the lock, or holds it, has a reason to replace the
\* connection that it noted, as long as that is the one in use.
Entitled(c) ==
    LET x == call[c] IN
    x.pc \in {"waiting", "dialing"} =>
        /\ x.stage = "loop" => /\ x.base = x.noted /\ x.attempt = 0
                               /\ x.noted = Gen => ~home
        /\ x.stage = "receiver" => x.attempt = 0 /\ (x.noted = Gen => Stopped)
        /\ x.stage = "retry" => /\ x.base = x.noted /\ x.attempt > 0
                                /\ tried[c] = x.noted \/ (x.noted = Gen => ~home)

Placed(c) ==
    LET x == call[c] IN
    /\ x.pc = "dialing" => x.noted = Gen
    /\ x.pc = "closing" => x.noted \in 1 .. Gen - 1 /\ x.stage # "loop"
    /\ x.pc = "sent" => x.on = x.base /\ x.on \in 1 .. Gen

\* The number of the attempt bounds the sendings. On a WebSocket the first
\* attempt is only followed by another when it sent the query.
Counted(c) ==
    LET x == call[c] IN
    /\ x.pc = "sent" => sends[c] \in 1 .. x.attempt + 1
    /\ x.pc \in {"waiting", "dialing", "closing"} => sends[c] <= x.attempt
    /\ Socket /\ x.attempt > 0 =>
          IF x.pc = "sent" THEN sends[c] > 1 ELSE sends[c] > 0
    /\ sends[c] <= Attempts + 1

\* A query that was cut off in its first attempt is still there, on a
\* connection that is gone, or has ended.
CutOff(c) ==
    lost[c] = 1 =>
        /\ sends[c] = 1
        /\ \/ call[c].pc = "idle"
           \/ /\ call[c].pc = "sent" /\ call[c].attempt = 0
              /\ conns[call[c].on] \in {"stopped", "closed"}

CallOK(c) == Entitled(c) /\ Placed(c) /\ Counted(c) /\ CutOff(c)

Inv == SharedOK /\ LockOK /\ TypesOK /\ \A c \in Callers : CallOK(c)

-----------------------------------------------------------------------------
(* Lemmas about the building blocks *)

LEMMA GenNat == SharedOK => Gen \in Nat /\ \A g \in 1 .. Gen : conns[g] \in Conditions
BY DEF SharedOK, Gen

\* What the others do leaves a caller's call as it should be.
LEMMA OthersStay ==
  ASSUME ReconnectAssumption, Inv, NEW c \in Callers,
         call'[c] = call[c], sends'[c] = sends[c], tried'[c] = tried[c],
         \/ lost'[c] = lost[c]
         \/ /\ Socket /\ call[c].pc = "sent" /\ lost'[c] = sends[c]
            /\ conns'[call[c].on] \in {"stopped", "closed"},
         Gen' \in Nat, Gen' >= Gen,
         Gen' = Gen => home' = home /\ (Stopped => Stopped'),
         call[c].pc = "dialing" => Gen' = Gen,
         \A g \in 1 .. Gen : conns[g] \in {"stopped", "closed"} =>
                                conns'[g] \in {"stopped", "closed"}
  PROVE  /\ CallOK(c)' /\ call'[c] \in Calls' /\ tried'[c] \in 0 .. Gen'
         /\ sends'[c] \in Nat /\ lost'[c] \in 0 .. Attempts + 1
<1>1. /\ CallOK(c) /\ Gen \in Nat /\ call[c] \in Calls /\ tried[c] \in 0 .. Gen
      /\ sends[c] \in Nat /\ lost[c] \in 0 .. Attempts + 1 /\ Attempts \in Nat
  BY GenNat, ReconnectAssumption DEF Inv, TypesOK
<1>2. call[c] \in Calls'
  BY <1>1 DEF Calls
<1>3. Entitled(c)'
  BY <1>1 DEF CallOK, Entitled, Calls
<1>4. Placed(c)'
  BY <1>1 DEF CallOK, Placed, Calls
<1>5. Counted(c)'
  BY <1>1 DEF CallOK, Counted
<1>6. CutOff(c)'
  <2>1. CASE lost'[c] = lost[c]
    BY <1>1, <2>1 DEF CallOK, CutOff, Placed
  <2>2. CASE /\ Socket /\ call[c].pc = "sent" /\ lost'[c] = sends[c]
             /\ conns'[call[c].on] \in {"stopped", "closed"}
    BY <1>1, <2>2 DEF CallOK, CutOff, Counted, Calls
  <2> QED
    BY <2>1, <2>2
<1>7. lost'[c] \in 0 .. Attempts + 1
  BY <1>1 DEF CallOK, Counted
<1> QED
  BY <1>7, <1>1, <1>2, <1>3, <1>4, <1>5, <1>6 DEF CallOK

LEMMA WaitOK ==
  ASSUME NEW c, NEW x, NEW stage, NEW noted, call \in [Callers -> Calls], c \in Callers,
         Wait(c, x, stage, noted), NEW k, x \in [pc : Steps, stage : Stages, base : 0 .. k,
                             noted : 0 .. k, attempt : 0 .. Attempts, on : 0 .. k]
  PROVE  /\ call'[c].pc = "waiting" /\ call'[c].stage = stage /\ call'[c].noted = noted
         /\ call'[c].base = x.base /\ call'[c].attempt = x.attempt /\ call'[c].on = x.on
         /\ call'[c] = [pc |-> "waiting", stage |-> stage, base |-> x.base, noted |-> noted,
                        attempt |-> x.attempt, on |-> x.on]
         /\ \A d \in Callers : d # c => call'[d] = call[d]
BY DEF Wait, Become

LEMMA SendOK ==
  ASSUME NEW c, NEW x, call \in [Callers -> Calls], c \in Callers,
         Send(c, x), NEW k, x \in [pc : Steps, stage : Stages, base : 0 .. k,
                             noted : 0 .. k, attempt : 0 .. Attempts, on : 0 .. k]
  PROVE  /\ call'[c].pc = "sent" /\ call'[c].stage = x.stage /\ call'[c].noted = x.noted
         /\ call'[c].base = Gen' /\ call'[c].attempt = x.attempt /\ call'[c].on = Gen'
         /\ call'[c] = [pc |-> "sent", stage |-> x.stage, base |-> Gen', noted |-> x.noted,
                        attempt |-> x.attempt, on |-> Gen']
         /\ \A d \in Callers : d # c => call'[d] = call[d]
BY DEF Send, Become

LEMMA EndOK ==
  ASSUME Inv, NEW c \in Callers, End(c), lost'[c] = lost[c]
  PROVE  /\ CallOK(c)' /\ call'[c] = Idle /\ sends'[c] = sends[c]
         /\ \A d \in Callers : d # c => call'[d] = call[d] /\ sends'[d] = sends[d]
<1>1. call'[c] = Idle /\ sends' = sends /\ \A d \in Callers : d # c => call'[d] = call[d]
  BY DEF End, Become, Inv, TypesOK
<1>2. CallOK(c)'
  BY <1>1 DEF CallOK, Entitled, Placed, Counted, CutOff, Idle, Inv
<1> QED
  BY <1>1, <1>2

LEMMA IdleTyped ==
  ASSUME ReconnectAssumption, SharedOK
  PROVE  Idle \in Calls
<1>1. 0 \in 0 .. Gen /\ 0 \in 0 .. Attempts
  BY GenNat DEF ReconnectAssumption
<1> QED
  BY <1>1 DEF Idle, Calls, Steps, Stages

LEMMA ProceedOK ==
  ASSUME ReconnectAssumption, Inv, SharedOK', NEW c \in Callers, Proceed(c, call[c]),
         call[c].pc \in {"waiting", "dialing", "closing"},
         lost'[c] = lost[c], tried'[c] = tried[c], Gen' >= Gen
  PROVE  /\ CallOK(c)' /\ call'[c] \in Calls' /\ sends'[c] \in Nat
         /\ call'[c].pc \in {"waiting", "sent"}
         /\ \A d \in Callers : d # c => call'[d] = call[d] /\ sends'[d] = sends[d]
<1>1. /\ CallOK(c) /\ Gen \in Nat /\ call \in [Callers -> Calls] /\ call[c] \in Calls
      /\ sends \in [Callers -> Nat] /\ Attempts \in Nat
  BY GenNat, ReconnectAssumption DEF Inv, TypesOK
<1>2. Gen' \in Nat /\ Gen' > 0
  BY DEF SharedOK, Gen
<1>3. lost[c] # 1
  BY <1>1 DEF CallOK, CutOff
<1>4. CASE Wait(c, call[c], "receiver", Gen') /\ Stopped' /\ call[c].stage = "loop"
  <2>1. /\ call'[c].pc = "waiting" /\ call'[c].stage = "receiver" /\ call'[c].noted = Gen'
        /\ call'[c].attempt = call[c].attempt /\ sends' = sends
        /\ call'[c] = [pc |-> "waiting", stage |-> "receiver", base |-> call[c].base,
                       noted |-> Gen', attempt |-> call[c].attempt, on |-> call[c].on]
        /\ \A d \in Callers : d # c => call'[d] = call[d]
    <3>1. sends' = sends
      BY <1>4 DEF Wait
    <3>2. call[c] \in [pc : Steps, stage : Stages, base : 0 .. Gen, noted : 0 .. Gen,
                       attempt : 0 .. Attempts, on : 0 .. Gen]
      BY <1>1 DEF Calls
    <3> QED
      BY <1>1, <1>4, <3>1, <3>2, WaitOK
  <2>2. call'[c] \in Calls'
    BY <1>1, <1>2, <2>1 DEF Calls, Steps, Stages
  <2>3. call[c].attempt = 0
    BY <1>1, <1>4 DEF CallOK, Entitled, Placed
  <2> QED
    BY <1>1, <1>2, <1>3, <1>4, <2>1, <2>2, <2>3 DEF CallOK, Entitled, Placed, Counted, CutOff
<1>5. CASE Send(c, call[c])
  <2>1. /\ call'[c].pc = "sent" /\ call'[c].base = Gen' /\ call'[c].on = Gen'
        /\ call'[c].attempt = call[c].attempt
        /\ call'[c] = [pc |-> "sent", stage |-> call[c].stage, base |-> Gen',
                       noted |-> call[c].noted, attempt |-> call[c].attempt, on |-> Gen']
        /\ \A d \in Callers : d # c => call'[d] = call[d]
    BY <1>1, <1>5, SendOK DEF Calls
  <2>2. sends'[c] = sends[c] + 1 /\ \A d \in Callers : d # c => sends'[d] = sends[d]
    BY <1>1, <1>5 DEF Send
  <2>3. call'[c] \in Calls'
    BY <1>1, <1>2, <2>1 DEF Calls, Steps
  <2>4. Counted(c)'
    BY <1>1, <2>1, <2>2 DEF CallOK, Counted, Calls
  <2> QED
    BY <1>1, <1>2, <1>3, <2>1, <2>2, <2>3, <2>4 DEF CallOK, Entitled, Placed, CutOff
<1> QED
  BY <1>4, <1>5 DEF Proceed, CheckReceiver

LEMMA HandleOK ==
  ASSUME ReconnectAssumption, Inv, NEW c \in Callers, NEW kind, Handle(c, kind),
         conns' = conns, home' = home, lost' = lost,
         \/ call[c].pc = "dialing" /\ tried'[c] = tried[c]
         \/ call[c].pc = "sent" /\ tried'[c] = call[c].on
  PROVE  /\ CallOK(c)' /\ call'[c] \in Calls' /\ call'[c].pc \in {"idle", "waiting"}
         /\ sends' = sends
         /\ \A d \in Callers : d # c => call'[d] = call[d]
<1>1. /\ CallOK(c) /\ Gen \in Nat /\ call \in [Callers -> Calls] /\ call[c] \in Calls
      /\ sends \in [Callers -> Nat] /\ Attempts \in Nat /\ Gen' = Gen /\ SharedOK
  BY GenNat, ReconnectAssumption DEF Inv, TypesOK, Gen
<1>2. CASE End(c)
  <2>1. Idle \in Calls'
    BY <1>1, IdleTyped DEF Calls
  <2>2. sends' = sends
    BY <1>2 DEF End
  <2> QED
    BY <1>2, <2>1, <2>2, EndOK DEF Idle
<1>3. CASE /\ Wait(c, [call[c] EXCEPT !.attempt = @ + 1], "retry", call[c].base)
           /\ call[c].attempt = 0 => Replayable(c, kind)
           /\ call[c].attempt # Attempts
  <2> DEFINE y == [pc |-> call[c].pc, stage |-> call[c].stage, base |-> call[c].base,
                   noted |-> call[c].noted, attempt |-> call[c].attempt + 1, on |-> call[c].on]
  <2>1. y \in Calls /\ y = [call[c] EXCEPT !.attempt = @ + 1]
    BY <1>1, <1>3 DEF Calls
  <2>2. Wait(c, y, "retry", call[c].base)
    BY <1>3, <2>1
  <2>3. sends' = sends
    BY <1>3 DEF Wait
  <2>4. y \in [pc : Steps, stage : Stages, base : 0 .. Gen, noted : 0 .. Gen,
               attempt : 0 .. Attempts, on : 0 .. Gen]
    BY <2>1 DEF Calls
  <2> HIDE DEF y
  <2>5. /\ call'[c] = [pc |-> "waiting", stage |-> "retry", base |-> y.base,
                       noted |-> call[c].base, attempt |-> y.attempt, on |-> y.on]
        /\ \A d \in Callers : d # c => call'[d] = call[d]
    BY <1>1, <2>2, <2>4, WaitOK
  <2>6. y.base = call[c].base /\ y.attempt = call[c].attempt + 1 /\ y.on = call[c].on
    BY DEF y
  <2>7. call'[c] \in Calls'
    BY <1>1, <2>4, <2>5 DEF Calls, Steps, Stages
  <2>8. lost[c] # 1
    BY <1>1, <1>3 DEF CallOK, CutOff, Placed, Replayable, Stopped, SharedOK
  <2>9. Counted(c)'
    <3>1. CASE call[c].pc = "sent"
      BY <1>1, <2>3, <2>5, <2>6, <3>1 DEF CallOK, Counted, Calls
    <3>2. CASE call[c].pc = "dialing"
      <4>1. Socket => call[c].attempt > 0
        BY <1>1, <1>3, <3>2
           DEF CallOK, Entitled, Placed, Calls, Stages, SharedOK, Replayable
      <4> QED
        BY <1>1, <2>3, <2>5, <2>6, <3>2, <4>1 DEF CallOK, Counted, Calls
    <3> QED
      BY <3>1, <3>2
  <2>10. Entitled(c)'
    <3>1. CASE call[c].pc = "sent"
      BY <1>1, <2>5, <2>6, <3>1 DEF CallOK, Entitled, Placed, Calls
    <3>2. CASE call[c].pc = "dialing"
      BY <1>1, <1>3, <2>5, <2>6, <3>2
         DEF CallOK, Entitled, Placed, Calls, Stages, Replayable
    <3> QED
      BY <3>1, <3>2
  <2> QED
    BY <2>3, <2>5, <2>7, <2>8, <2>9, <2>10 DEF CallOK, Placed, CutOff
<1> QED
  BY <1>2, <1>3 DEF Handle

-----------------------------------------------------------------------------
(* The steps *)

\* What a step of one caller keeps, from what it does to that caller.
LEMMA OneStep ==
  ASSUME ReconnectAssumption, Inv, NEW c \in Callers,
         \E x : Become(c, x), sends' = sends \/ sends' = [sends EXCEPT ![c] = sends'[c]],
         lost' = [d \in Callers |-> lost'[d]], tried' = [d \in Callers |-> tried'[d]],
         CallOK(c)', call'[c] \in Calls', sends'[c] \in Nat,
         lost'[c] \in 0 .. Attempts + 1, tried'[c] \in 0 .. Gen',
         \A d \in Callers \ {c} :
            /\ tried'[d] = tried[d]
            /\ \/ lost'[d] = lost[d]
               \/ /\ Socket /\ call[d].pc = "sent" /\ lost'[d] = sends[d]
                  /\ conns'[call[d].on] \in {"stopped", "closed"},
         SharedOK', LockOK', Gen' >= Gen,
         Gen' = Gen => home' = home /\ (Stopped => Stopped'),
         Gen' = Gen \/ lock = c,
         \A g \in 1 .. Gen : conns[g] \in {"stopped", "closed"} =>
                                conns'[g] \in {"stopped", "closed"}
  PROVE  Inv'
<1>1. call \in [Callers -> Calls] /\ sends \in [Callers -> Nat] /\ Gen' \in Nat
  BY DEF Inv, TypesOK, SharedOK, Gen
<1>2. \A d \in Callers \ {c} : call'[d] = call[d] /\ sends'[d] = sends[d]
  BY <1>1 DEF Become
<1>3. ASSUME NEW d \in Callers \ {c}
      PROVE  /\ CallOK(d)' /\ call'[d] \in Calls' /\ tried'[d] \in 0 .. Gen'
             /\ sends'[d] \in Nat /\ lost'[d] \in 0 .. Attempts + 1
  <2>1. call[d].pc = "dialing" => Gen' = Gen
    BY DEF Inv, LockOK
  <2> QED
    BY <1>1, <1>2, <2>1, OthersStay
<1>4. call' = [d \in Callers |-> call'[d]]
  BY <1>1 DEF Become
<1>5. sends' = [d \in Callers |-> sends'[d]]
  BY <1>1
<1>6. TypesOK'
  <2>1. call' \in [Callers -> Calls']
    BY <1>3, <1>4
  <2>2. sends' \in [Callers -> Nat]
    BY <1>3, <1>5
  <2>3. lost' \in [Callers -> 0 .. Attempts + 1]
    BY <1>3
  <2>4. tried' \in [Callers -> 0 .. Gen']
    BY <1>3
  <2> QED
    BY <2>1, <2>2, <2>3, <2>4 DEF TypesOK
<1> QED
  BY <1>3, <1>6 DEF Inv

\* A step of the environment touches no call.
LEMMA NoStep ==
  ASSUME ReconnectAssumption, Inv,
         call' = call, sends' = sends, tried' = tried, lock' = lock,
         lost' = [d \in Callers |-> lost'[d]],
         \A d \in Callers :
            \/ lost'[d] = lost[d]
            \/ /\ Socket /\ call[d].pc = "sent" /\ lost'[d] = sends[d]
               /\ conns'[call[d].on] \in {"stopped", "closed"},
         SharedOK', Gen' = Gen, home' = home /\ (Stopped => Stopped'),
         \A g \in 1 .. Gen : conns[g] \in {"stopped", "closed"} =>
                                conns'[g] \in {"stopped", "closed"}
  PROVE  Inv'
<1>1. Gen \in Nat
  BY GenNat DEF Inv
<1>2. ASSUME NEW d \in Callers
      PROVE  /\ CallOK(d)' /\ lost'[d] \in 0 .. Attempts + 1
  BY <1>1, OthersStay
<1>3. LockOK'
  BY DEF Inv, LockOK
<1>4. TypesOK'
  <2>1. call' \in [Callers -> Calls']
    BY DEF Inv, TypesOK, Calls
  <2>2. lost' \in [Callers -> 0 .. Attempts + 1]
    BY <1>2
  <2> QED
    BY <2>1, <2>2 DEF Inv, TypesOK
<1> QED
  BY <1>2, <1>3, <1>4 DEF Inv

LEMMA BeginKeeps ==
  ASSUME ReconnectAssumption, Inv, NEW c \in Callers, Begin(c)
  PROVE  Inv'
<1> DEFINE y == IF ~home THEN Started("waiting", "loop", Gen, 0)
                ELSE IF Stopped THEN Started("waiting", "receiver", Gen, 0)
                ELSE Started("sent", "loop", 0, Gen)
           n == IF home /\ ~Stopped THEN 1 ELSE 0
<1>1. /\ call' = [call EXCEPT ![c] = y] /\ sends' = [sends EXCEPT ![c] = n]
      /\ lost' = [lost EXCEPT ![c] = 0]
      /\ conns' = conns /\ home' = home /\ lock' = lock /\ faults' = faults /\ tried' = tried
  BY DEF Begin
<1>2. y = IF ~home THEN [pc |-> "waiting", stage |-> "loop", base |-> Gen, noted |-> Gen,
                         attempt |-> 0, on |-> 0]
          ELSE IF Stopped THEN [pc |-> "waiting", stage |-> "receiver", base |-> Gen,
                                noted |-> Gen, attempt |-> 0, on |-> 0]
          ELSE [pc |-> "sent", stage |-> "loop", base |-> Gen, noted |-> 0,
                attempt |-> 0, on |-> Gen]
  BY DEF Started
<1>3. /\ Gen \in Nat /\ Gen > 0 /\ Attempts \in Nat /\ SharedOK
      /\ call \in [Callers -> Calls] /\ sends \in [Callers -> Nat]
      /\ lost \in [Callers -> 0 .. Attempts + 1] /\ tried \in [Callers -> 0 .. Gen]
  BY GenNat, ReconnectAssumption DEF Inv, TypesOK, SharedOK
<1>4. Gen' = Gen /\ SharedOK' /\ (Stopped <=> Stopped')
  BY <1>1, <1>3 DEF Gen, SharedOK, Stopped
<1> HIDE DEF y
<1>5. call'[c] = y /\ sends'[c] = n /\ lost'[c] = 0 /\ n \in Nat
  BY <1>1, <1>3
<1>6. y \in Calls'
  BY <1>2, <1>3, <1>4 DEF Calls, Steps, Stages
<1>7. CallOK(c)'
  BY <1>1, <1>2, <1>3, <1>4, <1>5 DEF CallOK, Entitled, Placed, Counted, CutOff
<1>8. LockOK'
  BY <1>1, <1>2, <1>3, <1>5 DEF Inv, LockOK, Begin
<1>9. \E z : Become(c, z)
  BY <1>1 DEF Become
<1>10. lost' = [d \in Callers |-> lost'[d]] /\ tried' = [d \in Callers |-> tried'[d]]
  BY <1>1, <1>3
<1>11. /\ lost'[c] \in 0 .. Attempts + 1 /\ tried'[c] \in 0 .. Gen'
       /\ \A d \in Callers \ {c} : tried'[d] = tried[d] /\ lost'[d] = lost[d]
  BY <1>1, <1>3, <1>4, <1>5
<1>12. sends' = [sends EXCEPT ![c] = sends'[c]]
  BY <1>1, <1>5
<1>13. /\ Gen' >= Gen /\ home' = home /\ (Stopped => Stopped')
       /\ \A g \in 1 .. Gen : conns'[g] = conns[g]
  BY <1>1, <1>3, <1>4
<1> HIDE DEF n
<1> QED
  BY <1>4, <1>5, <1>6, <1>7, <1>8, <1>9, <1>10, <1>11, <1>12, <1>13, OneStep

\* What every step of a caller does to the variables it may change.
LEMMA Shapes ==
  ASSUME ReconnectAssumption, Inv, NEW c \in Callers
  PROVE  /\ Proceed(c, call[c]) =>
               /\ \E x : Become(c, x)
               /\ sends' = sends \/ sends' = [sends EXCEPT ![c] = sends'[c]]
         /\ \A kind : Handle(c, kind) => (\E x : Become(c, x)) /\ sends' = sends
         /\ End(c) => (\E x : Become(c, x)) /\ sends' = sends
         /\ lost' = lost => lost' = [d \in Callers |-> lost'[d]]
         /\ tried' = tried => tried' = [d \in Callers |-> tried'[d]]
<1>1. /\ call \in [Callers -> Calls] /\ sends \in [Callers -> Nat]
      /\ lost \in [Callers -> 0 .. Attempts + 1] /\ tried \in [Callers -> 0 .. Gen]
  BY DEF Inv, TypesOK
<1>2. ASSUME NEW x, NEW st, NEW k, Wait(c, x, st, k)
      PROVE  (\E z : Become(c, z)) /\ sends' = sends
  BY <1>2 DEF Wait
<1>3. ASSUME NEW x, Send(c, x)
      PROVE  (\E z : Become(c, z)) /\ sends' = [sends EXCEPT ![c] = sends'[c]]
  BY <1>1, <1>3 DEF Send
<1>4. End(c) => (\E x : Become(c, x)) /\ sends' = sends
  BY DEF End
<1> QED
  BY <1>1, <1>2, <1>3, <1>4 DEF Proceed, CheckReceiver, Handle

LEMMA AcquireKeeps ==
  ASSUME ReconnectAssumption, Inv, NEW c \in Callers, Acquire(c)
  PROVE  Inv'
<1>1. /\ call[c].pc = "waiting" /\ lock = NoCaller
      /\ conns' = conns /\ home' = home /\ faults' = faults /\ tried' = tried /\ lost' = lost
  BY DEF Acquire
<1>2. /\ Gen \in Nat /\ Gen > 0 /\ Attempts \in Nat /\ SharedOK
      /\ call \in [Callers -> Calls] /\ sends \in [Callers -> Nat] /\ CallOK(c)
      /\ lost \in [Callers -> 0 .. Attempts + 1] /\ tried \in [Callers -> 0 .. Gen]
  BY GenNat, ReconnectAssumption DEF Inv, TypesOK, SharedOK
<1>3. Gen' = Gen /\ SharedOK' /\ (Stopped <=> Stopped')
  BY <1>1, <1>2 DEF Gen, SharedOK, Stopped
<1>4. CASE /\ MayDial(c) /\ lock' = c /\ sends' = sends
           /\ Become(c, [call[c] EXCEPT !.pc = "dialing"])
  <2>1. call'[c] = [pc |-> "dialing", stage |-> call[c].stage, base |-> call[c].base,
                    noted |-> call[c].noted, attempt |-> call[c].attempt, on |-> call[c].on]
        /\ \A d \in Callers : d # c => call'[d] = call[d]
    BY <1>2, <1>4 DEF Become, Calls
  <2>2. call'[c] \in Calls'
    BY <1>2, <1>3, <2>1 DEF Calls, Steps
  <2>3. CallOK(c)'
    BY <1>1, <1>2, <1>3, <1>4, <2>1
       DEF CallOK, Entitled, Placed, Counted, CutOff, MayDial
  <2>4. LockOK'
    BY <1>1, <1>4, <2>1 DEF Inv, LockOK, ReconnectAssumption
  <2> QED
    BY <1>1, <1>2, <1>3, <1>4, <2>2, <2>3, <2>4, Shapes, OneStep
<1>5. CASE lock' = NoCaller /\ Proceed(c, call[c])
  <2>1. /\ CallOK(c)' /\ call'[c] \in Calls' /\ sends'[c] \in Nat
        /\ call'[c].pc \in {"waiting", "sent"}
        /\ \A d \in Callers : d # c => call'[d] = call[d] /\ sends'[d] = sends[d]
    BY <1>1, <1>2, <1>3, <1>5, ProceedOK
  <2>2. LockOK'
    BY <1>1, <1>5, <2>1 DEF Inv, LockOK, ReconnectAssumption
  <2> QED
    BY <1>1, <1>2, <1>3, <1>5, <2>1, <2>2, Shapes, OneStep
<1> QED
  BY <1>4, <1>5 DEF Acquire

LEMMA DialSucceedsKeeps ==
  ASSUME ReconnectAssumption, Inv, NEW c \in Callers, DialSucceeds(c)
  PROVE  Inv'
<1>1. /\ call[c].pc = "dialing" /\ conns' = Append(conns, "up") /\ home' = TRUE
      /\ faults' = faults /\ tried' = tried /\ lost' = lost
  BY DEF DialSucceeds
<1>2. /\ Gen \in Nat /\ Gen > 0 /\ Attempts \in Nat /\ SharedOK /\ lock = c
      /\ call \in [Callers -> Calls] /\ sends \in [Callers -> Nat] /\ CallOK(c)
      /\ lost \in [Callers -> 0 .. Attempts + 1] /\ tried \in [Callers -> 0 .. Gen]
  BY <1>1, GenNat, ReconnectAssumption DEF Inv, TypesOK, SharedOK, LockOK
<1>3. /\ Gen' = Gen + 1 /\ conns' \in Seq(Conditions) /\ conns'[Gen'] = "up"
      /\ \A g \in 1 .. Gen : conns'[g] = conns[g]
  BY <1>1, <1>2 DEF Gen, SharedOK, Conditions
<1>4. SharedOK' /\ Gen' >= Gen /\ Gen' # Gen
  <2>1. Gen' > 0 /\ faults' \in 0 .. MaxFaults /\ conns'[Gen'] # "closed"
    <3>1. Gen' > 0 /\ conns'[Gen'] # "closed"
      BY <1>2, <1>3
    <3>2. faults \in 0 .. MaxFaults
      BY <1>2 DEF SharedOK
    <3> QED
      BY <1>1, <3>1, <3>2
  <2>2. home' \in BOOLEAN /\ home'
    BY <1>1
  <2>4. (Socket /\ ~home => Stopped)'
    BY <2>2
  <2>3. SharedOK'
    BY <1>3, <2>1, <2>2, <2>4 DEF SharedOK
  <2> QED
    BY <1>2, <1>3, <2>3
<1>5. CASE /\ home /\ lock' = lock /\ sends' = sends
           /\ Become(c, [call[c] EXCEPT !.pc = "closing"])
  <2>1. call'[c] = [pc |-> "closing", stage |-> call[c].stage, base |-> call[c].base,
                    noted |-> call[c].noted, attempt |-> call[c].attempt, on |-> call[c].on]
        /\ \A d \in Callers : d # c => call'[d] = call[d]
    BY <1>2, <1>5 DEF Become, Calls
  <2>2. call'[c] \in Calls'
    BY <1>2, <1>3, <2>1 DEF Calls, Steps
  <2>3. CallOK(c)'
    BY <1>1, <1>2, <1>3, <1>5, <2>1
       DEF CallOK, Entitled, Placed, Counted, CutOff, Calls
  <2>4. LockOK'
    BY <1>1, <1>2, <1>5, <2>1 DEF Inv, LockOK
  <2> QED
    <3>1. /\ \E x : Become(c, x) /\ sends'[c] \in Nat /\ tried'[c] \in 0 .. Gen'
          /\ lost'[c] \in 0 .. Attempts + 1
      BY <1>1, <1>2, <1>3, <1>5
    <3> QED
      BY <1>1, <1>2, <1>3, <1>4, <1>5, <2>2, <2>3, <2>4, <3>1, Shapes, OneStep
<1>6. CASE lock' = NoCaller /\ Proceed(c, call[c])
  <2>1. /\ CallOK(c)' /\ call'[c] \in Calls' /\ sends'[c] \in Nat
        /\ call'[c].pc \in {"waiting", "sent"}
        /\ \A d \in Callers : d # c => call'[d] = call[d] /\ sends'[d] = sends[d]
    BY <1>1, <1>2, <1>3, <1>4, <1>6, ProceedOK
  <2>2. LockOK'
    BY <1>1, <1>2, <1>6, <2>1 DEF Inv, LockOK, ReconnectAssumption
  <2>3. tried'[c] \in 0 .. Gen' /\ lost'[c] \in 0 .. Attempts + 1
    BY <1>1, <1>2, <1>3
  <2> QED
    BY <1>1, <1>2, <1>3, <1>4, <1>6, <2>1, <2>2, <2>3, Shapes, OneStep
<1> QED
  BY <1>5, <1>6 DEF DialSucceeds

LEMMA PreviousClosedKeeps ==
  ASSUME ReconnectAssumption, Inv, NEW c \in Callers, PreviousClosed(c)
  PROVE  Inv'
<1> DEFINE g == call[c].noted
<1>1. /\ call[c].pc = "closing" /\ lock' = NoCaller /\ Proceed(c, call[c])
      /\ home' = home /\ faults' = faults /\ tried' = tried
  BY DEF PreviousClosed
<1>2. /\ Gen \in Nat /\ Gen > 0 /\ Attempts \in Nat /\ SharedOK /\ lock = c
      /\ call \in [Callers -> Calls] /\ sends \in [Callers -> Nat] /\ CallOK(c)
      /\ lost \in [Callers -> 0 .. Attempts + 1] /\ tried \in [Callers -> 0 .. Gen]
  BY <1>1, GenNat, ReconnectAssumption DEF Inv, TypesOK, SharedOK, LockOK
<1>3. g \in 1 .. Gen - 1
  BY <1>1, <1>2 DEF CallOK, Placed
<1>4. \/ conns' = conns /\ lost' = lost
      \/ Socket /\ conns' = [conns EXCEPT ![g] = "closed"] /\ Cut(g)
  BY DEF PreviousClosed
<1>5. /\ Gen' = Gen /\ conns' \in Seq(Conditions) /\ conns'[Gen] = conns[Gen]
      /\ \A h \in 1 .. Gen : conns[h] \in {"stopped", "closed"} =>
                                conns'[h] \in {"stopped", "closed"}
      /\ conns' = [conns EXCEPT ![g] = "closed"] => conns'[g] = "closed"
  <2>1. conns \in Seq(Conditions)
    BY <1>2 DEF SharedOK
  <2> HIDE DEF g
  <2>2. CASE conns' = conns /\ lost' = lost
    BY <1>2, <2>1, <2>2, <1>3 DEF Gen
  <2>3. CASE Socket /\ conns' = [conns EXCEPT ![g] = "closed"] /\ Cut(g)
    BY <1>2, <1>3, <2>1, <2>3 DEF Gen, Conditions
  <2> QED
    BY <1>4, <2>2, <2>3
<1>6. SharedOK' /\ (Stopped <=> Stopped')
  BY <1>1, <1>2, <1>5 DEF SharedOK, Stopped
<1>7. /\ lost' = [d \in Callers |-> lost'[d]] /\ lost'[c] = lost[c]
      /\ \A d \in Callers \ {c} :
            \/ lost'[d] = lost[d]
            \/ /\ Socket /\ call[d].pc = "sent" /\ lost'[d] = sends[d]
               /\ conns'[call[d].on] \in {"stopped", "closed"}
  <2>1. CASE conns' = conns /\ lost' = lost
    BY <1>2, <2>1
  <2>2. CASE Socket /\ conns' = [conns EXCEPT ![g] = "closed"] /\ Cut(g)
    <3>1. ASSUME NEW d \in Callers
          PROVE  lost'[d] = IF call[d].pc = "sent" /\ call[d].on = g /\ lost[d] = 0
                            THEN sends[d] ELSE lost[d]
      BY <2>2 DEF Cut
    <3>2. lost' = [d \in Callers |-> lost'[d]]
      BY <2>2 DEF Cut
    <3> HIDE DEF g
    <3> QED
      BY <1>1, <1>5, <2>2, <3>1, <3>2
  <2> QED
    BY <1>4, <2>1, <2>2
<1>8. /\ CallOK(c)' /\ call'[c] \in Calls' /\ sends'[c] \in Nat
      /\ call'[c].pc \in {"waiting", "sent"}
      /\ \A d \in Callers : d # c => call'[d] = call[d] /\ sends'[d] = sends[d]
  BY <1>1, <1>2, <1>5, <1>6, <1>7, ProceedOK
<1>9. LockOK'
  BY <1>1, <1>2, <1>8 DEF Inv, LockOK, ReconnectAssumption
<1>10. tried'[c] \in 0 .. Gen' /\ lost'[c] \in 0 .. Attempts + 1 /\ Gen' >= Gen
  BY <1>1, <1>2, <1>5, <1>7
<1> HIDE DEF g
<1> QED
  BY <1>1, <1>2, <1>5, <1>6, <1>7, <1>8, <1>9, <1>10, Shapes, OneStep

\* When a step leaves the connection alone and lets go of the lock.
LEMMA LeaveOK ==
  ASSUME ReconnectAssumption, Inv, NEW c \in Callers,
         conns' = conns, home' = home, faults' \in 0 .. MaxFaults, lost' = lost,
         lock' = Released(c), call'[c].pc \in {"idle", "waiting"},
         \E x : Become(c, x), sends' = sends,
         CallOK(c)', call'[c] \in Calls',
         tried' = [d \in Callers |-> tried'[d]], tried'[c] \in 0 .. Gen,
         \A d \in Callers \ {c} : tried'[d] = tried[d]
  PROVE  Inv'
<1>1. /\ Gen \in Nat /\ SharedOK /\ call \in [Callers -> Calls]
      /\ sends \in [Callers -> Nat] /\ lost \in [Callers -> 0 .. Attempts + 1]
  BY GenNat DEF Inv, TypesOK
<1>2. Gen' = Gen /\ (Stopped <=> Stopped')
  BY DEF Gen, Stopped
<1>3. SharedOK'
  BY <1>1, <1>2 DEF SharedOK
<1>4. \A d \in Callers : d # c => call'[d] = call[d]
  BY <1>1 DEF Become
<1>5. LockOK'
  BY <1>4 DEF Inv, LockOK, Released, ReconnectAssumption
<1> QED
  BY <1>1, <1>2, <1>3, <1>5, Shapes, OneStep

LEMMA FaultBounded == Inv /\ ReconnectAssumption /\ Fault => faults' \in 0 .. MaxFaults
BY DEF Inv, SharedOK, Fault, ReconnectAssumption

LEMMA EndKeeps ==
  ASSUME ReconnectAssumption, Inv, NEW c \in Callers, End(c), lock' = Released(c),
         conns' = conns, home' = home, faults' \in 0 .. MaxFaults, lost' = lost,
         tried' = [d \in Callers |-> tried'[d]], tried'[c] \in 0 .. Gen,
         \A d \in Callers \ {c} : tried'[d] = tried[d]
  PROVE  Inv'
<1>1. /\ CallOK(c)' /\ call'[c] = Idle /\ \E x : Become(c, x)
      /\ sends' = sends
  BY EndOK DEF End
<1>2. Idle \in Calls /\ Gen' = Gen
  BY IdleTyped DEF Inv, Gen
<1>3. call'[c] \in Calls' /\ call'[c].pc = "idle"
  BY <1>1, <1>2 DEF Calls, Idle
<1> QED
  BY <1>1, <1>3, LeaveOK

LEMMA DialFailsKeeps ==
  ASSUME ReconnectAssumption, Inv, NEW c \in Callers, DialFails(c)
  PROVE  Inv'
<1>1. /\ call[c].pc = "dialing" /\ Fault /\ lock' = Released(c)
      /\ conns' = conns /\ home' = home /\ lost' = lost /\ tried' = tried
  BY DEF DialFails
<1>2. /\ faults' \in 0 .. MaxFaults /\ tried' = [d \in Callers |-> tried'[d]]
      /\ tried'[c] \in 0 .. Gen /\ Gen' = Gen
  BY <1>1, FaultBounded DEF Inv, TypesOK, Gen
<1>3. CASE Handle(c, "connection")
  BY <1>1, <1>2, <1>3, HandleOK, Shapes, LeaveOK
<1>4. CASE End(c)
  BY <1>1, <1>2, <1>4, EndKeeps
<1> QED
  BY <1>3, <1>4 DEF DialFails

LEMMA RequestFailsKeeps ==
  ASSUME ReconnectAssumption, Inv, NEW c \in Callers, RequestFails(c)
  PROVE  Inv'
<1>1. /\ call[c].pc = "sent" /\ tried' = [tried EXCEPT ![c] = call[c].on]
      /\ conns' = conns /\ home' = home /\ lost' = lost /\ lock' = lock
      /\ Fault \/ faults' = faults
  BY DEF RequestFails
<1>2. /\ faults' \in 0 .. MaxFaults /\ tried' = [d \in Callers |-> tried'[d]]
      /\ tried'[c] = call[c].on /\ \A d \in Callers \ {c} : tried'[d] = tried[d]
  BY <1>1, FaultBounded DEF Inv, TypesOK, SharedOK
<1>3. tried'[c] \in 0 .. Gen
  BY <1>1, <1>2, GenNat DEF Inv, CallOK, Placed
<1>4. lock' = Released(c)
  BY <1>1 DEF Inv, LockOK, Released
<1>5. PICK kind \in {"auth", "connection", "other"} : Handle(c, kind)
  BY DEF RequestFails
<1> QED
  BY <1>1, <1>2, <1>3, <1>4, <1>5, HandleOK, Shapes, LeaveOK

LEMMA AnsweredKeeps ==
  ASSUME ReconnectAssumption, Inv, NEW c \in Callers, Answered(c) \/ Cancel(c)
  PROVE  Inv'
<1>1. /\ End(c) /\ conns' = conns /\ home' = home /\ lost' = lost /\ tried' = tried
      /\ Fault \/ faults' = faults
  BY DEF Answered, Cancel
<1>2. /\ faults' \in 0 .. MaxFaults /\ tried' = [d \in Callers |-> tried'[d]]
      /\ tried'[c] \in 0 .. Gen
  BY <1>1, FaultBounded DEF Inv, TypesOK, SharedOK
<1>3. lock' = Released(c)
  BY DEF Inv, LockOK, Released, Answered, Cancel
<1> QED
  BY <1>1, <1>2, <1>3, EndKeeps

-----------------------------------------------------------------------------
\* The environment never improves a connection.
LEMMA Worse ==
  ASSUME ReconnectAssumption, Inv, TokenExpires \/ ServerRestarts \/ ReceiverStops \/ LoopChanges
  PROVE  /\ Gen' = Gen /\ conns' \in Seq(Conditions) /\ conns'[Gen] # "closed"
         /\ Stopped => Stopped'
         /\ \A g \in 1 .. Gen : conns[g] \in {"stopped", "closed"} =>
                                   conns'[g] \in {"stopped", "closed"}
<1>1. Gen \in Nat /\ Gen > 0 /\ conns \in Seq(Conditions) /\ conns[Gen] # "closed"
  BY GenNat DEF Inv, SharedOK
<1>2. CASE TokenExpires
  BY <1>1, <1>2 DEF TokenExpires, Gen, Stopped, Conditions
<1>3. CASE ServerRestarts
  <2>1. conns' = [g \in 1 .. Gen |-> IF conns[g] \in {"up", "expired"} THEN "broken" ELSE conns[g]]
    BY <1>3 DEF ServerRestarts
  <2>2. \A g \in 1 .. Gen : conns'[g] \in Conditions
    BY <1>1, <2>1 DEF Conditions, Gen
  <2>3. conns' \in Seq(Conditions) /\ Len(conns') = Gen
    BY <1>1, <2>1, <2>2
  <2> QED
    BY <1>1, <2>1, <2>3 DEF Gen, Stopped
<1>4. CASE ReceiverStops
  BY <1>1, <1>4 DEF ReceiverStops, Gen, Stopped, Conditions
<1>5. CASE LoopChanges
  BY <1>1, <1>5 DEF LoopChanges, Gen, Stopped, Conditions
<1> QED
  BY <1>2, <1>3, <1>4, <1>5

LEMMA EnvironmentKeeps ==
  ASSUME ReconnectAssumption, Inv, TokenExpires \/ ServerRestarts \/ ReceiverStops \/ LoopChanges
  PROVE  Inv'
<1>1. /\ call' = call /\ sends' = sends /\ tried' = tried /\ lock' = lock
      /\ Fault \/ faults' = faults
  BY DEF TokenExpires, ServerRestarts, ReceiverStops, LoopChanges
<1>2. /\ Gen \in Nat /\ Gen > 0 /\ faults' \in 0 .. MaxFaults /\ home \in BOOLEAN
      /\ lost \in [Callers -> 0 .. Attempts + 1] /\ (Socket /\ ~home => Stopped)
  BY <1>1, GenNat, FaultBounded DEF Inv, SharedOK, TypesOK
<1>3. \/ home' = home
      \/ home' = FALSE /\ (Socket => Stopped') /\ \A c \in Callers : call[c].pc = "idle"
  BY <1>2 DEF TokenExpires, ServerRestarts, ReceiverStops, LoopChanges, Stopped, Gen, Inv, SharedOK
<1>4. SharedOK'
  BY <1>2, <1>3, Worse DEF SharedOK
<1>5. CASE ReceiverStops
  <2>1. PICK g \in 1 .. Gen : conns' = [conns EXCEPT ![g] = "stopped"] /\ Cut(g)
    BY <1>5 DEF ReceiverStops
  <2>2. conns'[g] = "stopped" /\ Socket /\ home' = home
    BY <1>5, <2>1 DEF ReceiverStops, Inv, SharedOK, Gen
  <2>3. ASSUME NEW d \in Callers
        PROVE  lost'[d] = IF call[d].pc = "sent" /\ call[d].on = g /\ lost[d] = 0
                          THEN sends[d] ELSE lost[d]
    BY <2>1 DEF Cut
  <2>4. lost' = [d \in Callers |-> lost'[d]]
    BY <2>1 DEF Cut
  <2> QED
    BY <1>1, <1>4, <2>2, <2>3, <2>4, Worse, NoStep
<1>6. CASE TokenExpires \/ ServerRestarts
  <2>1. home' = home /\ lost' = lost
    BY <1>6 DEF TokenExpires, ServerRestarts
  <2> QED
    BY <1>1, <1>2, <1>4, <1>6, <2>1, Worse, NoStep
<1>7. CASE LoopChanges
  <2>1. lost' = lost /\ \A c \in Callers : call[c].pc = "idle"
    BY <1>7 DEF LoopChanges
  <2>2. Gen' = Gen /\ LockOK'
    BY <1>1, Worse DEF Inv, LockOK
  <2>3. TypesOK'
    BY <1>1, <2>1, <2>2 DEF Inv, TypesOK, Calls
  <2>4. ASSUME NEW c \in Callers
        PROVE  CallOK(c)'
    BY <1>1, <2>1 DEF Inv, CallOK, Entitled, Placed, Counted, CutOff
  <2> QED
    BY <1>4, <2>2, <2>3, <2>4 DEF Inv
<1> QED
  BY <1>5, <1>6, <1>7

LEMMA InvInit == ReconnectAssumption /\ Init => Inv
<1> SUFFICES ASSUME ReconnectAssumption, Init PROVE Inv
  OBVIOUS
<1>1. conns = <<"up">> /\ Gen = 1 /\ conns[1] = "up" /\ home = TRUE /\ faults = 0
  BY DEF Init, Gen
<1>2. conns \in Seq(Conditions)
  BY <1>1 DEF Conditions
<1>3. SharedOK
  BY <1>1, <1>2 DEF SharedOK, ReconnectAssumption
<1>4. /\ call = [c \in Callers |-> Idle] /\ sends = [c \in Callers |-> 0]
      /\ lost = [c \in Callers |-> 0] /\ tried = [c \in Callers |-> 0] /\ lock = NoCaller
  BY DEF Init
<1>5. TypesOK
  <2>1. 0 \in 0 .. Attempts + 1 /\ 0 \in 0 .. Gen
    BY <1>1 DEF ReconnectAssumption
  <2> QED
    BY <1>3, <1>4, <2>1, IdleTyped DEF TypesOK
<1>6. LockOK
  BY <1>4 DEF LockOK, Idle, ReconnectAssumption
<1>7. ASSUME NEW c \in Callers
      PROVE  CallOK(c)
  BY <1>4 DEF CallOK, Entitled, Placed, Counted, CutOff, Idle, ReconnectAssumption
<1> QED
  BY <1>3, <1>5, <1>6, <1>7 DEF Inv

LEMMA InvNext ==
  ASSUME ReconnectAssumption, Inv, [Next]_vars
  PROVE  Inv'
<1>1. ASSUME NEW c \in Callers, Begin(c) \/ OwnStep(c) \/ Cancel(c)
      PROVE  Inv'
  BY <1>1, BeginKeeps, AcquireKeeps, DialSucceedsKeeps, PreviousClosedKeeps, DialFailsKeeps,
     RequestFailsKeeps, AnsweredKeeps DEF OwnStep
<1>2. CASE TokenExpires \/ ServerRestarts \/ ReceiverStops \/ LoopChanges
  BY <1>2, EnvironmentKeeps
<1>3. CASE UNCHANGED vars
  BY <1>3 DEF vars, Inv, SharedOK, LockOK, TypesOK, CallOK, Entitled, Placed, Counted, CutOff,
              Calls, Gen, Stopped
<1> QED
  BY <1>1, <1>2, <1>3 DEF Next

LEMMA Invariant == Spec => []Inv
<1>1. ReconnectAssumption
  BY ReconnectAssumption
<1> QED
  BY <1>1, InvInit, InvNext, PTL DEF Spec

(***************************************************************************)
(* Type correctness: among other things the sendings of one query are at   *)
(* most one more than the retries, however faults and peers interleave.    *)
(***************************************************************************)
THEOREM TypeCorrect == Spec => []TypeOK
<1>1. Inv => TypeOK
  <2> SUFFICES ASSUME Inv PROVE TypeOK
    OBVIOUS
  <2>1. sends \in [Callers -> 0 .. Attempts + 1]
    BY ReconnectAssumption DEF Inv, TypesOK, CallOK, Counted, ReconnectAssumption
  <2> QED
    BY <2>1 DEF Inv, SharedOK, LockOK, TypesOK, TypeOK
<1> QED
  BY <1>1, Invariant, PTL

(***************************************************************************)
(* A query cut off in its first attempt is never sent again.               *)
(***************************************************************************)
THEOREM FirstAttemptNotReplayed == Spec => []FirstNotReplayed
<1>1. Inv => FirstNotReplayed
  BY DEF Inv, CallOK, CutOff, FirstNotReplayed
<1> QED
  BY <1>1, Invariant, PTL

(***************************************************************************)
(* Single flight: a connection is replaced only when it is of no use or by *)
(* a caller whose own request failed on it.                                *)
(***************************************************************************)
THEOREM SingleFlight == Spec => FreshKept
<1> DEFINE Kept == Gen' # Gen => \/ ~home \/ Stopped
                                 \/ \E c \in Callers : lock = c /\ tried[c] = Gen
<1>1. Inv /\ [Next]_vars => [Kept]_vars
  <2> SUFFICES ASSUME Inv, Next, Gen' # Gen PROVE Kept
    BY DEF vars, Gen
  <2>1. ReconnectAssumption
    BY ReconnectAssumption
  <2>2. PICK c \in Callers : Begin(c) \/ OwnStep(c) \/ Cancel(c)
    BY <2>1, Worse DEF Next
  <2>3. ~ (Begin(c) \/ Acquire(c) \/ DialFails(c) \/ RequestFails(c) \/ Answered(c) \/ Cancel(c))
    BY DEF Begin, Acquire, DialFails, RequestFails, Answered, Cancel, Gen
  <2>4. ~ PreviousClosed(c)
    <3>1. conns \in Seq(Conditions)
      BY DEF Inv, SharedOK
    <3> QED
      BY <3>1 DEF PreviousClosed, Gen
  <2>5. DialSucceeds(c)
    BY <2>2, <2>3, <2>4 DEF OwnStep
  <2>6. call[c].pc = "dialing" /\ lock = c /\ CallOK(c) /\ call[c] \in Calls
    BY <2>5 DEF DialSucceeds, Inv, LockOK, TypesOK
  <2>7. call[c].noted = Gen /\ call[c].stage \in Stages
    BY <2>6 DEF CallOK, Placed, Calls
  <2> QED
    BY <2>6, <2>7 DEF CallOK, Entitled, Stages
<1> QED
  BY <1>1, Invariant, PTL DEF Spec, FreshKept
=============================================================================
