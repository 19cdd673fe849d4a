-------------------------- MODULE WriteCoordinator --------------------------
(***************************************************************************)
(* The in-process gates every writer of a connector instance passes        *)
(* (reference-implementation/server/connector-instance-write-coordinator): *)
(* one gate for each instance, its key, and then a bounded number of       *)
(* admission slots for all of them. A control-plane write takes the key    *)
(* only. Who finds a gate closed waits in its queue, for a bounded time.   *)
(*                                                                         *)
(* Node runs one synchronous stretch of code at a time, so every stretch   *)
(* between two awaits is one step. A hand-over resolves the waiter's       *)
(* promise and clears its timer in one stretch; the waiter goes on in a    *)
(* later one. A caller is one call of withConnectorInstanceWrite or        *)
(* withConnectorInstanceControlPlaneWrite; a nested call with a live       *)
(* ownership passes no gate and belongs to the operation it runs in.       *)
(***************************************************************************)
EXTENDS Naturals, FiniteSets, SequencesExt

CONSTANTS
    Caller,         \* calls
    Key,            \* connector instances
    KeyOf,          \* the instance each call is for
    PlaneOf,        \* "data" for writers, "control" for control-plane writes
    ActiveLimit,    \* admission slots
    QueueLimit      \* length of each queue

ASSUME CallerIsFinite == IsFiniteSet(Caller)
ASSUME KeyOfType == KeyOf \in [Caller -> Key]
ASSUME PlaneOfType == PlaneOf \in [Caller -> {"data", "control"}]
ASSUME LimitsArePositive == ActiveLimit \in Nat \ {0} /\ QueueLimit \in Nat \ {0}

VARIABLES
    pc,             \* where each call is
    held,           \* keys with an entry in keyedGates, whose gate is held
    keyWaiters,     \* the queue of each gate
    active,         \* activeWriters
    slotWaiters,    \* admissionWaiters
    owners          \* activeOwnerships: calls whose ownership is live

vars == <<pc, held, keyWaiters, active, slotWaiters, owners>>
-----------------------------------------------------------------------------
Point == {"idle", "keyWait", "keyed", "slotWait", "admitted", "running",
          "unwind", "done", "refused"}

Init ==
    /\ pc = [c \in Caller |-> "idle"]
    /\ held = {}
    /\ keyWaiters = [k \in Key |-> <<>>]
    /\ active = 0
    /\ slotWaiters = <<>>
    /\ owners = {}

Goto(c, from, to) == pc[c] = from /\ pc' = [pc EXCEPT ![c] = to]

IsFull(queue) == Len(queue) >= QueueLimit

\* acquireKey, up to its first await.
AcquireKey(c) ==
    LET k == KeyOf[c]
    IN  /\ \/ /\ k \notin held
              /\ Goto(c, "idle", "keyed")
              /\ held' = held \cup {k}
              /\ UNCHANGED keyWaiters
           \/ /\ k \in held
              /\ ~IsFull(keyWaiters[k])
              /\ Goto(c, "idle", "keyWait")
              /\ keyWaiters' = [keyWaiters EXCEPT ![k] = Append(@, c)]
              /\ UNCHANGED held
           \/ /\ k \in held
              /\ IsFull(keyWaiters[k])
              /\ Goto(c, "idle", "refused")
              /\ UNCHANGED <<held, keyWaiters>>
        /\ UNCHANGED <<active, slotWaiters, owners>>

\* acquireAdmission, up to its first await.
AcquireAdmission(c) ==
    /\ PlaneOf[c] = "data"
    /\ \/ /\ active < ActiveLimit
          /\ Goto(c, "keyed", "admitted")
          /\ active' = active + 1
          /\ UNCHANGED slotWaiters
       \/ /\ active >= ActiveLimit
          /\ ~IsFull(slotWaiters)
          /\ Goto(c, "keyed", "slotWait")
          /\ slotWaiters' = Append(slotWaiters, c)
          /\ UNCHANGED active
       \/ /\ active >= ActiveLimit
          /\ IsFull(slotWaiters)
          /\ Goto(c, "keyed", "unwind")
          /\ UNCHANGED <<active, slotWaiters>>
    /\ UNCHANGED <<held, keyWaiters, owners>>

\* The operation begins: a writer's with an ownership of its own.
Enter(c) ==
    /\ Goto(c, "admitted", "running")
    /\ owners' = owners \cup {c}
    /\ UNCHANGED <<held, keyWaiters, active, slotWaiters>>

EnterControl(c) ==
    /\ PlaneOf[c] = "control"
    /\ Goto(c, "keyed", "running")
    /\ UNCHANGED <<held, keyWaiters, active, slotWaiters, owners>>
-----------------------------------------------------------------------------
First(s) == IF s = <<>> THEN {} ELSE {Head(s)}

\* Mutant: the slot is given back although a waiter is served with it.
ReleaseAdmissionTwice ==
    /\ active' = IF active > 0 THEN active - 1 ELSE 0
    /\ slotWaiters' = IF slotWaiters = <<>> THEN <<>> ELSE Tail(slotWaiters)

\* releaseAdmission: the slot goes to the first waiter, or back.
ReleaseAdmission ==
    IF slotWaiters = <<>>
    THEN /\ active' = IF active > 0 THEN active - 1 ELSE 0
         /\ UNCHANGED slotWaiters
    ELSE /\ slotWaiters' = Tail(slotWaiters)
         /\ UNCHANGED active

\* Mutant: the gate is opened although a waiter is let through.
ReleaseKeyTwice(k) ==
    /\ held' = held \ {k}
    /\ keyWaiters' = [keyWaiters EXCEPT ![k] = IF @ = <<>> THEN @ ELSE Tail(@)]

\* releaseKey: the gate passes to the first waiter, or its entry is deleted.
ReleaseKey(k) ==
    IF keyWaiters[k] = <<>>
    THEN held' = held \ {k} /\ UNCHANGED keyWaiters
    ELSE keyWaiters' = [keyWaiters EXCEPT ![k] = Tail(@)] /\ UNCHANGED held

\* Where everyone is once c has left for `to`, handing over its key and, to
\* those in served, its slot. Resolving a promise that a timer has rejected
\* does nothing.
Leave(c, to, served) ==
    pc' = [d \in Caller |->
               CASE d = c -> to
                 [] pc[d] = "slotWait" /\ d \in served -> "admitted"
                 [] pc[d] = "keyWait" /\ d \in First(keyWaiters[KeyOf[c]]) -> "keyed"
                 [] OTHER -> pc[d]]

\* The operation settles; the whole finally block is one stretch of code.
End(c) ==
    /\ pc[c] = "running"
    /\ owners' = owners \ {c}
    /\ IF PlaneOf[c] = "data"
       THEN ReleaseAdmission /\ Leave(c, "done", First(slotWaiters))
       ELSE UNCHANGED <<active, slotWaiters>> /\ Leave(c, "done", {})
    /\ ReleaseKey(KeyOf[c])

\* The finally block of a call that was not admitted.
Unwind(c) ==
    /\ pc[c] = "unwind"
    /\ Leave(c, "refused", {})
    /\ ReleaseKey(KeyOf[c])
    /\ UNCHANGED <<active, slotWaiters, owners>>

\* Mutant: the timer rejects the waiter and leaves it in the queue.
SlotTimerLeavingWaiter(c) ==
    /\ c \in ToSet(slotWaiters)
    /\ Goto(c, "slotWait", "unwind")
    /\ UNCHANGED <<held, keyWaiters, active, slotWaiters, owners>>

\* boundedWait: the timer of a waiter fires.
SlotTimer(c) ==
    /\ Goto(c, "slotWait", "unwind")
    /\ \E i \in DOMAIN slotWaiters :
           slotWaiters[i] = c /\ slotWaiters' = RemoveAt(slotWaiters, i)
    /\ UNCHANGED <<held, keyWaiters, active, owners>>

KeyTimer(c) ==
    /\ Goto(c, "keyWait", "refused")
    /\ \E i \in DOMAIN keyWaiters[KeyOf[c]] :
           /\ keyWaiters[KeyOf[c]][i] = c
           /\ keyWaiters' = [keyWaiters EXCEPT ![KeyOf[c]] = RemoveAt(@, i)]
    /\ UNCHANGED <<held, active, slotWaiters, owners>>

GoOn(c) == AcquireAdmission(c) \/ Enter(c) \/ EnterControl(c) \/ End(c) \/ Unwind(c)

Next == \E c \in Caller : AcquireKey(c) \/ GoOn(c) \/ SlotTimer(c) \/ KeyTimer(c)

Spec == Init /\ [][Next]_vars

\* A call that is not waiting goes on, and operations end. No timer need ever
\* fire: waiting has to end by hand-overs alone.
FairSpec == Spec /\ \A c \in Caller : WF_vars(GoOn(c))
-----------------------------------------------------------------------------
\* Every variable has its type; queues and slots stay within their limits.
TypeOK ==
    /\ pc \in [Caller -> Point]
    /\ held \subseteq Key
    /\ keyWaiters \in [Key -> Seq(Caller)]
    /\ active \in 0..ActiveLimit
    /\ slotWaiters \in Seq(Caller)
    /\ owners \subseteq Caller
    /\ \A k \in Key : Len(keyWaiters[k]) <= QueueLimit
    /\ Len(slotWaiters) <= QueueLimit

PastGate(c) == pc[c] \in {"keyed", "slotWait", "admitted", "running", "unwind"}
SlotHolders == {c \in Caller : pc[c] = "admitted" \/ c \in owners}

\* One call at a time is past the gate of an instance: no two writers of it run
\* at once, control-plane writes included, and a hot instance keeps at most one
\* admission slot, or one place in the queue for it, from the others.
OneCallPerKey ==
    \A c, d \in Caller : PastGate(c) /\ PastGate(d) /\ KeyOf[c] = KeyOf[d] => c = d

\* However timers, hand-overs and refusals interleave, no slot and no gate is
\* lost or granted twice: what counts as taken has a holder, and somebody waits
\* only for what is taken.
NothingLost ==
    /\ active = Cardinality(SlotHolders)
    /\ slotWaiters # <<>> => active = ActiveLimit
    /\ held = {KeyOf[c] : c \in {d \in Caller : PastGate(d)}}
    /\ \A k \in Key : keyWaiters[k] # <<>> => k \in held

\* Nobody overtakes a waiter: a call that finds a gate or a slot free does so
\* only when nobody is queueing for it.
NoOvertaking ==
    [][\A c \in Caller :
          /\ pc[c] = "idle" /\ pc'[c] = "keyed" => keyWaiters[KeyOf[c]] = <<>>
          /\ pc[c] = "keyed" /\ pc'[c] = "admitted" => slotWaiters = <<>>]_vars

\* Every call ends, served or refused, though no timer ever fires: a hand-over
\* that went astray would leave its waiter behind forever. A caller calls once,
\* so that in the end no call is on its way.
EveryCallEnds == <>[](\A c \in Caller : pc[c] \in {"idle", "done", "refused"})
=============================================================================
