---------------------- MODULE WriteCoordinator_proofs ----------------------
(***************************************************************************)
(* Safety of the write coordinator for any number of calls, instances,     *)
(* slots and places in the queues.                                         *)
(*                                                                         *)
(* Inv says who stands in which queue, so that a hand-over reaches a call  *)
(* that waits, and that a key or a slot is taken exactly by those who are  *)
(* past its gate. The properties of WriteCoordinator follow from it.       *)
(***************************************************************************)
EXTENDS WriteCoordinator, FiniteSetTheorems, SequenceTheorems, TLAPS

USE CallerIsFinite, KeyOfType, PlaneOfType, LimitsArePositive

\* s is a queue of distinct calls, all of them in S.
InLine(s, S) ==
    /\ s \in Seq(Caller)
    /\ \A i \in 1..Len(s) : s[i] \in S
    /\ \A i, j \in 1..Len(s) : s[i] = s[j] => i = j

WaitingFor(k) == {c \in Caller : pc[c] = "keyWait" /\ KeyOf[c] = k}
WaitingForSlot == {c \in Caller : pc[c] = "slotWait"}

QueuesInv ==
    /\ \A k \in Key : InLine(keyWaiters[k], WaitingFor(k))
    /\ InLine(slotWaiters, WaitingForSlot)

PlanesInv ==
    /\ owners = {c \in Caller : pc[c] = "running" /\ PlaneOf[c] = "data"}
    /\ \A c \in Caller : pc[c] \in {"slotWait", "admitted"} => PlaneOf[c] = "data"

Inv == TypeOK /\ QueuesInv /\ PlanesInv /\ OneCallPerKey /\ NothingLost
-----------------------------------------------------------------------------
\* Joining a queue, its front leaving, anyone leaving.
LEMMA Joins ==
    ASSUME NEW S, NEW T, NEW s, NEW c \in Caller, InLine(s, S), c \notin S, S \cup {c} \subseteq T
    PROVE  InLine(Append(s, c), T) /\ Len(Append(s, c)) = Len(s) + 1
BY DEF InLine

LEMMA FrontLeaves ==
    ASSUME NEW S, NEW T, NEW s, InLine(s, S), s # <<>>, S \ {Head(s)} \subseteq T
    PROVE  Head(s) \in S /\ InLine(Tail(s), T) /\ Len(Tail(s)) = Len(s) - 1
<1>1. s \in Seq(Caller) /\ Len(s) \in Nat /\ Len(s) >= 1 /\ Head(s) = s[1]
    BY DEF InLine
<1>2. /\ Tail(s) \in Seq(Caller)
      /\ Len(Tail(s)) = Len(s) - 1
      /\ \A j \in 1..Len(Tail(s)) : Tail(s)[j] = s[j + 1]
    BY <1>1
<1>3. \A j \in 1..Len(Tail(s)) : Tail(s)[j] \in T
    BY <1>1, <1>2 DEF InLine
<1> QED
    BY <1>1, <1>2, <1>3 DEF InLine

LEMMA AnyoneLeaves ==
    ASSUME NEW S, NEW T, NEW s, NEW i \in 1..Len(s), InLine(s, S), S \ {s[i]} \subseteq T
    PROVE  InLine(RemoveAt(s, i), T) /\ Len(RemoveAt(s, i)) = Len(s) - 1
<1> DEFINE a == SubSeq(s, 1, i - 1)
           b == SubSeq(s, i + 1, Len(s))
<1>1. s \in Seq(Caller) /\ Len(s) \in Nat
    BY DEF InLine
<1>2. /\ a \in Seq(Caller) /\ Len(a) = i - 1
      /\ \A j \in 1..Len(a) : a[j] = s[j]
    BY <1>1
<1>3. /\ b \in Seq(Caller) /\ Len(b) = Len(s) - i
      /\ \A j \in 1..Len(b) : b[j] = s[j + i]
    BY <1>1
<1>4. RemoveAt(s, i) = a \o b
    BY DEF RemoveAt
<1> HIDE DEF a, b
<1>5. /\ RemoveAt(s, i) \in Seq(Caller)
      /\ Len(RemoveAt(s, i)) = Len(s) - 1
      /\ \A j \in 1..Len(s) - 1 : RemoveAt(s, i)[j] = IF j < i THEN s[j] ELSE s[j + 1]
    <2>1. /\ a \o b \in Seq(Caller)
          /\ Len(a \o b) = Len(a) + Len(b)
          /\ \A j \in 1..Len(a) + Len(b) :
                 (a \o b)[j] = IF j <= Len(a) THEN a[j] ELSE b[j - Len(a)]
        BY <1>2, <1>3, ConcatProperties
    <2>2. Len(a) + Len(b) = Len(s) - 1
        BY <1>1, <1>2, <1>3
    <2>3. \A j \in 1..Len(s) - 1 : (a \o b)[j] = IF j < i THEN s[j] ELSE s[j + 1]
        <3> TAKE j \in 1..Len(s) - 1
        <3>1. CASE j < i
            BY <3>1, <2>1, <2>2, <1>1, <1>2
        <3>2. CASE ~(j < i)
            <4>1. j - Len(a) \in 1..Len(b) /\ (j - Len(a)) + i = j + 1
                BY <3>2, <1>1, <1>2, <1>3
            <4>2. (a \o b)[j] = b[j - Len(a)]
                BY <3>2, <2>1, <2>2, <1>1, <1>2
            <4>3. b[j - Len(a)] = s[(j - Len(a)) + i]
                BY <4>1, <1>3
            <4> QED
                BY <3>2, <4>1, <4>2, <4>3
        <3> QED
            BY <3>1, <3>2
    <2> QED
        BY <1>4, <2>1, <2>2, <2>3
<1>6. \A j \in 1..Len(s) - 1 : RemoveAt(s, i)[j] \in T
    BY <1>1, <1>5 DEF InLine
<1>7. \A j, l \in 1..Len(s) - 1 : RemoveAt(s, i)[j] = RemoveAt(s, i)[l] => j = l
    BY <1>1, <1>5 DEF InLine
<1> QED
    BY <1>5, <1>6, <1>7 DEF InLine

LEMMA StaysInLine ==
    ASSUME NEW S, NEW T, NEW s, InLine(s, S), S \subseteq T
    PROVE  InLine(s, T)
BY DEF InLine

LEMMA HoldersAreFinite ==
    ASSUME NEW S, S \subseteq Caller
    PROVE  IsFiniteSet(S) /\ Cardinality(S) \in Nat
BY FS_Subset, FS_CardinalityType
-----------------------------------------------------------------------------
LEMMA InvInitially == Init => Inv
<1> SUFFICES ASSUME Init PROVE Inv
    OBVIOUS
<1> USE DEF Init
<1>1. TypeOK
    BY DEF TypeOK, Point
<1>2. QueuesInv
    BY DEF QueuesInv, InLine
<1>3. PlanesInv
    BY DEF PlanesInv
<1>4. OneCallPerKey
    BY DEF OneCallPerKey, PastGate
<1>5. SlotHolders = {}
    BY DEF SlotHolders
<1>6. NothingLost
    BY <1>5, FS_EmptySet DEF NothingLost, PastGate
<1> QED
    BY <1>1, <1>2, <1>3, <1>4, <1>6 DEF Inv

LEMMA AcquireKeyStep ==
    ASSUME Inv, NEW c \in Caller, AcquireKey(c)
    PROVE  Inv'
<1> DEFINE k == KeyOf[c]
<1> USE DEF Inv
<1>1. k \in Key /\ pc[c] = "idle" /\ active' = active /\ slotWaiters' = slotWaiters /\ owners' = owners
    BY DEF AcquireKey, Goto
<1>2. SlotHolders' = SlotHolders
    BY <1>1 DEF AcquireKey, Goto, SlotHolders, TypeOK, PlanesInv
<1>3. InLine(slotWaiters', WaitingForSlot')
    <2>1. WaitingForSlot \subseteq WaitingForSlot'
        BY <1>1 DEF WaitingForSlot, AcquireKey, Goto, TypeOK
    <2> QED
        BY <2>1, <1>1, StaysInLine DEF QueuesInv
<1>4. PlanesInv'
    BY <1>1 DEF PlanesInv, AcquireKey, Goto, TypeOK
<1>5. CASE k \notin held
    <2> /\ pc' = [pc EXCEPT ![c] = "keyed"]
        /\ held' = held \cup {k}
        /\ keyWaiters' = keyWaiters
        BY <1>5 DEF AcquireKey, Goto
    <2>1. TypeOK'
        BY <1>1 DEF TypeOK, Point
    <2>2. \A q \in Key : WaitingFor(q) \subseteq WaitingFor(q)'
        BY <1>1 DEF WaitingFor, TypeOK
    <2>3. QueuesInv'
        BY <2>2, <1>3, StaysInLine DEF QueuesInv
    <2>4. OneCallPerKey'
        BY <1>5 DEF OneCallPerKey, PastGate, NothingLost, TypeOK
    <2>5. held' = {KeyOf[d] : d \in {x \in Caller : PastGate(x)'}}
        BY <1>1 DEF NothingLost, PastGate, TypeOK
    <2>6. NothingLost'
        BY <2>5, <1>1, <1>2 DEF NothingLost, TypeOK
    <2> QED
        BY <2>1, <2>3, <1>4, <2>4, <2>6
<1>6. CASE k \in held /\ ~IsFull(keyWaiters[k])
    <2> /\ pc' = [pc EXCEPT ![c] = "keyWait"]
        /\ held' = held
        /\ keyWaiters' = [keyWaiters EXCEPT ![k] = Append(keyWaiters[k], c)]
        BY <1>6 DEF AcquireKey, Goto
    <2>1. \A q \in Key \ {k} : InLine(keyWaiters'[q], WaitingFor(q)') /\ keyWaiters'[q] = keyWaiters[q]
        <3>1. \A q \in Key : WaitingFor(q) \subseteq WaitingFor(q)'
            BY <1>1 DEF WaitingFor, TypeOK
        <3> QED
            BY <3>1, StaysInLine DEF QueuesInv, TypeOK
    <2>2. InLine(keyWaiters'[k], WaitingFor(k)') /\ Len(keyWaiters'[k]) = Len(keyWaiters[k]) + 1
        <3>1. c \notin WaitingFor(k) /\ WaitingFor(k) \cup {c} \subseteq WaitingFor(k)'
            BY <1>1 DEF WaitingFor, TypeOK
        <3>2. InLine(keyWaiters[k], WaitingFor(k)) /\ keyWaiters'[k] = Append(keyWaiters[k], c)
            BY <1>1 DEF QueuesInv, TypeOK
        <3> QED
            BY <3>1, <3>2, Joins
    <2>3. QueuesInv'
        BY <2>1, <2>2, <1>3 DEF QueuesInv
    <2>4. TypeOK'
        BY <1>1, <1>6, <2>1, <2>2 DEF TypeOK, Point, IsFull
    <2>5. \A d \in Caller : PastGate(d)' <=> PastGate(d)
        BY <1>1 DEF PastGate, TypeOK
    <2>6. OneCallPerKey'
        BY <2>5 DEF OneCallPerKey
    <2>7. NothingLost'
        BY <2>5, <2>1, <1>1, <1>2, <1>6 DEF NothingLost, TypeOK
    <2> QED
        BY <2>3, <2>4, <1>4, <2>6, <2>7
<1>7. CASE k \in held /\ IsFull(keyWaiters[k])
    <2> /\ pc' = [pc EXCEPT ![c] = "refused"]
        /\ held' = held
        /\ keyWaiters' = keyWaiters
        BY <1>7 DEF AcquireKey, Goto
    <2>1. TypeOK'
        BY <1>1 DEF TypeOK, Point
    <2>2. \A q \in Key : WaitingFor(q) \subseteq WaitingFor(q)'
        BY <1>1 DEF WaitingFor, TypeOK
    <2>3. QueuesInv'
        BY <2>2, <1>3, StaysInLine DEF QueuesInv
    <2>4. \A d \in Caller : PastGate(d)' <=> PastGate(d)
        BY <1>1 DEF PastGate, TypeOK
    <2>5. OneCallPerKey'
        BY <2>4 DEF OneCallPerKey
    <2>6. NothingLost'
        BY <2>4, <1>1, <1>2 DEF NothingLost
    <2> QED
        BY <2>1, <2>3, <1>4, <2>5, <2>6
<1> QED
    BY <1>5, <1>6, <1>7

LEMMA AcquireAdmissionStep ==
    ASSUME Inv, NEW c \in Caller, AcquireAdmission(c)
    PROVE  Inv'
<1> USE DEF Inv
<1>1. /\ pc[c] = "keyed" /\ PlaneOf[c] = "data"
      /\ held' = held /\ keyWaiters' = keyWaiters /\ owners' = owners
      /\ \/ pc' = [pc EXCEPT ![c] = "admitted"]
         \/ pc' = [pc EXCEPT ![c] = "slotWait"]
         \/ pc' = [pc EXCEPT ![c] = "unwind"]
    BY DEF AcquireAdmission, Goto
<1>2. \A k \in Key : InLine(keyWaiters'[k], WaitingFor(k)')
    <2>1. \A k \in Key : WaitingFor(k) \subseteq WaitingFor(k)'
        BY <1>1 DEF WaitingFor, TypeOK
    <2> QED
        BY <2>1, <1>1, StaysInLine DEF QueuesInv
<1>3. PlanesInv'
    BY <1>1 DEF PlanesInv, TypeOK
<1>4. \A d \in Caller : PastGate(d)' <=> PastGate(d)
    BY <1>1 DEF PastGate, TypeOK
<1>5. OneCallPerKey'
    BY <1>4 DEF OneCallPerKey
<1>6. held' = {KeyOf[d] : d \in {x \in Caller : PastGate(x)'}} /\ \A k \in Key : keyWaiters'[k] # <<>> => k \in held'
    BY <1>1, <1>4 DEF NothingLost
<1>7. CASE active < ActiveLimit
    <2> pc' = [pc EXCEPT ![c] = "admitted"] /\ active' = active + 1 /\ slotWaiters' = slotWaiters
        BY <1>7 DEF AcquireAdmission, Goto, TypeOK
    <2>1. TypeOK'
        BY <1>1, <1>7 DEF TypeOK, Point
    <2>2. QueuesInv'
        <3>1. WaitingForSlot \subseteq WaitingForSlot'
            BY <1>1 DEF WaitingForSlot, TypeOK
        <3> QED
            BY <3>1, <1>2, StaysInLine DEF QueuesInv
    <2>3. SlotHolders' = SlotHolders \cup {c} /\ c \notin SlotHolders
        BY <1>1 DEF SlotHolders, PlanesInv, TypeOK
    <2>4. Cardinality(SlotHolders') = Cardinality(SlotHolders) + 1
        <3>1. SlotHolders \subseteq Caller
            BY DEF SlotHolders
        <3> QED
            BY <2>3, <3>1, HoldersAreFinite, FS_AddElement
    <2>5. NothingLost'
        BY <2>4, <1>6, <1>7 DEF NothingLost, TypeOK
    <2> QED
        BY <2>1, <2>2, <1>3, <1>5, <2>5
<1>8. CASE active >= ActiveLimit /\ ~IsFull(slotWaiters)
    <2> /\ pc' = [pc EXCEPT ![c] = "slotWait"] /\ active' = active
        /\ slotWaiters' = Append(slotWaiters, c)
        BY <1>8 DEF AcquireAdmission, Goto, TypeOK
    <2>1. InLine(slotWaiters', WaitingForSlot') /\ Len(slotWaiters') = Len(slotWaiters) + 1
        <3>1. c \notin WaitingForSlot /\ WaitingForSlot \cup {c} \subseteq WaitingForSlot'
            BY <1>1 DEF WaitingForSlot, TypeOK
        <3> QED
            BY <3>1, Joins DEF QueuesInv
    <2>2. TypeOK'
        BY <1>1, <1>8, <2>1 DEF TypeOK, Point, InLine, IsFull
    <2>3. QueuesInv'
        BY <1>2, <2>1 DEF QueuesInv
    <2>4. SlotHolders' = SlotHolders
        BY <1>1 DEF SlotHolders, PlanesInv, TypeOK
    <2>5. NothingLost'
        BY <2>4, <1>6, <1>8 DEF NothingLost, TypeOK
    <2> QED
        BY <2>2, <2>3, <1>3, <1>5, <2>5
<1>9. CASE active >= ActiveLimit /\ IsFull(slotWaiters)
    <2> pc' = [pc EXCEPT ![c] = "unwind"] /\ active' = active /\ slotWaiters' = slotWaiters
        BY <1>9 DEF AcquireAdmission, Goto, TypeOK
    <2>1. TypeOK'
        BY <1>1 DEF TypeOK, Point
    <2>2. QueuesInv'
        <3>1. WaitingForSlot \subseteq WaitingForSlot'
            BY <1>1 DEF WaitingForSlot, TypeOK
        <3> QED
            BY <3>1, <1>2, StaysInLine DEF QueuesInv
    <2>3. SlotHolders' = SlotHolders
        BY <1>1 DEF SlotHolders, PlanesInv, TypeOK
    <2>4. NothingLost'
        BY <2>3, <1>6 DEF NothingLost
    <2> QED
        BY <2>1, <2>2, <1>3, <1>5, <2>4
<1> QED
    BY <1>7, <1>8, <1>9 DEF TypeOK

\* A step that moves one call and leaves gates and queues alone.
LEMMA EnterStep ==
    ASSUME Inv, NEW c \in Caller, Enter(c) \/ EnterControl(c)
    PROVE  Inv'
<1> USE DEF Inv
<1>1. /\ pc' = [pc EXCEPT ![c] = "running"] /\ active' = active
      /\ held' = held /\ keyWaiters' = keyWaiters /\ slotWaiters' = slotWaiters
      /\ \/ pc[c] = "admitted" /\ owners' = owners \cup {c}
         \/ pc[c] = "keyed" /\ PlaneOf[c] = "control" /\ owners' = owners
    BY DEF Enter, EnterControl, Goto
<1>2. TypeOK'
    BY <1>1 DEF TypeOK, Point
<1>3. QueuesInv'
    <2>1. /\ \A k \in Key : WaitingFor(k) \subseteq WaitingFor(k)'
          /\ WaitingForSlot \subseteq WaitingForSlot'
        BY <1>1 DEF WaitingFor, WaitingForSlot, TypeOK
    <2> QED
        BY <2>1, <1>1, StaysInLine DEF QueuesInv
<1>4. PlanesInv'
    BY <1>1 DEF PlanesInv, TypeOK
<1>5. \A d \in Caller : PastGate(d)' <=> PastGate(d)
    BY <1>1 DEF PastGate, TypeOK
<1>6. OneCallPerKey'
    BY <1>5 DEF OneCallPerKey
<1>7. SlotHolders' = SlotHolders
    BY <1>1 DEF SlotHolders, PlanesInv, TypeOK
<1>8. NothingLost'
    BY <1>1, <1>5, <1>7 DEF NothingLost
<1> QED
    BY <1>2, <1>3, <1>4, <1>6, <1>8
-----------------------------------------------------------------------------
\* What a call that is past its gate leaves behind when it releases its key.
LEMMA KeyPassesOn ==
    ASSUME Inv, NEW c \in Caller, pc[c] \in {"running", "unwind"},
           NEW to \in {"done", "refused"}, NEW served,
           Leave(c, to, served), ReleaseKey(KeyOf[c])
    PROVE  /\ pc' \in [Caller -> Point]
           /\ keyWaiters' \in [Key -> Seq(Caller)]
           /\ \A k \in Key : /\ InLine(keyWaiters'[k], WaitingFor(k)')
                             /\ Len(keyWaiters'[k]) <= QueueLimit
                             /\ keyWaiters'[k] # <<>> => k \in held'
           /\ held' \subseteq Key
           /\ held' = {KeyOf[d] : d \in {x \in Caller : PastGate(x)'}}
           /\ OneCallPerKey'
<1> DEFINE k == KeyOf[c]
           next == First(keyWaiters[k])
<1> USE DEF Inv
<1>1. k \in Key /\ k \in held /\ InLine(keyWaiters[k], WaitingFor(k)) /\ PastGate(c)
    BY DEF NothingLost, QueuesInv, PastGate
<1>2. /\ pc' = [d \in Caller |-> pc'[d]]
      /\ pc'[c] = to
      /\ \A d \in Caller \ {c} : /\ pc'[d] \in {pc[d], "admitted", "keyed"}
                                 /\ pc[d] = "slotWait" => pc'[d] \in {"slotWait", "admitted"}
                                 /\ pc[d] = "keyWait" => pc'[d] = IF d \in next THEN "keyed" ELSE pc[d]
                                 /\ pc[d] \notin {"slotWait", "keyWait"} => pc'[d] = pc[d]
    BY DEF Leave
<1>3. pc' \in [Caller -> Point]
    <2>1. \A d \in Caller : pc[d] \in Point /\ pc'[d] \in Point
        BY <1>2 DEF TypeOK, Point
    <2> QED
        BY <1>2, <2>1
<1>4. \A d \in Caller : d # c /\ d \notin next => (PastGate(d)' <=> PastGate(d)) /\ (pc'[d] = "keyWait" <=> pc[d] = "keyWait")
    BY <1>2 DEF PastGate
<1>5. pc[c] # "keyWait" /\ pc'[c] = to /\ ~PastGate(c)'
    BY <1>2 DEF PastGate
<1>6. CASE keyWaiters[k] = <<>>
    <2>1. next = {} /\ held' = held \ {k} /\ keyWaiters' = keyWaiters
        BY <1>6 DEF ReleaseKey, First
    <2>2. \A q \in Key : WaitingFor(q) \subseteq WaitingFor(q)'
        BY <1>4, <1>5, <2>1 DEF WaitingFor
    <2>3. \A q \in Key : InLine(keyWaiters'[q], WaitingFor(q)')
        BY <2>1, <2>2, StaysInLine DEF QueuesInv
    <2>4. \A d \in Caller : PastGate(d)' <=> PastGate(d) /\ d # c
        BY <1>4, <1>5, <2>1
    <2>5. OneCallPerKey'
        BY <2>4 DEF OneCallPerKey
    <2>6. held' = {KeyOf[d] : d \in {x \in Caller : PastGate(x)'}}
        <3>1. \A q : q \in held <=> \E d \in Caller : PastGate(d) /\ q = KeyOf[d]
            BY DEF NothingLost
        <3>2. \A q : q \in held' <=> \E d \in Caller : PastGate(d)' /\ q = KeyOf[d]
            BY <3>1, <2>1, <2>4, <1>1 DEF OneCallPerKey
        <3> QED
            BY <3>2
    <2> QED
        BY <1>3, <2>1, <2>3, <2>5, <2>6, <1>6 DEF TypeOK, NothingLost
<1>7. CASE keyWaiters[k] # <<>>
    <2> PICK n : n = Head(keyWaiters[k])
        OBVIOUS
    <2>1. /\ next = {n} /\ held' = held
          /\ keyWaiters' = [keyWaiters EXCEPT ![k] = Tail(keyWaiters[k])]
        BY <1>7 DEF ReleaseKey, First
    <2>2. n \in WaitingFor(k) /\ n \in Caller /\ pc[n] = "keyWait" /\ KeyOf[n] = k /\ n # c
        <3>1. n \in WaitingFor(k)
            BY <1>1, <1>7, FrontLeaves
        <3> QED
            BY <3>1, <1>5 DEF WaitingFor
    <2>3. pc'[n] = "keyed" /\ PastGate(n)' /\ ~PastGate(n)
        BY <1>2, <2>1, <2>2 DEF PastGate
    <2>4. WaitingFor(k) \ {n} \subseteq WaitingFor(k)' /\ \A q \in Key \ {k} : WaitingFor(q) \subseteq WaitingFor(q)'
        BY <1>4, <1>5, <2>1, <2>2 DEF WaitingFor
    <2>5. InLine(keyWaiters'[k], WaitingFor(k)') /\ Len(keyWaiters'[k]) = Len(keyWaiters[k]) - 1
        <3>1. keyWaiters'[k] = Tail(keyWaiters[k])
            BY <1>1, <2>1 DEF TypeOK
        <3> QED
            BY <1>1, <1>7, <2>4, <3>1, FrontLeaves
    <2>6. \A q \in Key \ {k} : keyWaiters'[q] = keyWaiters[q] /\ InLine(keyWaiters'[q], WaitingFor(q)')
        BY <2>1, <2>4, StaysInLine DEF QueuesInv, TypeOK
    <2>7. keyWaiters' \in [Key -> Seq(Caller)]
        BY <1>1, <2>1, <2>5 DEF TypeOK, InLine
    <2>8. \A d \in Caller : PastGate(d)' <=> d = n \/ (PastGate(d) /\ d # c)
        BY <1>4, <1>5, <2>1, <2>3
    <2>9. OneCallPerKey'
        BY <1>1, <2>2, <2>8 DEF OneCallPerKey
    <2>10. held' = {KeyOf[d] : d \in {x \in Caller : PastGate(x)'}}
        <3>1. \A q : q \in held <=> \E d \in Caller : PastGate(d) /\ q = KeyOf[d]
            BY DEF NothingLost
        <3>2. \A q : q \in held' <=> \E d \in Caller : PastGate(d)' /\ q = KeyOf[d]
            BY <3>1, <2>1, <2>2, <2>8, <1>1
        <3> QED
            BY <3>2
    <2>11. \A q \in Key : Len(keyWaiters'[q]) <= QueueLimit /\ (keyWaiters'[q] # <<>> => q \in held')
        BY <1>1, <2>1, <2>5, <2>6 DEF TypeOK, NothingLost
    <2> QED
        BY <1>3, <2>1, <2>5, <2>6, <2>7, <2>9, <2>10, <2>11 DEF TypeOK
<1> QED
    BY <1>6, <1>7

LEMMA EndStep ==
    ASSUME Inv, NEW c \in Caller, End(c)
    PROVE  Inv'
<1> USE DEF Inv
<1> DEFINE served == IF PlaneOf[c] = "data" THEN First(slotWaiters) ELSE {}
<1>1. /\ pc[c] = "running" /\ owners' = owners \ {c}
      /\ Leave(c, "done", served) /\ ReleaseKey(KeyOf[c])
      /\ PlaneOf[c] = "data" => ReleaseAdmission
      /\ PlaneOf[c] # "data" => active' = active /\ slotWaiters' = slotWaiters
    BY DEF End
<1> HIDE DEF served
<1>2. /\ pc' \in [Caller -> Point]
      /\ keyWaiters' \in [Key -> Seq(Caller)]
      /\ \A k \in Key : /\ InLine(keyWaiters'[k], WaitingFor(k)')
                        /\ Len(keyWaiters'[k]) <= QueueLimit
                        /\ keyWaiters'[k] # <<>> => k \in held'
      /\ held' \subseteq Key
      /\ held' = {KeyOf[d] : d \in {x \in Caller : PastGate(x)'}}
      /\ OneCallPerKey'
    BY <1>1, KeyPassesOn
<1>3. /\ pc'[c] = "done"
      /\ \A d \in Caller \ {c} :
             /\ pc[d] = "slotWait" => pc'[d] = IF d \in served THEN "admitted" ELSE "slotWait"
             /\ pc[d] = "keyWait" => pc'[d] \in {"keyWait", "keyed"}
             /\ pc[d] \notin {"slotWait", "keyWait"} => pc'[d] = pc[d]
    BY <1>1 DEF Leave
<1>4. PlanesInv'
    BY <1>1, <1>3 DEF PlanesInv, TypeOK
<1>5. SlotHolders \subseteq Caller
    BY DEF SlotHolders
<1>6. CASE PlaneOf[c] # "data"
    <2>1. served = {} /\ active' = active /\ slotWaiters' = slotWaiters
        BY <1>1, <1>6 DEF served
    <2>2. InLine(slotWaiters', WaitingForSlot')
        <3>1. WaitingForSlot \subseteq WaitingForSlot'
            BY <1>1, <1>3, <2>1 DEF WaitingForSlot
        <3> QED
            BY <3>1, <2>1, StaysInLine DEF QueuesInv
    <2>3. SlotHolders' = SlotHolders
        BY <1>1, <1>3, <1>6, <2>1 DEF SlotHolders, PlanesInv
    <2> QED
        BY <1>1, <1>2, <1>4, <2>1, <2>2, <2>3 DEF TypeOK, QueuesInv, NothingLost
<1>7. CASE PlaneOf[c] = "data" /\ slotWaiters = <<>>
    <2>1. served = {} /\ slotWaiters' = slotWaiters /\ active' = IF active > 0 THEN active - 1 ELSE 0
        BY <1>1, <1>7 DEF served, First, ReleaseAdmission
    <2>2. InLine(slotWaiters', WaitingForSlot')
        <3>1. WaitingForSlot \subseteq WaitingForSlot'
            BY <1>1, <1>3, <2>1 DEF WaitingForSlot
        <3> QED
            BY <3>1, <2>1, StaysInLine DEF QueuesInv
    <2>3. c \in SlotHolders /\ SlotHolders' = SlotHolders \ {c}
        BY <1>1, <1>3, <1>7, <2>1 DEF SlotHolders, PlanesInv
    <2>4. Cardinality(SlotHolders') = Cardinality(SlotHolders) - 1 /\ Cardinality(SlotHolders') \in Nat
        BY <1>5, <2>3, HoldersAreFinite, FS_RemoveElement
    <2>5. active' = Cardinality(SlotHolders') /\ active' \in 0..ActiveLimit
        BY <2>1, <2>4 DEF NothingLost, TypeOK
    <2> QED
        BY <1>1, <1>2, <1>4, <1>7, <2>1, <2>2, <2>5 DEF TypeOK, QueuesInv, NothingLost
<1>8. CASE PlaneOf[c] = "data" /\ slotWaiters # <<>>
    <2> PICK n : n = Head(slotWaiters)
        OBVIOUS
    <2>1. served = {n} /\ slotWaiters' = Tail(slotWaiters) /\ active' = active
        BY <1>1, <1>8 DEF served, First, ReleaseAdmission
    <2>2. n \in Caller /\ pc[n] = "slotWait" /\ n # c
        <3>1. n \in WaitingForSlot
            BY <1>8, FrontLeaves DEF QueuesInv
        <3> QED
            BY <3>1, <1>1 DEF WaitingForSlot
    <2>3. InLine(slotWaiters', WaitingForSlot') /\ Len(slotWaiters') = Len(slotWaiters) - 1
        <3>1. WaitingForSlot \ {n} \subseteq WaitingForSlot'
            BY <1>1, <1>3, <2>1 DEF WaitingForSlot
        <3> QED
            BY <1>8, <2>1, <3>1, FrontLeaves DEF QueuesInv
    <2>4. slotWaiters' \in Seq(Caller) /\ Len(slotWaiters') <= QueueLimit
        BY <2>3 DEF InLine, TypeOK
    <2>5. /\ c \in SlotHolders /\ n \notin SlotHolders
          /\ SlotHolders' = (SlotHolders \ {c}) \cup {n}
        BY <1>1, <1>3, <1>8, <2>1, <2>2 DEF SlotHolders, PlanesInv
    <2>6. Cardinality(SlotHolders') = Cardinality(SlotHolders)
        <3>1. /\ IsFiniteSet(SlotHolders \ {c})
              /\ Cardinality(SlotHolders) \in Nat
              /\ Cardinality(SlotHolders \ {c}) = Cardinality(SlotHolders) - 1
            BY <1>5, <2>5, HoldersAreFinite, FS_RemoveElement
        <3>2. Cardinality(SlotHolders') = Cardinality(SlotHolders \ {c}) + 1
            BY <3>1, <2>5, FS_AddElement
        <3> QED
            BY <3>1, <3>2
    <2> QED
        BY <1>1, <1>2, <1>4, <1>8, <2>1, <2>3, <2>4, <2>6 DEF TypeOK, QueuesInv, NothingLost
<1> QED
    BY <1>6, <1>7, <1>8

LEMMA UnwindStep ==
    ASSUME Inv, NEW c \in Caller, Unwind(c)
    PROVE  Inv'
<1> USE DEF Inv
<1>1. /\ pc[c] = "unwind" /\ Leave(c, "refused", {}) /\ ReleaseKey(KeyOf[c])
      /\ active' = active /\ slotWaiters' = slotWaiters /\ owners' = owners
    BY DEF Unwind
<1>2. /\ pc' \in [Caller -> Point]
      /\ keyWaiters' \in [Key -> Seq(Caller)]
      /\ \A k \in Key : /\ InLine(keyWaiters'[k], WaitingFor(k)')
                        /\ Len(keyWaiters'[k]) <= QueueLimit
                        /\ keyWaiters'[k] # <<>> => k \in held'
      /\ held' \subseteq Key
      /\ held' = {KeyOf[d] : d \in {x \in Caller : PastGate(x)'}}
      /\ OneCallPerKey'
    BY <1>1, KeyPassesOn
<1>3. /\ pc'[c] = "refused"
      /\ \A d \in Caller \ {c} : /\ pc[d] = "keyWait" => pc'[d] \in {"keyWait", "keyed"}
                                 /\ pc[d] # "keyWait" => pc'[d] = pc[d]
    BY <1>1 DEF Leave
<1>4. PlanesInv'
    BY <1>1, <1>3 DEF PlanesInv, TypeOK
<1>5. InLine(slotWaiters', WaitingForSlot')
    <2>1. WaitingForSlot \subseteq WaitingForSlot'
        BY <1>1, <1>3 DEF WaitingForSlot
    <2> QED
        BY <2>1, <1>1, StaysInLine DEF QueuesInv
<1>6. SlotHolders' = SlotHolders
    BY <1>1, <1>3 DEF SlotHolders
<1> QED
    BY <1>1, <1>2, <1>4, <1>5, <1>6 DEF TypeOK, QueuesInv, NothingLost

LEMMA SlotTimerStep ==
    ASSUME Inv, NEW c \in Caller, SlotTimer(c)
    PROVE  Inv'
<1> USE DEF Inv
<1>1. /\ pc[c] = "slotWait" /\ pc' = [pc EXCEPT ![c] = "unwind"]
      /\ held' = held /\ keyWaiters' = keyWaiters /\ active' = active /\ owners' = owners
    BY DEF SlotTimer, Goto
<1>2. PICK i \in 1..Len(slotWaiters) : slotWaiters[i] = c /\ slotWaiters' = RemoveAt(slotWaiters, i)
    BY DEF SlotTimer, TypeOK
<1>3. WaitingForSlot \ {c} \subseteq WaitingForSlot' /\ \A k \in Key : WaitingFor(k) \subseteq WaitingFor(k)'
    BY <1>1 DEF WaitingForSlot, WaitingFor, TypeOK
<1>4. InLine(slotWaiters', WaitingForSlot') /\ Len(slotWaiters') = Len(slotWaiters) - 1
    BY <1>2, <1>3, AnyoneLeaves DEF QueuesInv
<1>5. QueuesInv'
    BY <1>1, <1>3, <1>4, StaysInLine DEF QueuesInv
<1>6. TypeOK'
    BY <1>1, <1>4 DEF TypeOK, Point, InLine
<1>7. PlanesInv'
    BY <1>1 DEF PlanesInv, TypeOK
<1>8. \A d \in Caller : PastGate(d)' <=> PastGate(d)
    BY <1>1 DEF PastGate, TypeOK
<1>9. OneCallPerKey'
    BY <1>8 DEF OneCallPerKey
<1>10. SlotHolders' = SlotHolders
    BY <1>1 DEF SlotHolders, PlanesInv, TypeOK
<1>11. slotWaiters # <<>>
    BY <1>2 DEF TypeOK
<1>12. NothingLost'
    BY <1>1, <1>8, <1>10, <1>11 DEF NothingLost
<1> QED
    BY <1>5, <1>6, <1>7, <1>9, <1>12

LEMMA KeyTimerStep ==
    ASSUME Inv, NEW c \in Caller, KeyTimer(c)
    PROVE  Inv'
<1> USE DEF Inv
<1> DEFINE k == KeyOf[c]
<1>1. /\ pc[c] = "keyWait" /\ pc' = [pc EXCEPT ![c] = "refused"] /\ k \in Key
      /\ held' = held /\ slotWaiters' = slotWaiters /\ active' = active /\ owners' = owners
    BY DEF KeyTimer, Goto
<1>2. PICK i \in 1..Len(keyWaiters[k]) :
          /\ keyWaiters[k][i] = c
          /\ keyWaiters' = [keyWaiters EXCEPT ![k] = RemoveAt(keyWaiters[k], i)]
    <2>1. keyWaiters[k] \in Seq(Caller)
        BY <1>1 DEF TypeOK
    <2>2. DOMAIN keyWaiters[k] = 1..Len(keyWaiters[k])
        BY <2>1
    <2>3. \E i \in DOMAIN keyWaiters[k] :
              /\ keyWaiters[k][i] = c
              /\ keyWaiters' = [keyWaiters EXCEPT ![k] = RemoveAt(keyWaiters[k], i)]
        BY DEF KeyTimer
    <2> QED
        BY <2>2, <2>3
<1>3. /\ WaitingForSlot \subseteq WaitingForSlot'
      /\ WaitingFor(k) \ {c} \subseteq WaitingFor(k)'
      /\ \A q \in Key \ {k} : WaitingFor(q) \subseteq WaitingFor(q)'
    BY <1>1 DEF WaitingForSlot, WaitingFor, TypeOK
<1>4. InLine(keyWaiters'[k], WaitingFor(k)') /\ Len(keyWaiters'[k]) = Len(keyWaiters[k]) - 1
    <2>1. keyWaiters'[k] = RemoveAt(keyWaiters[k], i)
        BY <1>1, <1>2 DEF TypeOK
    <2>2. InLine(keyWaiters[k], WaitingFor(k))
        BY <1>1 DEF QueuesInv
    <2> QED
        BY <2>1, <2>2, <1>2, <1>3, AnyoneLeaves
<1>5. \A q \in Key \ {k} : keyWaiters'[q] = keyWaiters[q] /\ InLine(keyWaiters'[q], WaitingFor(q)')
    BY <1>2, <1>3, StaysInLine DEF QueuesInv, TypeOK
<1>6. QueuesInv'
    BY <1>1, <1>3, <1>4, <1>5, StaysInLine DEF QueuesInv
<1>7. TypeOK'
    <2>1. keyWaiters' \in [Key -> Seq(Caller)]
        BY <1>1, <1>2, <1>4 DEF TypeOK, InLine
    <2>2. \A q \in Key : Len(keyWaiters'[q]) <= QueueLimit
        <3>1. \A q \in Key : Len(keyWaiters[q]) \in Nat /\ Len(keyWaiters[q]) <= QueueLimit
            BY DEF TypeOK
        <3> QED
            BY <3>1, <1>4, <1>5
    <2> QED
        BY <1>1, <2>1, <2>2 DEF TypeOK, Point
<1>8. PlanesInv'
    BY <1>1 DEF PlanesInv, TypeOK
<1>9. \A d \in Caller : PastGate(d)' <=> PastGate(d)
    BY <1>1 DEF PastGate, TypeOK
<1>10. OneCallPerKey'
    BY <1>9 DEF OneCallPerKey
<1>11. SlotHolders' = SlotHolders
    BY <1>1 DEF SlotHolders, PlanesInv, TypeOK
<1>12. keyWaiters[k] # <<>>
    BY <1>1, <1>2 DEF TypeOK
<1>13. NothingLost'
    BY <1>1, <1>5, <1>9, <1>11, <1>12 DEF NothingLost
<1> QED
    BY <1>6, <1>7, <1>8, <1>10, <1>13
-----------------------------------------------------------------------------
LEMMA InvPreserved == Inv /\ [Next]_vars => Inv'
<1> SUFFICES ASSUME Inv, [Next]_vars PROVE Inv'
    OBVIOUS
<1>1. CASE Next
    <2> PICK c \in Caller : AcquireKey(c) \/ GoOn(c) \/ SlotTimer(c) \/ KeyTimer(c)
        BY <1>1 DEF Next
    <2> QED
        BY AcquireKeyStep, AcquireAdmissionStep, EnterStep, EndStep, UnwindStep, SlotTimerStep,
           KeyTimerStep DEF GoOn
<1>2. CASE UNCHANGED vars
    BY <1>2 DEF vars, Inv, TypeOK, QueuesInv, InLine, WaitingFor, WaitingForSlot, PlanesInv,
                OneCallPerKey, PastGate, NothingLost, SlotHolders
<1> QED
    BY <1>1, <1>2

LEMMA Invariance == Spec => []Inv
BY InvInitially, InvPreserved, PTL DEF Spec

\* The coordinator is well typed and its queues and slots keep their limits.
THEOREM CoordinatorTypeCorrect == Spec => []TypeOK
BY Invariance, PTL DEF Inv

\* Writers of one connector instance exclude one another, whoever hands over,
\* gives up waiting or is refused, and each instance has one slot at most.
THEOREM WritersExclude == Spec => []OneCallPerKey
BY Invariance, PTL DEF Inv

\* What counts as taken has a holder, and nobody waits for what is free.
THEOREM NothingEverLost == Spec => []NothingLost
BY Invariance, PTL DEF Inv

\* A call that finds its gate or a slot free overtakes nobody.
THEOREM NobodyOvertakes == Spec => NoOvertaking
<1> DEFINE Fair == \A c \in Caller :
          /\ pc[c] = "idle" /\ pc'[c] = "keyed" => keyWaiters[KeyOf[c]] = <<>>
          /\ pc[c] = "keyed" /\ pc'[c] = "admitted" => slotWaiters = <<>>
<1>1. Inv /\ [Next]_vars => [Fair]_vars
    <2> SUFFICES ASSUME Inv, Next PROVE Fair
        OBVIOUS
    <2> PICK d \in Caller : AcquireKey(d) \/ GoOn(d) \/ SlotTimer(d) \/ KeyTimer(d)
        BY DEF Next
    <2> USE DEF Inv
    <2>1. CASE AcquireKey(d)
        BY <2>1 DEF AcquireKey, Goto, NothingLost, TypeOK
    <2>2. CASE AcquireAdmission(d)
        BY <2>2 DEF AcquireAdmission, Goto, NothingLost, TypeOK
    <2>3. CASE Enter(d) \/ EnterControl(d) \/ SlotTimer(d) \/ KeyTimer(d)
        BY <2>3 DEF Enter, EnterControl, SlotTimer, KeyTimer, Goto, TypeOK
    <2>4. CASE End(d) \/ Unwind(d)
        <3>1. PICK to \in {"done", "refused"}, served \in {{}, First(slotWaiters)} : Leave(d, to, served)
            BY <2>4 DEF End, Unwind
        <3>2. \A c \in Caller : pc[c] \in {"idle", "keyed"} => pc'[c] \in {pc[c], to}
            BY <3>1 DEF Leave
        <3> QED
            BY <3>2
    <2> QED
        BY <2>1, <2>2, <2>3, <2>4 DEF GoOn
<1> QED
    BY <1>1, Invariance, PTL DEF Spec, NoOvertaking
=============================================================================
