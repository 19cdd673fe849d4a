------------------------ MODULE GrantTokens_proofs ------------------------
(***************************************************************************)
(* Proofs about GrantTokens, for any calls, ways of delivery and bounds.   *)
(*                                                                         *)
(* The inductive invariant says what a call holds at each of its points    *)
(* and how that relates to the committed rows; no two calls hold one row.  *)
(***************************************************************************)
EXTENDS GrantTokens, NaturalsInduction, WellFoundedInduction, TLAPS

Lock == UNION {[S -> Value] : S \in SUBSET Row}

\* Where a call may be, by what it does and how the token is delivered.
Places(c) ==
    /\ pc[c] \in {"claim", "deliver", "closing"} => OpOf[c] = "decide"
    /\ pc[c] \in {"consume", "link"} => OpOf[c] = "redeem" /\ path = "oauth"
    /\ pc[c] \in {"token", "share"} => OpOf[c] = "redeem" /\ path # "oauth"
    /\ pc[c] = "swap" => OpOf[c] = "redeem" /\ path = "device" /\ arg[c] = 0
    /\ pc[c] = "idle" => arg[c] = 0
    /\ pc[c] \in {"row", "parent", "burn", "family", "familyTokens"} => OpOf[c] = "rotate"
    /\ pc[c] \in {"generations", "tokens"} => OpOf[c] = "revoke"
    /\ pc[c] = "commit" => OpOf[c] # "decide"
    /\ pc[c] = "closing" => path # "oauth"
    /\ pc[c] = "answer" /\ OpOf[c] = "decide" =>
           path = "oauth" \/ (path # "oauth" /\ arg[c] \in 1..MaxCode)
    /\ pc[c] \in {"idle", "done", "claim", "deliver", "consume", "swap", "answer"} => DOMAIN held[c] = {}
    /\ pc[c] \notin Statement => todo[c] = {}
    /\ pc[c] \in Statement => todo[c] \subseteq TableOf(pc[c])
    /\ outcome[c] = "ok" => pc[c] \in {"answer", "done"}

Decides(c) ==
    OpOf[c] = "decide" => \A r \in DOMAIN held[c] : r \in Cexes /\ held[c][r] = "closed"

\* What a redemption that has succeeded has used up.
Spent(c) ==
    \/ path = "oauth" /\ db[Code] = "consumed"
    \/ path # "oauth" /\ arg[c] \in 1..MaxCode /\ db[Cex(arg[c])] = "closed"
    \/ path = "device" /\ arg[c] = 0 /\ db[Consent] = "consumed"

Redeems(c) ==
    OpOf[c] = "redeem" =>
    /\ path = "oauth" /\ pc[c] \in {"link", "commit"} =>
           /\ {Code, Rt(0)} \subseteq DOMAIN held[c] /\ DOMAIN held[c] \subseteq {Code, Rt(0), Tok(0)}
           /\ held[c][Code] = "consumed" /\ held[c][Rt(0)] = "active"
           /\ db[Code] = "issued"
    /\ path # "oauth" /\ pc[c] \in {"token", "share", "commit"} =>
           /\ arg[c] \in 1..MaxCode
           /\ Cex(arg[c]) \in DOMAIN held[c] /\ DOMAIN held[c] \subseteq {Cex(arg[c]), Tok(0), Grant}
    /\ path # "oauth" /\ pc[c] = "share" => db[Cex(arg[c])] = "open"
    /\ path # "oauth" /\ pc[c] = "commit" =>
           /\ held[c][Cex(arg[c])] = "closed" /\ db[Cex(arg[c])] = "open"
           /\ Grant \in DOMAIN held[c] /\ held[c][Grant] = "active" /\ db[Grant] = "active"
    /\ path = "oauth" /\ pc[c] = "answer" => db[Rt(0)] # "none"
    /\ outcome[c] = "ok" => Spent(c)

\* Of a family that is being revoked no generation is passed over.
Covers(c) ==
    \A j \in Generation :
        \/ db[Rt(j)] \in {"none", "revoked"}
        \/ pc[c] = "family" /\ Rt(j) \in todo[c]
        \/ Rt(j) \in DOMAIN held[c] /\ held[c][Rt(j)] = "revoked"

Rotates(c) ==
    OpOf[c] = "rotate" =>
    /\ pc[c] \in {"row", "parent", "burn", "family", "familyTokens", "commit"} =>
           /\ Family \in DOMAIN held[c]
           /\ arg[c] \in 0..(MaxGeneration - 1) /\ db[Rt(arg[c])] # "none"
    /\ pc[c] = "row" => DOMAIN held[c] = {Family}
    /\ pc[c] = "parent" =>
           /\ DOMAIN held[c] = {Family, Rt(arg[c])} /\ held[c][Rt(arg[c])] = "active"
           /\ db[Rt(arg[c])] = "active"
    /\ pc[c] = "commit" =>
           LET k == arg[c]
           IN  /\ DOMAIN held[c] = {Family, Grant, Rt(k), Rt(k + 1), Tok(k + 1)}
               /\ held[c][Rt(k)] = "superseded" /\ held[c][Rt(k + 1)] = "active"
               /\ held[c][Tok(k + 1)] = "linked"
               /\ held[c][Grant] = "active" /\ db[Grant] = "active"
               /\ db[Rt(k)] = "active"
    /\ pc[c] = "burn" => DOMAIN held[c] \subseteq {Family, Rt(arg[c]), Grant}
    /\ pc[c] \in {"burn", "family", "familyTokens"} =>
           /\ DOMAIN held[c] \subseteq {Family, Grant} \cup Rts \cup Toks
           /\ \A j \in Generation : Rt(j) \in DOMAIN held[c] => held[c][Rt(j)] \in {"revoked", db[Rt(j)]}
           /\ \A j \in Generation : Tok(j) \in DOMAIN held[c] => held[c][Tok(j)] = "revoked"
    /\ pc[c] = "burn" => \A j \in Generation : Rt(j) \in DOMAIN held[c] => held[c][Rt(j)] = db[Rt(j)]
    /\ pc[c] \in {"family", "familyTokens"} => Covers(c)
    /\ pc[c] = "answer" => arg[c] \in 0..(MaxGeneration - 1) /\ db[Rt(arg[c] + 1)] # "none"
    /\ outcome[c] = "ok" => arg[c] \in Generation /\ db[Rt(arg[c])] \in {"superseded", "revoked"}

Revokes(c) ==
    OpOf[c] = "revoke" =>
    /\ DOMAIN held[c] \subseteq Rts \cup Toks \cup {Grant}
    /\ \A j \in Generation : Rt(j) \in DOMAIN held[c] => held[c][Rt(j)] = "revoked" /\ db[Rt(j)] = "active"
    /\ \A j \in Generation : Tok(j) \in DOMAIN held[c] => held[c][Tok(j)] = "revoked"

\* A row of the family that is not there is touched only by the call that
\* inserts it.
InsertsRt(c, k) ==
    \/ OpOf[c] = "redeem" /\ k = 0 /\ Code \in DOMAIN held[c]
    \/ OpOf[c] = "rotate" /\ pc[c] = "commit" /\ k = arg[c] + 1
InsertsTok(c, k) == OpOf[c] = "rotate" /\ pc[c] = "commit" /\ k = arg[c] + 1
Inserts(c) ==
    /\ \A k \in Generation : (Rt(k) \in DOMAIN held[c] \/ Rt(k) \in todo[c]) /\ db[Rt(k)] = "none"
                                 => InsertsRt(c, k)
    /\ \A k \in 1..MaxGeneration : (Tok(k) \in DOMAIN held[c] \/ Tok(k) \in todo[c]) /\ db[Tok(k)] = "none"
                                 => InsertsTok(c, k)

CallInv(c) == Places(c) /\ Decides(c) /\ Redeems(c) /\ Rotates(c) /\ Revokes(c) /\ Inserts(c)

\* What holds of the committed rows and of what the client has.
World ==
    /\ \A k \in Generation : db[Rt(k)] \in {"none", "active", "superseded", "revoked"}
    /\ FamilyIsAChain
    /\ \A k \in 1..MaxGeneration : db[Rt(k)] = "none" <=> db[Tok(k)] = "none"
    /\ db[Code] # "consumed" => db[Rt(0)] = "none"
    /\ \A k \in Generation : Rt(k) \in known => db[Rt(k)] # "none"
    /\ Code \in known => path = "oauth"
    /\ \A r \in Cexes : r \in known => path # "oauth"

Inv == TypeOK /\ World /\ \A c \in Call : CallInv(c)
-----------------------------------------------------------------------------
LEMMA RowsDiffer ==
    /\ \A j, k : Rt(j) = Rt(k) => j = k
    /\ \A j, k : Tok(j) = Tok(k) => j = k
    /\ \A j, k : Cex(j) = Cex(k) => j = k
    /\ \A j, k : Rt(j) # Tok(k) /\ Rt(j) # Cex(k) /\ Tok(j) # Cex(k)
    /\ \A k : Consent # Rt(k) /\ Code # Rt(k) /\ Grant # Rt(k) /\ Family # Rt(k)
    /\ \A k : Consent # Tok(k) /\ Code # Tok(k) /\ Grant # Tok(k) /\ Family # Tok(k)
    /\ \A k : Consent # Cex(k) /\ Code # Cex(k) /\ Grant # Cex(k) /\ Family # Cex(k)
    /\ Consent # Code /\ Consent # Grant /\ Consent # Family
    /\ Code # Grant /\ Code # Family /\ Grant # Family
BY DEF Rt, Tok, Cex, Consent, Code, Grant, Family

LEMMA RowsKnown ==
    /\ \A k \in Generation : Rt(k) \in Row /\ Tok(k) \in Row /\ Rt(k) \in Rts /\ Tok(k) \in Toks
    /\ \A k \in 1..MaxCode : Cex(k) \in Row /\ Cex(k) \in Cexes
    /\ {Consent, Code, Grant, Family} \subseteq Row
    /\ Rts \subseteq Row /\ Toks \subseteq Row /\ Cexes \subseteq Row
    /\ \A r \in Rts : \E k \in Generation : r = Rt(k)
    /\ \A r \in Toks : \E k \in Generation : r = Tok(k)
    /\ \A r \in Cexes : \E k \in 1..MaxCode : r = Cex(k)
    /\ 0 \in Generation
    /\ \A k \in 0..(MaxGeneration - 1) : k \in Generation /\ k + 1 \in 1..MaxGeneration
    /\ 1..MaxGeneration \subseteq Generation
    /\ Generation \subseteq Nat
BY BoundsAreNat DEF Row, Rts, Toks, Cexes, Generation

LEMMA Nothing == <<>> \in Lock /\ DOMAIN <<>> = {}
BY DEF Lock

LEMMA Locked ==
    ASSUME NEW f \in Lock
    PROVE  DOMAIN f \subseteq Row /\ \A r \in DOMAIN f : f[r] \in Value
BY DEF Lock

\* What locking some rows does to what a call holds.
LEMMA Holding ==
    ASSUME held \in [Call -> Lock], NEW c \in Call, NEW f \in Lock, Hold(c, f)
    PROVE  /\ held' \in [Call -> Lock]
           /\ \A d \in Call \ {c} : held'[d] = held[d]
           /\ DOMAIN held'[c] = DOMAIN f \cup DOMAIN held[c]
           /\ \A r \in DOMAIN f : held'[c][r] = f[r]
           /\ \A r \in DOMAIN held[c] \ DOMAIN f : held'[c][r] = held[c][r]
<1> DEFINE g == [r \in DOMAIN f \cup DOMAIN held[c] |-> IF r \in DOMAIN f THEN f[r] ELSE held[c][r]]
<1>1. held' = [held EXCEPT ![c] = g]
  BY DEF Hold
<1>2. g \in Lock
  <2>1. DOMAIN f \cup DOMAIN held[c] \in SUBSET Row
    BY Locked
  <2>2. \A r \in DOMAIN f \cup DOMAIN held[c] : (IF r \in DOMAIN f THEN f[r] ELSE held[c][r]) \in Value
    BY Locked
  <2>3. g \in [DOMAIN f \cup DOMAIN held[c] -> Value]
    BY <2>2
  <2>. HIDE DEF g
  <2>. QED  BY <2>1, <2>3 DEF Lock
<1>3. held'[c] = g
  BY <1>1
<1>. QED  BY <1>1, <1>2, <1>3

LEMMA Releasing ==
    ASSUME held \in [Call -> Lock], NEW c \in Call, Release(c)
    PROVE  /\ held' \in [Call -> Lock]
           /\ \A d \in Call \ {c} : held'[d] = held[d]
           /\ DOMAIN held'[c] = {}
BY Nothing DEF Release

\* The committed rows when a call commits.
LEMMA Committing ==
    ASSUME db \in [Row -> Value], held \in [Call -> Lock], NEW c \in Call, Commit(c)
    PROVE  /\ db' \in [Row -> Value]
           /\ \A r \in DOMAIN held[c] : r \in Row /\ db'[r] = held[c][r]
           /\ \A r \in Row \ DOMAIN held[c] : db'[r] = db[r]
BY Locked DEF Commit, Seen

\* A call that does not move keeps its part of the invariant, whatever another
\* one commits, as long as the rows that it holds stay.
LEMMA Bystander ==
    ASSUME TypeOK, World, NEW d \in Call, CallInv(d),
           path' = path, held'[d] = held[d], pc'[d] = pc[d], todo'[d] = todo[d],
           arg'[d] = arg[d], outcome'[d] = outcome[d],
           \A k \in Generation : Rt(k) \in DOMAIN held[d] => db'[Rt(k)] = db[Rt(k)],
           \A k \in 1..MaxCode : Cex(k) \in DOMAIN held[d] /\ db[Cex(k)] = "open" => db'[Cex(k)] = "open",
           Code \in DOMAIN held[d] /\ db[Code] = "issued" => db'[Code] = "issued",
           Grant \in DOMAIN held[d] /\ db[Grant] = "active" => db'[Grant] = "active",
           \A k \in Generation : db[Rt(k)] # "none" => db'[Rt(k)] # "none",
           \A k \in 1..MaxGeneration : db[Tok(k)] # "none" => db'[Tok(k)] # "none",
           \A k \in Generation : db[Rt(k)] = "revoked" => db'[Rt(k)] = "revoked",
           \A k \in Generation : db[Rt(k)] = "superseded" => db'[Rt(k)] \in {"superseded", "revoked"},
           Family \in DOMAIN held[d] =>
               \A k \in Generation : db[Rt(k)] = "none" => db'[Rt(k)] = "none",
           db[Code] = "consumed" => db'[Code] = "consumed",
           db[Consent] = "consumed" => db'[Consent] = "consumed",
           \A k \in 1..MaxCode : db[Cex(k)] = "closed" => db'[Cex(k)] = "closed"
    PROVE  CallInv(d)'
<1>. USE RowsDiffer, RowsKnown
<1>1. Places(d)'
  BY DEF CallInv, Places
<1>2. Decides(d)'
  BY DEF CallInv, Decides
<1>3. Redeems(d)'
  BY DEF CallInv, Redeems, Spent
<1>4. Rotates(d)'
  <2>1. Family \in DOMAIN held[d] /\ Covers(d) => Covers(d)'
    BY DEF Covers
  <2>. SUFFICES ASSUME OpOf[d] = "rotate"
               PROVE  Rotates(d)'
    BY DEF Rotates
  <2>2. Rotates(d)
    BY DEF CallInv
  <2>. HIDE DEF Covers
  <2>3. pc[d] \in {"row", "parent", "burn", "family", "familyTokens", "commit"}
           => arg[d] \in Generation /\ db'[Rt(arg[d])] # "none"
    BY <2>2 DEF Rotates
  <2>4. pc[d] = "burn" => \A j \in Generation : Rt(j) \in DOMAIN held[d] => db'[Rt(j)] = db[Rt(j)]
    OBVIOUS
  <2>5. pc[d] \in {"burn", "family", "familyTokens"} =>
            \A j \in Generation : Rt(j) \in DOMAIN held[d] => held[d][Rt(j)] \in {"revoked", db'[Rt(j)]}
    BY <2>2 DEF Rotates
  <2>6. pc[d] \in {"parent", "commit"} => db'[Rt(arg[d])] = "active"
    BY <2>2, <2>3 DEF Rotates
  <2>7. pc[d] = "commit" => db'[Grant] = "active"
    BY <2>2 DEF Rotates
  <2>8. pc[d] = "answer" => db'[Rt(arg[d] + 1)] # "none"
    BY <2>2 DEF Rotates
  <2>9. outcome[d] = "ok" => db'[Rt(arg[d])] \in {"superseded", "revoked"}
    BY <2>2 DEF Rotates
  <2>10. pc[d] \in {"family", "familyTokens"} => Covers(d)'
    BY <2>1, <2>2 DEF Rotates
  <2>. QED
    BY ONLY <2>2, <2>3, <2>4, <2>5, <2>6, <2>7, <2>8, <2>9, <2>10, OpOf[d] = "rotate",
       held'[d] = held[d], pc'[d] = pc[d], arg'[d] = arg[d], outcome'[d] = outcome[d]
    DEF Rotates
<1>5. Revokes(d)'
  BY DEF CallInv, Revokes
<1>6. Inserts(d)'
  BY DEF CallInv, Inserts, InsertsRt, InsertsTok
<1>. QED  BY <1>1, <1>2, <1>3, <1>4, <1>5, <1>6 DEF CallInv
-----------------------------------------------------------------------------
LEMMA HeldType == TypeOK => held \in [Call -> Lock]
BY DEF TypeOK, Lock

\* Call c moves and nothing is committed.
LEMMA Quiet ==
    ASSUME Inv, NEW c \in Call, TypeOK', CallInv(c)',
           UNCHANGED <<path, db, known>>,
           \A d \in Call \ {c} : /\ held'[d] = held[d] /\ pc'[d] = pc[d] /\ todo'[d] = todo[d]
                                 /\ arg'[d] = arg[d] /\ outcome'[d] = outcome[d]
    PROVE  Inv'
<1>1. World'
  BY DEF Inv, World, FamilyIsAChain
<1>2. ASSUME NEW d \in Call \ {c} PROVE CallInv(d)'
  BY Bystander DEF Inv
<1>. QED  BY <1>1, <1>2 DEF Inv

\* A call ends, refused or lost; its transaction leaves nothing behind.
LEMMA Ends ==
    ASSUME Inv, NEW c \in Call, Goto(c, "done"), Release(c), todo' = [todo EXCEPT ![c] = {}],
           UNCHANGED <<path, db, arg, outcome, known>>, faults' \in 0..MaxFaults
    PROVE  Inv'
<1>1. TypeOK'
  <2>1. held' \in [Call -> Lock] /\ DOMAIN held'[c] = {} /\ \A d \in Call \ {c} : held'[d] = held[d]
    BY HeldType, Releasing DEF Inv
  <2>. QED  BY <2>1 DEF Inv, TypeOK, Goto, Point, Lock
<1>2. CallInv(c)'
  <2>1. DOMAIN held'[c] = {} /\ pc'[c] = "done" /\ todo'[c] = {}
    BY HeldType, Releasing DEF Inv, TypeOK, Goto
  <2>. QED
    BY <2>1 DEF Inv, CallInv, Places, Decides, Redeems, Spent, Rotates, Covers, Revokes, Inserts, Statement
<1>. QED
  BY <1>1, <1>2, Quiet, HeldType, Releasing DEF Inv, TypeOK, Goto

\* A call goes on to a point at which it holds what it held.
LEMMA Goes ==
    ASSUME Inv, NEW c \in Call, NEW to \in Point, NEW S \in SUBSET Row,
           pc' = [pc EXCEPT ![c] = to], todo' = [todo EXCEPT ![c] = S],
           UNCHANGED <<path, db, held, arg, outcome, known, faults>>,
           CallInv(c)'
    PROVE  Inv'
<1>1. TypeOK'
  BY DEF Inv, TypeOK
<1>. QED
  BY <1>1, Quiet DEF Inv, TypeOK

LEMMA Initially == Init => Inv
<1>. SUFFICES ASSUME Init PROVE Inv
  OBVIOUS
<1>. USE RowsDiffer, RowsKnown, Nothing
<1>1. TypeOK
  <2>1. held \in [Call -> Lock] /\ \A c \in Call : DOMAIN held[c] = {}
    BY DEF Init
  <2>2. db \in [Row -> Value]
    BY DEF Init, Value
  <2>3. todo \in [Call -> SUBSET Row] /\ arg \in [Call -> Nat] /\ pc \in [Call -> Point]
        /\ outcome \in [Call -> {"none", "ok"}]
    BY DEF Init, Point
  <2>4. path \in Path /\ known \subseteq Row /\ faults \in 0..MaxFaults
    BY BoundsAreNat DEF Init
  <2>. QED  BY ONLY <2>1, <2>2, <2>3, <2>4 DEF TypeOK, Lock
<1>2. World
  <2>1. \A k \in Generation : db[Rt(k)] = "none" /\ db[Tok(k)] = "none"
    BY DEF Init
  <2>2. db[Code] # "consumed"
    BY DEF Init
  <2>. QED  BY <2>1, <2>2 DEF Init, World, FamilyIsAChain
<1>3. \A c \in Call : CallInv(c)
  <2>. TAKE c \in Call
  <2>1. /\ DOMAIN held[c] = {} /\ pc[c] = "idle" /\ todo[c] = {} /\ outcome[c] = "none"
        /\ arg[c] = 0
    BY DEF Init
  <2>. QED
    BY <2>1 DEF CallInv, Places, Decides, Redeems, Rotates, Revokes, Inserts, Statement
<1>. QED  BY <1>1, <1>2, <1>3 DEF Inv
-----------------------------------------------------------------------------
\* Steps that lock nothing and commit nothing.

LEMMA RefusedSteps ==
    ASSUME Inv, NEW c \in Call,
           \/ ApproveRefused(c) \/ DenyRefused(c) \/ DeliverRefused(c) \/ CodeRefused(c)
           \/ CexRefused(c) \/ DeviceRefused(c) \/ RotationRefused(c) \/ Lost(c)
    PROVE  Inv'
<1>1. CASE Refuse(c)
  BY <1>1, Ends DEF Refuse, Inv, TypeOK
<1>2. CASE Lost(c)
  <2>1. faults' \in 0..MaxFaults
    BY <1>2, BoundsAreNat DEF Lost, Inv, TypeOK
  <2>. QED  BY <1>2, <2>1, Ends DEF Lost
<1>. QED
  BY <1>1, <1>2
  DEF ApproveRefused, DenyRefused, DeliverRefused, CodeRefused, CexRefused, DeviceRefused, RotationRefused

LEMMA ReadingSteps ==
    ASSUME Inv, NEW c \in Call,
           ReadConsent(c) \/ DeliverToken(c) \/ CheckCode(c) \/ Poll(c)
    PROVE  Inv'
<1>. PICK to \in Point : /\ pc' = [pc EXCEPT ![c] = to]
                         /\ to \in {"claim", "deliver", "consume", "swap", "done"}
                         /\ to \in {"claim", "deliver"} => OpOf[c] = "decide"
                         /\ to = "consume" => OpOf[c] = "redeem" /\ path = "oauth"
                         /\ to = "swap" => OpOf[c] = "redeem" /\ path = "device" /\ arg[c] = 0
  BY DEF ReadConsent, DeliverToken, CheckCode, Poll, Goto, Idle, Point, Inv, World, CallInv, Places
<1>1. UNCHANGED <<path, db, held, todo, arg, outcome, known, faults>> /\ pc[c] \in {"idle", "deliver"}
  BY DEF ReadConsent, DeliverToken, CheckCode, Poll, Idle
<1>2. pc'[c] = to
  BY DEF Inv, TypeOK
<1>3. todo[c] = {} /\ outcome[c] # "ok" /\ DOMAIN held[c] = {}
  BY <1>1 DEF Inv, CallInv, Places, Statement
<1>4. CallInv(c)'
  BY <1>1, <1>2, <1>3
  DEF CallInv, Places, Decides, Redeems, Spent, Rotates, Covers, Revokes, Inserts, Statement
<1>5. todo' = [todo EXCEPT ![c] = {}]
  BY <1>1, <1>3 DEF Inv, TypeOK
<1>. QED
  BY <1>1, <1>4, <1>5, Goes

\* A statement selects the rows that it is going to update.
LEMMA Selects ==
    ASSUME Inv, NEW c \in Call, NEW s \in Statement, Select(c, s),
           UNCHANGED <<path, db, held, arg, outcome, known, faults>>,
           \/ s = "closing" /\ pc[c] = "deliver" /\ path # "oauth"
           \/ s = "generations" /\ pc[c] = "idle" /\ OpOf[c] = "revoke"
           \/ s = "tokens" /\ pc[c] = "generations"
           \/ s = "family" /\ pc[c] = "burn"
           \/ s = "familyTokens" /\ pc[c] = "family" /\ todo[c] = {}
    PROVE  Inv'
<1>. USE RowsDiffer, RowsKnown
<1>. DEFINE S == {r \in TableOf(s) : Matches(s, Seen(c, r))}
<1>1. todo' = [todo EXCEPT ![c] = S] /\ pc' = [pc EXCEPT ![c] = s]
  BY DEF Select, Goto
<1>2. pc'[c] = s /\ todo'[c] = S
  BY <1>1 DEF Inv, TypeOK
<1>3. S \subseteq TableOf(s) /\ TableOf(s) \subseteq Row
  BY DEF TableOf, Statement
<1>4. CallInv(c) /\ TypeOK /\ World
  BY DEF Inv
<1>5. \/ OpOf[c] = "decide" /\ s = "closing"
      \/ OpOf[c] = "revoke" /\ s \in {"generations", "tokens"}
      \/ OpOf[c] = "rotate" /\ s \in {"family", "familyTokens"}
  BY <1>4 DEF CallInv, Places
<1>6. outcome[c] # "ok" /\ pc[c] # "commit"
  BY <1>4 DEF CallInv, Places
<1>7. Places(c)'
  BY <1>2, <1>3, <1>4, <1>5, <1>6 DEF CallInv, Places, Statement
<1>8. Inserts(c)'
  <2>1. \A r \in S : r \notin DOMAIN held[c] => db[r] # "none"
    BY DEF Seen, Matches, Statement
  <2>2. \A k \in Generation : Rt(k) \in DOMAIN held[c] => db[Rt(k)] # "none"
    BY <1>4, <1>5, <1>6 DEF CallInv, Inserts, InsertsRt
  <2>3. \A k \in 1..MaxGeneration : Tok(k) \in DOMAIN held[c] => db[Tok(k)] # "none"
    BY <1>4, <1>5, <1>6 DEF CallInv, Inserts, InsertsTok
  <2>. QED  BY <1>2, <2>1, <2>2, <2>3 DEF Inserts
<1>9. Rotates(c)'
  <2>. SUFFICES ASSUME OpOf[c] = "rotate" PROVE Rotates(c)'
    BY DEF Rotates
  <2>1. Rotates(c)
    BY <1>4 DEF CallInv
  <2>2. s \in {"family", "familyTokens"} /\ pc[c] \in {"burn", "family"}
    BY <1>5
  <2>3. Covers(c)'
    <3>. SUFFICES ASSUME NEW j \in Generation
                 PROVE  \/ db[Rt(j)] \in {"none", "revoked"}
                        \/ s = "family" /\ Rt(j) \in S
                        \/ Rt(j) \in DOMAIN held[c] /\ held[c][Rt(j)] = "revoked"
      BY <1>2 DEF Covers
    <3>1. CASE s = "family"
      <4>1. Rt(j) \in DOMAIN held[c] => held[c][Rt(j)] = db[Rt(j)]
        BY <3>1, <2>1 DEF Rotates
      <4>2. Seen(c, Rt(j)) = db[Rt(j)]
        BY <4>1 DEF Seen
      <4>3. db[Rt(j)] \in {"active", "superseded"} => Rt(j) \in S
        BY <3>1, <4>2 DEF TableOf, Matches
      <4>. QED  BY <1>4, <3>1, <4>3 DEF World
    <3>2. CASE s = "familyTokens"
      BY <1>5, <3>2, <2>1 DEF Rotates, Covers
    <3>. QED  BY <2>2, <3>1, <3>2
  <2>. QED
    BY <1>2, <1>6, <2>1, <2>2, <2>3 DEF Rotates
<1>10. Decides(c)' /\ Redeems(c)' /\ Revokes(c)'
  BY <1>2, <1>4, <1>5 DEF CallInv, Decides, Redeems, Revokes
<1>11. CallInv(c)'
  BY <1>7, <1>8, <1>9, <1>10 DEF CallInv
<1>12. s \in Point /\ S \in SUBSET Row
  BY <1>3 DEF Point
<1>. QED
  BY <1>1, <1>11, <1>12, Goes
 
LEMMA SelectingSteps ==
    ASSUME Inv, NEW c \in Call,
           Mint(c) \/ RevokeFamily(c) \/ RevokeFamilyTokens(c) \/ RevokeGenerations(c) \/ RevokeTokens(c)
    PROVE  Inv'
<1>1. CASE Mint(c)
  <2>1. \A r \in Cexes : Seen(c, r) = db[r]
    BY <1>1 DEF Mint, Inv, CallInv, Places, Seen
  <2>2. Select(c, "closing")
    BY <1>1, <2>1 DEF Mint, Select, TableOf, Matches
  <2>. QED  BY <1>1, <2>2, Selects DEF Mint, Statement
<1>. QED
  BY <1>1, Selects
  DEF RevokeFamily, RevokeFamilyTokens, RevokeGenerations, RevokeTokens, Idle, Statement
-----------------------------------------------------------------------------
\* Steps that lock.

LEMMA Locks ==
    ASSUME Inv, NEW c \in Call, NEW f \in Lock, Hold(c, f),
           \A r \in DOMAIN f \ DOMAIN held[c] : Free(c, r),
           NEW to \in Point, pc' = [pc EXCEPT ![c] = to],
           NEW S \in SUBSET Row, todo' = [todo EXCEPT ![c] = S],
           NEW n \in Nat, arg' = [arg EXCEPT ![c] = n],
           UNCHANGED <<path, db, outcome, known, faults>>,
           CallInv(c)'
    PROVE  Inv'
<1>1. held \in [Call -> Lock]
  BY HeldType DEF Inv
<1>2. held' \in [Call -> Lock]
  BY <1>1, Holding
<1>3. \A d \in Call \ {c} : held'[d] = held[d]
  BY <1>1, Holding
<1>4. DOMAIN held'[c] = DOMAIN f \cup DOMAIN held[c]
  BY <1>1, Holding
<1>5. \A d, e \in Call : d # e => DOMAIN held'[d] \cap DOMAIN held'[e] = {}
  BY <1>3, <1>4 DEF Free, Inv, TypeOK
<1>6. TypeOK'
  BY <1>2, <1>5 DEF Inv, TypeOK, Lock
<1>. QED
  BY <1>3, <1>6, Quiet DEF Inv, TypeOK

\* A row that is not there yet is free for the call that may insert it.
LEMMA NewRowsFree ==
    ASSUME Inv, NEW c \in Call
    PROVE  /\ db[Code] # "consumed" /\ Free(c, Code) => Free(c, Rt(0))
           /\ \A k \in 0..(MaxGeneration - 1) :
                  OpOf[c] = "rotate" /\ Family \in DOMAIN held[c] /\ db[Rt(k)] = "active"
                      => /\ db[Rt(k + 1)] = "none" /\ db[Tok(k + 1)] = "none"
                         /\ Free(c, Rt(k + 1)) /\ Free(c, Tok(k + 1))
<1>. USE RowsDiffer, RowsKnown
<1>1. ASSUME db[Code] # "consumed", Free(c, Code), NEW d \in Call \ {c}, Rt(0) \in DOMAIN held[d]
      PROVE  FALSE
  <2>1. db[Rt(0)] = "none"
    BY <1>1 DEF Inv, World
  <2>2. InsertsRt(d, 0)
    BY <1>1, <2>1 DEF Inv, CallInv, Inserts
  <2>3. OpOf[d] = "rotate" /\ pc[d] = "commit" /\ 0 = arg[d] + 1
    BY <1>1, <2>2 DEF InsertsRt, Free
  <2>4. arg[d] \in Nat
    BY DEF Inv, TypeOK
  <2>. QED  BY <2>3, <2>4
<1>2. ASSUME NEW k \in 0..(MaxGeneration - 1), OpOf[c] = "rotate", Family \in DOMAIN held[c],
             db[Rt(k)] = "active"
      PROVE  /\ db[Rt(k + 1)] = "none" /\ db[Tok(k + 1)] = "none"
             /\ Free(c, Rt(k + 1)) /\ Free(c, Tok(k + 1))
  <2>1. k \in Generation /\ k + 1 \in Generation /\ k + 1 \in 1..MaxGeneration /\ k < k + 1
    BY <1>2 DEF Generation
  <2>2. db[Rt(k + 1)] = "none"
    BY <1>2, <2>1 DEF Inv, World, FamilyIsAChain
  <2>3. db[Tok(k + 1)] = "none"
    BY <2>1, <2>2 DEF Inv, World
  <2>4. ASSUME NEW d \in Call \ {c}, Rt(k + 1) \in DOMAIN held[d] \/ Tok(k + 1) \in DOMAIN held[d]
        PROVE  FALSE
    <3>1. InsertsRt(d, k + 1) \/ InsertsTok(d, k + 1)
      BY <2>1, <2>2, <2>3, <2>4 DEF Inv, CallInv, Inserts
    <3>2. k + 1 # 0
      BY <1>2
    <3>3. Family \in DOMAIN held[d]
      BY <3>1, <3>2 DEF InsertsRt, InsertsTok, Inv, CallInv, Rotates
    <3>. QED  BY <1>2, <3>3 DEF Inv, TypeOK
  <2>. QED  BY <2>2, <2>3, <2>4 DEF Free
<1>. QED  BY <1>1, <1>2 DEF Free

LEMMA Unchanged ==
    ASSUME TypeOK, NEW c \in Call
    PROVE  todo = [todo EXCEPT ![c] = todo[c]] /\ arg = [arg EXCEPT ![c] = arg[c]]
           /\ todo[c] \in SUBSET Row /\ arg[c] \in Nat
BY DEF TypeOK

LEMMA ConsumeStep == ASSUME Inv, NEW c \in Call, Consume(c) PROVE Inv'
<1>. USE RowsDiffer, RowsKnown
<1>. DEFINE f == [r \in {Code, Rt(0)} |-> IF r = Code THEN "consumed" ELSE "active"]
<1>1. f \in Lock /\ DOMAIN f = {Code, Rt(0)} /\ f[Code] = "consumed" /\ f[Rt(0)] = "active"
  <2>1. f \in [{Code, Rt(0)} -> Value] /\ {Code, Rt(0)} \in SUBSET Row
    BY DEF Value
  <2>. QED  BY <2>1 DEF Lock
<1>2. Hold(c, f) /\ pc[c] = "consume" /\ Free(c, Code) /\ db[Code] = "issued"
      /\ UNCHANGED <<path, db, todo, arg, outcome, known, faults>>
  BY DEF Consume
<1>. HIDE DEF f
<1>3. pc' = [pc EXCEPT ![c] = "link"] /\ pc'[c] = "link"
  BY DEF Consume, Goto, Inv, TypeOK
<1>4. DOMAIN held[c] = {} /\ OpOf[c] = "redeem" /\ path = "oauth" /\ outcome[c] # "ok" /\ todo[c] = {}
  BY <1>2 DEF Inv, CallInv, Places, Statement
<1>5. DOMAIN held'[c] = {Code, Rt(0)} /\ held'[c][Code] = "consumed" /\ held'[c][Rt(0)] = "active"
  BY <1>1, <1>2, <1>4, Holding, HeldType DEF Inv
<1>6. Free(c, Rt(0))
  BY <1>2, NewRowsFree
<1>7. CallInv(c)'
  BY <1>2, <1>3, <1>4, <1>5
  DEF CallInv, Places, Decides, Redeems, Rotates, Revokes, Inserts, InsertsRt, InsertsTok, Statement
<1>. QED
  BY <1>1, <1>2, <1>3, <1>6, <1>7, Locks, Unchanged DEF Inv, Point

LEMMA LinkStep == ASSUME Inv, NEW c \in Call, Link(c) PROVE Inv'
<1>. USE RowsDiffer, RowsKnown
<1>. DEFINE f == [r \in {Tok(0)} |-> IF db[r] = "bare" THEN "linked" ELSE db[r]]
<1>1. f \in Lock /\ DOMAIN f = {Tok(0)}
  <2>1. f \in [{Tok(0)} -> Value] /\ {Tok(0)} \in SUBSET Row
    BY DEF Inv, TypeOK, Value
  <2>. QED  BY <2>1 DEF Lock
<1>2. Hold(c, f) /\ pc[c] = "link" /\ Free(c, Tok(0))
      /\ UNCHANGED <<path, db, todo, arg, outcome, known, faults>>
  BY DEF Link
<1>. HIDE DEF f
<1>3. pc' = [pc EXCEPT ![c] = "commit"] /\ pc'[c] = "commit"
  BY DEF Link, Goto, Inv, TypeOK
<1>4. OpOf[c] = "redeem" /\ path = "oauth" /\ outcome[c] # "ok" /\ todo[c] = {}
  BY <1>2 DEF Inv, CallInv, Places, Statement
<1>5. /\ {Code, Rt(0)} \subseteq DOMAIN held[c] /\ DOMAIN held[c] \subseteq {Code, Rt(0), Tok(0)}
      /\ held[c][Code] = "consumed" /\ held[c][Rt(0)] = "active" /\ db[Code] = "issued"
  BY <1>2, <1>4 DEF Inv, CallInv, Redeems
<1>6. /\ {Code, Rt(0)} \subseteq DOMAIN held'[c] /\ DOMAIN held'[c] \subseteq {Code, Rt(0), Tok(0)}
      /\ held'[c][Code] = "consumed" /\ held'[c][Rt(0)] = "active"
  <2>1. /\ DOMAIN held'[c] = {Tok(0)} \cup DOMAIN held[c]
        /\ \A r \in DOMAIN held[c] \ {Tok(0)} : held'[c][r] = held[c][r]
    BY <1>1, <1>2, Holding, HeldType DEF Inv
  <2>. QED  BY <1>5, <2>1
<1>7. CallInv(c)'
  BY <1>2, <1>3, <1>4, <1>5, <1>6
  DEF CallInv, Places, Decides, Redeems, Rotates, Revokes, Inserts, InsertsRt, InsertsTok, Statement
<1>. QED
  BY <1>1, <1>2, <1>3, <1>7, Locks, Unchanged DEF Inv, Point

\* Locking rows as they are.
LEMMA Keeping ==
    ASSUME TypeOK, NEW c \in Call, NEW S \in SUBSET Row
    PROVE  /\ Keep(c, S) \in Lock /\ DOMAIN Keep(c, S) = S
           /\ \A r \in S : Keep(c, S)[r] = Seen(c, r)
<1>1. \A r \in S : Seen(c, r) \in Value
  BY HeldType, Locked DEF Seen, TypeOK
<1>2. Keep(c, S) \in [S -> Value]
  BY <1>1 DEF Keep
<1>. QED  BY <1>2 DEF Lock, Keep

LEMMA LockCexStep == ASSUME Inv, NEW c \in Call, LockCex(c) PROVE Inv'
<1>. USE RowsDiffer, RowsKnown
<1>. PICK i \in 1..MaxCode : /\ Cex(i) \in known /\ Free(c, Cex(i))
                            /\ Hold(c, Keep(c, {Cex(i)}))
                            /\ arg' = [arg EXCEPT ![c] = i]
  BY DEF LockCex
<1>1. pc[c] = "idle" /\ OpOf[c] = "redeem" /\ UNCHANGED <<path, db, todo, outcome, known, faults>>
  BY DEF LockCex, Idle
<1>2. pc' = [pc EXCEPT ![c] = "token"] /\ pc'[c] = "token" /\ arg'[c] = i /\ i \in Nat
  BY DEF LockCex, Goto, Inv, TypeOK
<1>3. path # "oauth"
  BY DEF Inv, World
<1>4. DOMAIN held[c] = {} /\ outcome[c] # "ok" /\ todo[c] = {}
  BY <1>1 DEF Inv, CallInv, Places, Statement
<1>5. Keep(c, {Cex(i)}) \in Lock /\ DOMAIN Keep(c, {Cex(i)}) = {Cex(i)}
  BY Keeping DEF Inv
<1>6. DOMAIN held'[c] = {Cex(i)}
  BY <1>4, <1>5, Holding, HeldType DEF Inv
<1>7. CallInv(c)'
  BY <1>1, <1>2, <1>3, <1>4, <1>6
  DEF CallInv, Places, Decides, Redeems, Rotates, Revokes, Inserts, Statement
<1>. QED
  BY <1>1, <1>2, <1>5, <1>7, Locks, Unchanged DEF Inv, Point

LEMMA LockTokenStep == ASSUME Inv, NEW c \in Call, LockToken(c) PROVE Inv'
<1>. USE RowsDiffer, RowsKnown
<1>1. /\ pc[c] = "token" /\ Free(c, Tok(0)) /\ db[Cex(arg[c])] = "open"
      /\ Hold(c, Keep(c, {Tok(0)})) /\ UNCHANGED <<path, db, todo, arg, outcome, known, faults>>
  BY DEF LockToken
<1>2. pc' = [pc EXCEPT ![c] = "share"] /\ pc'[c] = "share"
  BY DEF LockToken, Goto, Inv, TypeOK
<1>3. OpOf[c] = "redeem" /\ path # "oauth" /\ outcome[c] # "ok" /\ todo[c] = {}
  BY <1>1 DEF Inv, CallInv, Places, Statement
<1>4. /\ arg[c] \in 1..MaxCode
      /\ Cex(arg[c]) \in DOMAIN held[c] /\ DOMAIN held[c] \subseteq {Cex(arg[c]), Tok(0), Grant}
  BY <1>1, <1>3 DEF Inv, CallInv, Redeems
<1>5. Keep(c, {Tok(0)}) \in Lock /\ DOMAIN Keep(c, {Tok(0)}) = {Tok(0)}
  BY Keeping DEF Inv
<1>6. Cex(arg[c]) \in DOMAIN held'[c] /\ DOMAIN held'[c] \subseteq {Cex(arg[c]), Tok(0), Grant}
  <2>1. DOMAIN held'[c] = {Tok(0)} \cup DOMAIN held[c]
    BY <1>1, <1>5, Holding, HeldType DEF Inv
  <2>. QED  BY <1>4, <2>1
<1>7. CallInv(c)'
  <2>1. Places(c)'
    BY <1>1, <1>2, <1>3 DEF Places, Statement
  <2>2. Redeems(c)'
    BY <1>1, <1>2, <1>3, <1>4, <1>6 DEF Redeems
  <2>3. Inserts(c)'
    <3>1. \A k \in Generation : Rt(k) \notin DOMAIN held'[c]
      BY <1>6
    <3>2. \A k \in 1..MaxGeneration : Tok(k) \notin DOMAIN held'[c]
      BY <1>6
    <3>. QED  BY ONLY <1>1, <1>3, <3>1, <3>2 DEF Inserts
  <2>. QED
    BY <1>3, <2>1, <2>2, <2>3 DEF CallInv, Decides, Rotates, Revokes
<1>. QED
  BY <1>1, <1>2, <1>5, <1>7, Locks, Unchanged DEF Inv, Point

LEMMA ShareGrantStep == ASSUME Inv, NEW c \in Call, ShareGrant(c) PROVE Inv'
<1>. USE RowsDiffer, RowsKnown
<1>. DEFINE f == [r \in {Grant, Cex(arg[c])} |-> IF r = Grant THEN db[r] ELSE "closed"]
<1>1. /\ pc[c] = "share" /\ Free(c, Grant) /\ db[Grant] = "active"
      /\ Hold(c, f) /\ UNCHANGED <<path, db, todo, arg, outcome, known, faults>>
  BY DEF ShareGrant
<1>2. pc' = [pc EXCEPT ![c] = "commit"] /\ pc'[c] = "commit"
  BY DEF ShareGrant, Goto, Inv, TypeOK
<1>3. OpOf[c] = "redeem" /\ path # "oauth" /\ outcome[c] # "ok" /\ todo[c] = {}
  BY <1>1 DEF Inv, CallInv, Places, Statement
<1>4. /\ arg[c] \in 1..MaxCode /\ db[Cex(arg[c])] = "open"
      /\ Cex(arg[c]) \in DOMAIN held[c] /\ DOMAIN held[c] \subseteq {Cex(arg[c]), Tok(0), Grant}
  BY <1>1, <1>3 DEF Inv, CallInv, Redeems
<1>5. f \in Lock /\ DOMAIN f = {Grant, Cex(arg[c])} /\ f[Grant] = "active" /\ f[Cex(arg[c])] = "closed"
  <2>1. f \in [{Grant, Cex(arg[c])} -> Value] /\ {Grant, Cex(arg[c])} \in SUBSET Row
    BY <1>4 DEF Inv, TypeOK, Value
  <2>. QED  BY <2>1, <1>1, <1>4 DEF Lock
<1>. HIDE DEF f
<1>6. /\ Cex(arg[c]) \in DOMAIN held'[c] /\ DOMAIN held'[c] \subseteq {Cex(arg[c]), Tok(0), Grant}
      /\ held'[c][Cex(arg[c])] = "closed" /\ Grant \in DOMAIN held'[c] /\ held'[c][Grant] = "active"
  BY <1>1, <1>4, <1>5, Holding, HeldType DEF Inv
<1>7. CallInv(c)'
  BY <1>1, <1>2, <1>3, <1>4, <1>6
  DEF CallInv, Places, Decides, Redeems, Rotates, Revokes, Inserts, Statement
<1>. QED
  BY <1>1, <1>2, <1>4, <1>5, <1>7, Locks, Unchanged DEF Inv, Point

LEMMA LockFamilyStep == ASSUME Inv, NEW c \in Call, LockFamily(c) PROVE Inv'
<1>. USE RowsDiffer, RowsKnown
<1>. PICK k \in 0..(MaxGeneration - 1) : /\ Rt(k) \in known /\ Free(c, Family)
                                         /\ Hold(c, Keep(c, {Family}))
                                         /\ arg' = [arg EXCEPT ![c] = k]
  BY DEF LockFamily
<1>1. pc[c] = "idle" /\ OpOf[c] = "rotate" /\ UNCHANGED <<path, db, todo, outcome, known, faults>>
  BY DEF LockFamily, Idle
<1>2. pc' = [pc EXCEPT ![c] = "row"] /\ pc'[c] = "row" /\ arg'[c] = k /\ k \in Nat
  BY DEF LockFamily, Goto, Inv, TypeOK
<1>3. db[Rt(k)] # "none"
  BY DEF Inv, World
<1>4. DOMAIN held[c] = {} /\ outcome[c] # "ok" /\ todo[c] = {}
  BY <1>1 DEF Inv, CallInv, Places, Statement
<1>5. Keep(c, {Family}) \in Lock /\ DOMAIN Keep(c, {Family}) = {Family}
  BY Keeping DEF Inv
<1>6. DOMAIN held'[c] = {Family}
  BY <1>4, <1>5, Holding, HeldType DEF Inv
<1>7. CallInv(c)'
  BY <1>1, <1>2, <1>3, <1>4, <1>6
  DEF CallInv, Places, Decides, Redeems, Rotates, Revokes, Inserts, Statement
<1>. QED
  BY <1>1, <1>2, <1>5, <1>7, Locks, Unchanged DEF Inv, Point

LEMMA LockGenerationStep == ASSUME Inv, NEW c \in Call, LockGeneration(c) PROVE Inv'
<1>. USE RowsDiffer, RowsKnown
<1>. PICK k \in Nat : k = arg[c]
  BY DEF Inv, TypeOK
<1>1. /\ pc[c] = "row" /\ Free(c, Rt(k))
      /\ Hold(c, Keep(c, {Rt(k)})) /\ UNCHANGED <<path, db, todo, arg, outcome, known, faults>>
  BY DEF LockGeneration
<1>2. PICK to \in {"burn", "parent"} : pc' = [pc EXCEPT ![c] = to] /\ (to = "parent" => db[Rt(k)] = "active")
  BY DEF LockGeneration, Goto
<1>3. pc'[c] = to
  BY <1>2 DEF Inv, TypeOK
<1>4. OpOf[c] = "rotate" /\ outcome[c] # "ok" /\ todo[c] = {}
  BY <1>1 DEF Inv, CallInv, Places, Statement
<1>5. DOMAIN held[c] = {Family} /\ k \in 0..(MaxGeneration - 1) /\ db[Rt(k)] # "none"
  BY <1>1, <1>4 DEF Inv, CallInv, Rotates
<1>6. k \in Generation /\ {Rt(k)} \in SUBSET Row
  BY <1>5
<1>7. /\ Keep(c, {Rt(k)}) \in Lock /\ DOMAIN Keep(c, {Rt(k)}) = {Rt(k)}
      /\ Keep(c, {Rt(k)})[Rt(k)] = db[Rt(k)]
  <2>1. Seen(c, Rt(k)) = db[Rt(k)]
    BY <1>5 DEF Seen
  <2>. QED  BY <1>6, <2>1, Keeping DEF Inv
<1>8. DOMAIN held'[c] = {Family, Rt(k)} /\ held'[c][Rt(k)] = db[Rt(k)]
  <2>1. /\ DOMAIN held'[c] = {Rt(k)} \cup DOMAIN held[c]
        /\ held'[c][Rt(k)] = db[Rt(k)]
    BY <1>1, <1>7, Holding, HeldType DEF Inv
  <2>. QED  BY <1>5, <2>1
<1>9. CallInv(c)'
  <2>1. Places(c)'
    BY <1>1, <1>3, <1>4, <1>2 DEF Places, Statement
  <2>2. Rotates(c)'
    <3>1. \A j \in Generation : Rt(j) \in DOMAIN held'[c] => j = k
      BY <1>8
    <3>2. \A j \in Generation : Tok(j) \notin DOMAIN held'[c]
      BY <1>8
    <3>. QED
      BY <1>1, <1>2, <1>3, <1>4, <1>5, <1>6, <1>8, <3>1, <3>2 DEF Rotates
  <2>3. Inserts(c)'
    BY <1>1, <1>4, <1>5, <1>8 DEF Inserts
  <2>. QED
    BY <1>4, <2>1, <2>2, <2>3 DEF CallInv, Decides, Redeems, Revokes
<1>10. \A r \in DOMAIN Keep(c, {Rt(k)}) : Free(c, r)
  BY <1>1, <1>7
<1>11. to \in Point
  BY DEF Point
<1>. QED
  BY <1>1, <1>2, <1>7, <1>9, <1>10, <1>11, Locks, Unchanged DEF Inv

LEMMA IssueStep == ASSUME Inv, NEW c \in Call, Issue(c) PROVE Inv'
<1>. USE RowsDiffer, RowsKnown
<1>. PICK k \in Nat : k = arg[c]
  BY DEF Inv, TypeOK
<1>. DEFINE S == {Grant, Tok(k + 1), Rt(k), Rt(k + 1)}
            f == [r \in S |-> CASE r = Grant -> db[r]
                                [] r = Tok(k + 1) -> "linked"
                                [] r = Rt(k) -> "superseded"
                                [] r = Rt(k + 1) -> "active"]
<1>1. /\ pc[c] = "parent" /\ Free(c, Grant) /\ db[Grant] = "active"
      /\ Hold(c, f) /\ UNCHANGED <<path, db, todo, arg, outcome, known, faults>>
  BY DEF Issue
<1>2. pc' = [pc EXCEPT ![c] = "commit"] /\ pc'[c] = "commit"
  BY DEF Issue, Goto, Inv, TypeOK
<1>3. OpOf[c] = "rotate" /\ outcome[c] # "ok" /\ todo[c] = {}
  BY <1>1 DEF Inv, CallInv, Places, Statement
<1>4. DOMAIN held[c] = {Family, Rt(k)} /\ k \in 0..(MaxGeneration - 1) /\ db[Rt(k)] = "active"
  BY <1>1, <1>3 DEF Inv, CallInv, Rotates
<1>5. k \in Generation /\ k + 1 \in Generation /\ k # k + 1
  BY <1>4
<1>6. /\ f \in Lock /\ DOMAIN f = S
      /\ f[Grant] = "active" /\ f[Tok(k + 1)] = "linked" /\ f[Rt(k)] = "superseded" /\ f[Rt(k + 1)] = "active"
  <2>1. S \in SUBSET Row
    BY <1>5
  <2>2. \A r \in S : (CASE r = Grant -> db[r]
                        [] r = Tok(k + 1) -> "linked"
                        [] r = Rt(k) -> "superseded"
                        [] r = Rt(k + 1) -> "active") \in Value
    BY <1>1, <1>5 DEF Value
  <2>3. f \in [S -> Value]
    BY <2>2
  <2>4. f[Grant] = "active" /\ f[Tok(k + 1)] = "linked" /\ f[Rt(k)] = "superseded" /\ f[Rt(k + 1)] = "active"
    BY <1>1, <1>5
  <2>. HIDE DEF f, S
  <2>5. f \in Lock
    BY <2>1, <2>3 DEF Lock
  <2>. QED  BY <2>3, <2>4, <2>5
<1>. HIDE DEF f
<1>7. /\ DOMAIN held'[c] = {Family, Grant, Rt(k), Rt(k + 1), Tok(k + 1)}
      /\ held'[c][Rt(k)] = "superseded" /\ held'[c][Rt(k + 1)] = "active"
      /\ held'[c][Tok(k + 1)] = "linked" /\ held'[c][Grant] = "active"
  <2>1. DOMAIN held'[c] = S \cup DOMAIN held[c] /\ \A r \in S : held'[c][r] = f[r]
    BY <1>1, <1>6, Holding, HeldType DEF Inv
  <2>. QED  BY <1>4, <1>6, <2>1
<1>8. Free(c, Rt(k + 1)) /\ Free(c, Tok(k + 1))
  BY <1>3, <1>4, NewRowsFree
<1>9. CallInv(c)'
  <2>1. Places(c)'
    BY <1>1, <1>2, <1>3 DEF Places, Statement
  <2>2. Rotates(c)'
    BY <1>1, <1>2, <1>3, <1>4, <1>5, <1>7 DEF Rotates
  <2>3. Inserts(c)'
    <3>1. \A j \in Generation : Rt(j) \in DOMAIN held'[c] => j \in {k, k + 1}
      BY <1>7
    <3>2. \A j \in 1..MaxGeneration : Tok(j) \in DOMAIN held'[c] => j = k + 1
      BY <1>7
    <3>. QED
      BY ONLY <1>1, <1>2, <1>3, <1>4, <3>1, <3>2, k = arg[c] DEF Inserts, InsertsRt, InsertsTok
  <2>. QED
    BY <1>3, <2>1, <2>2, <2>3 DEF CallInv, Decides, Redeems, Revokes
<1>10. \A r \in DOMAIN f \ DOMAIN held[c] : Free(c, r)
  BY <1>1, <1>4, <1>6, <1>8
<1>. QED
  BY <1>1, <1>2, <1>6, <1>9, <1>10, Locks, Unchanged DEF Inv, Point

LEMMA ParentGoneStep == ASSUME Inv, NEW c \in Call, ParentGone(c) PROVE Inv'
<1>. USE RowsDiffer, RowsKnown
<1>. PICK k \in Nat : k = arg[c]
  BY DEF Inv, TypeOK
<1>1. /\ pc[c] = "parent" /\ Free(c, Grant)
      /\ Hold(c, Keep(c, {Grant})) /\ UNCHANGED <<path, db, todo, arg, outcome, known, faults>>
  BY DEF ParentGone
<1>2. pc' = [pc EXCEPT ![c] = "burn"] /\ pc'[c] = "burn"
  BY DEF ParentGone, Goto, Inv, TypeOK
<1>3. OpOf[c] = "rotate" /\ outcome[c] # "ok" /\ todo[c] = {}
  BY <1>1 DEF Inv, CallInv, Places, Statement
<1>4. /\ DOMAIN held[c] = {Family, Rt(k)} /\ held[c][Rt(k)] = "active"
      /\ k \in 0..(MaxGeneration - 1) /\ db[Rt(k)] = "active"
  BY <1>1, <1>3 DEF Inv, CallInv, Rotates
<1>5. Keep(c, {Grant}) \in Lock /\ DOMAIN Keep(c, {Grant}) = {Grant}
  BY Keeping DEF Inv
<1>6. DOMAIN held'[c] = {Family, Rt(k), Grant} /\ held'[c][Rt(k)] = "active"
  <2>1. /\ DOMAIN held'[c] = {Grant} \cup DOMAIN held[c]
        /\ \A r \in DOMAIN held[c] \ {Grant} : held'[c][r] = held[c][r]
    BY <1>1, <1>5, Holding, HeldType DEF Inv
  <2>. QED  BY <1>4, <2>1
<1>7. CallInv(c)'
  <2>1. Places(c)'
    BY <1>1, <1>2, <1>3 DEF Places, Statement
  <2>2. \A j \in Generation : Rt(j) \in DOMAIN held'[c] => j = k
    BY <1>6
  <2>3. \A j \in Generation : Tok(j) \notin DOMAIN held'[c]
    BY <1>6
  <2>4. Rotates(c)'
    BY <1>1, <1>2, <1>3, <1>4, <1>6, <2>2, <2>3 DEF Rotates
  <2>5. Inserts(c)'
    BY <1>1, <1>3, <1>4, <2>2, <2>3 DEF Inserts
  <2>. QED
    BY <1>3, <2>1, <2>4, <2>5 DEF CallInv, Decides, Redeems, Revokes
<1>. QED
  BY <1>1, <1>2, <1>5, <1>7, Locks, Unchanged DEF Inv, Point

LEMMA RevokeParentStep == ASSUME Inv, NEW c \in Call, RevokeParent(c) PROVE Inv'
<1>. USE RowsDiffer, RowsKnown
<1>. DEFINE f == [r \in {Grant} |-> "revoked"]
<1>1. /\ pc[c] = "tokens" /\ todo[c] = {} /\ Free(c, Grant)
      /\ Hold(c, f) /\ UNCHANGED <<path, db, todo, arg, outcome, known, faults>>
  BY DEF RevokeParent
<1>2. pc' = [pc EXCEPT ![c] = "commit"] /\ pc'[c] = "commit"
  BY DEF RevokeParent, Goto, Inv, TypeOK
<1>3. OpOf[c] = "revoke" /\ outcome[c] # "ok"
  BY <1>1 DEF Inv, CallInv, Places
<1>4. f \in Lock /\ DOMAIN f = {Grant}
  <2>1. f \in [{Grant} -> Value] /\ {Grant} \in SUBSET Row
    BY DEF Value
  <2>. QED  BY <2>1 DEF Lock
<1>. HIDE DEF f
<1>5. /\ DOMAIN held'[c] = {Grant} \cup DOMAIN held[c]
      /\ \A r \in DOMAIN held[c] \ {Grant} : held'[c][r] = held[c][r]
  BY <1>1, <1>4, Holding, HeldType DEF Inv
<1>6. CallInv(c)'
  <2>1. Places(c)'
    BY <1>1, <1>2, <1>3 DEF Places, Statement
  <2>2. Revokes(c)'
    BY <1>1, <1>2, <1>3, <1>5 DEF Revokes, Inv, CallInv
  <2>3. Inserts(c)'
    BY <1>1, <1>2, <1>3, <1>5 DEF Inserts, InsertsRt, InsertsTok, Inv, CallInv
  <2>. QED
    BY <1>3, <2>1, <2>2, <2>3 DEF CallInv, Decides, Redeems, Rotates
<1>. QED
  BY <1>1, <1>2, <1>4, <1>6, Locks, Unchanged DEF Inv, Point

LEMMA UpdateRowStep == ASSUME Inv, NEW c \in Call, UpdateRow(c) PROVE Inv'
<1>. USE RowsDiffer, RowsKnown
<1>. DEFINE v == IF pc[c] = "closing" THEN "closed" ELSE "revoked"
<1>1. PICK r \in todo[c] :
          /\ Free(c, r)
          /\ IF Matches(pc[c], Seen(c, r)) THEN Hold(c, [q \in {r} |-> v]) ELSE UNCHANGED held
          /\ todo' = [todo EXCEPT ![c] = @ \ {r}]
  BY DEF UpdateRow
<1>. DEFINE f == [q \in {r} |-> v]
            M == Matches(pc[c], Seen(c, r))
<1>2. pc[c] \in Statement /\ UNCHANGED <<path, db, arg, pc, outcome, known, faults>>
  BY DEF UpdateRow
<1>3. r \in Row /\ todo[c] \in SUBSET Row /\ todo'[c] = todo[c] \ {r} /\ r \in TableOf(pc[c])
  BY <1>1, <1>2 DEF Inv, TypeOK, CallInv, Places
<1>4. f \in Lock /\ DOMAIN f = {r} /\ f[r] = v
  <2>1. f \in [{r} -> Value] /\ {r} \in SUBSET Row
    BY <1>3 DEF Value
  <2>. QED  BY <2>1 DEF Lock
<1>5. outcome[c] # "ok" /\ pc[c] \in {"closing", "generations", "tokens", "family", "familyTokens"}
  BY <1>2 DEF Inv, CallInv, Places, Statement
<1>6. /\ M => Hold(c, f)
      /\ ~M => held' = held
  BY <1>1
<1>. HIDE DEF f
<1>7. /\ M => /\ DOMAIN held'[c] = {r} \cup DOMAIN held[c] /\ held'[c][r] = v
              /\ \A q \in DOMAIN held[c] \ {r} : held'[c][q] = held[c][q]
      /\ ~M => held'[c] = held[c]
  BY <1>4, <1>6, Holding, HeldType DEF Inv
<1>. HIDE DEF M
<1>8. Places(c)'
  BY <1>2, <1>3, <1>5 DEF Places, Inv, CallInv, Statement
<1>9. Decides(c)'
  <2>. SUFFICES ASSUME OpOf[c] = "decide" PROVE Decides(c)'
    BY DEF Decides
  <2>1. pc[c] = "closing"
    BY <1>5 DEF Inv, CallInv, Places
  <2>2. r \in Cexes
    BY <1>3, <2>1 DEF TableOf
  <2>. QED  BY <1>7, <2>1, <2>2 DEF Decides, Inv, CallInv
<1>10. Revokes(c)'
  <2>. SUFFICES ASSUME OpOf[c] = "revoke" PROVE Revokes(c)'
    BY DEF Revokes
  <2>1. Revokes(c)
    BY DEF Inv, CallInv
  <2>2. pc[c] \in {"generations", "tokens"}
    BY <1>5 DEF Inv, CallInv, Places
  <2>3. r \in Rts \cup Toks /\ v = "revoked"
    BY <1>3, <2>2 DEF TableOf
  <2>4. ASSUME NEW j \in Generation, r = Rt(j), M PROVE db[r] = "active"
    <3>1. pc[c] = "generations"
      BY <1>3, <2>2, <2>4 DEF TableOf
    <3>2. Seen(c, r) = "active"
      BY <2>4, <3>1 DEF M, Matches
    <3>. QED  BY <2>1, <2>4, <3>2 DEF Seen, Revokes
  <2>. QED  BY <1>2, <1>7, <2>1, <2>3, <2>4 DEF Revokes
<1>11. Rotates(c)'
  <2>. SUFFICES ASSUME OpOf[c] = "rotate" PROVE Rotates(c)'
    BY DEF Rotates
  <2>1. Rotates(c)
    BY DEF Inv, CallInv
  <2>2. pc[c] \in {"family", "familyTokens"}
    BY <1>5 DEF Inv, CallInv, Places
  <2>3. r \in Rts \cup Toks /\ v = "revoked"
    BY <1>3, <2>2 DEF TableOf
  <2>4. Covers(c)'
    <3>. SUFFICES ASSUME NEW j \in Generation, db[Rt(j)] \notin {"none", "revoked"}
                 PROVE  \/ pc[c] = "family" /\ Rt(j) \in todo'[c]
                        \/ Rt(j) \in DOMAIN held'[c] /\ held'[c][Rt(j)] = "revoked"
      BY <1>2 DEF Covers
    <3>1. CASE Rt(j) \in DOMAIN held[c] /\ held[c][Rt(j)] = "revoked"
      BY <1>7, <2>3, <3>1
    <3>2. CASE pc[c] = "family" /\ Rt(j) \in todo[c] /\ r # Rt(j)
      BY <1>3, <3>2
    <3>3. CASE pc[c] = "family" /\ r = Rt(j) /\ ~(Rt(j) \in DOMAIN held[c] /\ held[c][Rt(j)] = "revoked")
      <4>1. Seen(c, r) = db[r]
        BY <2>1, <3>3 DEF Rotates, Seen
      <4>2. db[r] \in {"active", "superseded"}
        BY <3>3 DEF Inv, World
      <4>3. M
        BY <3>3, <4>1, <4>2 DEF M, Matches
      <4>. QED  BY <1>7, <2>3, <3>3, <4>3
    <3>. QED  BY <2>1, <2>2, <3>1, <3>2, <3>3 DEF Rotates, Covers
  <2>5. DOMAIN held'[c] \subseteq {Family, Grant} \cup Rts \cup Toks /\ Family \in DOMAIN held'[c]
    BY <1>7, <2>1, <2>2, <2>3 DEF Rotates
  <2>6. \A j \in Generation : Rt(j) \in DOMAIN held'[c] => held'[c][Rt(j)] \in {"revoked", db[Rt(j)]}
    BY <1>7, <2>1, <2>2, <2>3 DEF Rotates
  <2>7. \A j \in Generation : Tok(j) \in DOMAIN held'[c] => held'[c][Tok(j)] = "revoked"
    BY <1>7, <2>1, <2>2, <2>3 DEF Rotates
  <2>. QED  BY <1>2, <1>5, <2>1, <2>2, <2>4, <2>5, <2>6, <2>7 DEF Rotates
<1>12. Inserts(c)'
  <2>1. Inserts(c) /\ todo'[c] \subseteq todo[c] /\ DOMAIN held'[c] \subseteq DOMAIN held[c] \cup todo[c]
        /\ (Code \in DOMAIN held[c] => Code \in DOMAIN held'[c])
    BY <1>3, <1>7 DEF Inv, CallInv
  <2>. QED  BY <1>2, <2>1 DEF Inserts, InsertsRt, InsertsTok
<1>13. OpOf[c] # "redeem"
  BY <1>5 DEF Inv, CallInv, Places, Op
<1>14. CallInv(c)'
  BY <1>8, <1>9, <1>10, <1>11, <1>12, <1>13 DEF CallInv, Redeems
<1>15. pc[c] \in Point /\ pc' = [pc EXCEPT ![c] = pc[c]] /\ todo' = [todo EXCEPT ![c] = todo[c] \ {r}]
       /\ todo[c] \ {r} \in SUBSET Row
  BY <1>1, <1>2, <1>3 DEF Inv, TypeOK
<1>16. CASE M
  BY <1>1, <1>2, <1>4, <1>6, <1>14, <1>15, <1>16, Locks, Unchanged DEF Inv
<1>17. CASE ~M
  BY <1>1, <1>2, <1>6, <1>14, <1>15, <1>17, Goes DEF Inv
<1>. QED
  BY <1>16, <1>17
-----------------------------------------------------------------------------
\* Steps that commit.

\* Who may hold the lock of the family.
LEMMA FamilyHolder ==
    ASSUME Inv, NEW d \in Call, Family \in DOMAIN held[d]
    PROVE  /\ OpOf[d] = "rotate" /\ arg[d] \in Generation
           /\ db[Rt(arg[d])] # "none"
<1>. USE RowsDiffer, RowsKnown
<1>1. OpOf[d] = "rotate"
  <2>1. CallInv(d) /\ pc[d] \in Point /\ path \in {"oauth", "exchange", "device"}
    BY PathType DEF Inv, TypeOK
  <2>2. OpOf[d] # "decide"
    BY <2>1 DEF CallInv, Decides
  <2>3. OpOf[d] # "revoke"
    BY <2>1 DEF CallInv, Revokes
  <2>4. OpOf[d] # "redeem"
    BY <2>1 DEF CallInv, Redeems, Places, Point, Statement
  <2>. QED  BY <2>2, <2>3, <2>4, OpOfType DEF Op
<1>2. pc[d] \in {"row", "parent", "burn", "family", "familyTokens", "commit"}
  BY <1>1 DEF Inv, CallInv, Places, TypeOK, Point, Statement
<1>. QED
  BY <1>1, <1>2 DEF Inv, CallInv, Rotates

\* What every change to the committed rows keeps.
Kept ==
    /\ \A k \in Generation : db[Rt(k)] # "none" => db'[Rt(k)] # "none"
    /\ \A k \in 1..MaxGeneration : db[Tok(k)] # "none" => db'[Tok(k)] # "none"
    /\ \A k \in Generation : db[Rt(k)] = "revoked" => db'[Rt(k)] = "revoked"
    /\ \A k \in Generation : db[Rt(k)] = "superseded" => db'[Rt(k)] \in {"superseded", "revoked"}
    /\ db[Code] = "consumed" => db'[Code] = "consumed"
    /\ db[Consent] = "consumed" => db'[Consent] = "consumed"
    /\ \A k \in 1..MaxCode : db[Cex(k)] = "closed" => db'[Cex(k)] = "closed"

\* Call c changes rows, in a statement of its own or at the end of a transaction.
LEMMA Publishes ==
    ASSUME Inv, NEW c \in Call, db' \in [Row -> Value],
           NEW n \in Nat, arg' = [arg EXCEPT ![c] = n],
           NEW to \in Point, pc' = [pc EXCEPT ![c] = to],
           NEW o \in {"none", "ok"}, outcome' = [outcome EXCEPT ![c] = o],
           held' \in [Call -> Lock], \A d \in Call \ {c} : held'[d] = held[d],
           DOMAIN held'[c] = {},
           UNCHANGED <<path, todo, known, faults>>,
           Kept,
           \A d \in Call \ {c} :
               /\ \A k \in Generation : Rt(k) \in DOMAIN held[d] => db'[Rt(k)] = db[Rt(k)]
               /\ \A k \in 1..MaxCode :
                      Cex(k) \in DOMAIN held[d] /\ db[Cex(k)] = "open" => db'[Cex(k)] = "open"
               /\ Code \in DOMAIN held[d] /\ db[Code] = "issued" => db'[Code] = "issued"
               /\ Grant \in DOMAIN held[d] /\ db[Grant] = "active" => db'[Grant] = "active"
               /\ Family \in DOMAIN held[d] =>
                      \A k \in Generation : db[Rt(k)] = "none" => db'[Rt(k)] = "none",
           World', CallInv(c)'
    PROVE  Inv'
<1>1. TypeOK'
  <2>1. \A d, e \in Call : d # e => DOMAIN held'[d] \cap DOMAIN held'[e] = {}
    BY DEF Inv, TypeOK
  <2>2. /\ path' \in Path /\ db' \in [Row -> Value] /\ held' \in [Call -> Lock]
        /\ todo' \in [Call -> SUBSET Row] /\ arg' \in [Call -> Nat]
        /\ pc' \in [Call -> Point] /\ outcome' \in [Call -> {"none", "ok"}]
        /\ known' \subseteq Row /\ faults' \in 0..MaxFaults
    BY DEF Inv, TypeOK
  <2>. QED  BY ONLY <2>1, <2>2 DEF TypeOK, Lock
<1>2. ASSUME NEW d \in Call \ {c} PROVE CallInv(d)'
  <2>1. /\ path' = path /\ held'[d] = held[d] /\ pc'[d] = pc[d] /\ todo'[d] = todo[d]
        /\ arg'[d] = arg[d] /\ outcome'[d] = outcome[d]
    BY DEF Inv, TypeOK
  <2>2. TypeOK /\ World /\ CallInv(d)
    BY DEF Inv
  <2>. QED  BY <2>1, <2>2, Bystander DEF Kept
<1>. QED
  BY <1>1, <1>2 DEF Inv

\* The transaction of c commits.
LEMMA Commits ==
    ASSUME Inv, NEW c \in Call, Commit(c),
           NEW to \in Point, pc' = [pc EXCEPT ![c] = to],
           NEW o \in {"none", "ok"}, outcome' = [outcome EXCEPT ![c] = o],
           UNCHANGED <<path, todo, arg, known, faults>>,
           Kept,
           \A d \in Call \ {c} : Family \in DOMAIN held[d] =>
                  \A k \in Generation : db[Rt(k)] = "none" => db'[Rt(k)] = "none",
           World', CallInv(c)'
    PROVE  Inv'
<1>. USE RowsKnown
<1>1. /\ held' \in [Call -> Lock] /\ DOMAIN held'[c] = {} /\ \A d \in Call \ {c} : held'[d] = held[d]
      /\ db' \in [Row -> Value]
  BY HeldType, Releasing, Committing DEF Inv, TypeOK, Commit
<1>2. ASSUME NEW d \in Call \ {c}, NEW r \in DOMAIN held[d] PROVE db'[r] = db[r]
  <2>1. r \in Row
    BY HeldType, Locked DEF Inv
  <2>2. r \notin DOMAIN held[c]
    BY DEF Inv, TypeOK
  <2>. QED  BY <2>1, <2>2, Committing, HeldType DEF Inv, TypeOK
<1>3. arg[c] \in Nat /\ arg' = [arg EXCEPT ![c] = arg[c]]
  BY DEF Inv, TypeOK
<1>. QED
  BY <1>1, <1>2, <1>3, Publishes

LEMMA ApprovalStep == ASSUME Inv, NEW c \in Call, Approve(c) PROVE Inv'
<1>. USE RowsDiffer, RowsKnown
<1>1. /\ pc[c] = "claim" /\ db[Consent] = "pending"
      /\ db' = [db EXCEPT ![Consent] = "approved", ![Grant] = "active", ![Tok(0)] = "bare"]
      /\ pc' = [pc EXCEPT ![c] = "deliver"]
      /\ UNCHANGED <<path, held, todo, arg, outcome, known, faults>>
  BY DEF Approve, Goto
<1>2. /\ db' \in [Row -> Value] /\ db'[Consent] = "approved" /\ db'[Grant] = "active"
      /\ \A r \in Row \ {Consent, Grant, Tok(0)} : db'[r] = db[r]
  BY <1>1 DEF Inv, TypeOK, Value
<1>3. /\ \A k \in Generation : db'[Rt(k)] = db[Rt(k)]
      /\ \A k \in 1..MaxGeneration : db'[Tok(k)] = db[Tok(k)]
      /\ \A k \in 1..MaxCode : db'[Cex(k)] = db[Cex(k)]
      /\ db'[Code] = db[Code]
  BY <1>2
<1>4. Kept
  BY <1>1, <1>3 DEF Kept
<1>5. World'
  BY <1>1, <1>3 DEF Inv, World, FamilyIsAChain
<1>6. CallInv(c)'
  <2>1. /\ pc'[c] = "deliver" /\ OpOf[c] = "decide" /\ DOMAIN held[c] = {} /\ todo[c] = {}
        /\ outcome[c] # "ok"
    BY <1>1 DEF Inv, CallInv, Places, Statement, TypeOK
  <2>. QED
    BY <1>1, <2>1 DEF CallInv, Places, Decides, Redeems, Rotates, Revokes, Inserts, Statement
<1>7. /\ arg[c] \in Nat /\ arg' = [arg EXCEPT ![c] = arg[c]]
      /\ outcome[c] \in {"none", "ok"} /\ outcome' = [outcome EXCEPT ![c] = outcome[c]]
      /\ held' \in [Call -> Lock] /\ DOMAIN held'[c] = {}
  BY <1>1, HeldType DEF Inv, TypeOK, CallInv, Places
<1>8. "deliver" \in Point
  BY DEF Point
<1>9. /\ \A d \in Call \ {c} : held'[d] = held[d]
      /\ UNCHANGED <<path, todo, known, faults>>
  BY <1>1
<1>. QED
  BY ONLY Inv, c \in Call, <1>1, <1>2, <1>3, <1>4, <1>5, <1>6, <1>7, <1>8, <1>9, Publishes

LEMMA DenyStep == ASSUME Inv, NEW c \in Call, Deny(c) PROVE Inv'
<1>. USE RowsDiffer, RowsKnown
<1>1. /\ pc[c] = "idle" /\ OpOf[c] = "decide" /\ db[Consent] = "pending"
      /\ db' = [db EXCEPT ![Consent] = "denied"]
      /\ pc' = [pc EXCEPT ![c] = "done"]
      /\ UNCHANGED <<path, held, todo, arg, outcome, known, faults>>
  BY DEF Deny, Goto, Idle
<1>2. db' \in [Row -> Value] /\ \A r \in Row \ {Consent} : db'[r] = db[r]
  BY <1>1 DEF Inv, TypeOK, Value
<1>3. /\ \A k \in Generation : db'[Rt(k)] = db[Rt(k)]
      /\ \A k \in 1..MaxGeneration : db'[Tok(k)] = db[Tok(k)]
      /\ \A k \in 1..MaxCode : db'[Cex(k)] = db[Cex(k)]
      /\ db'[Code] = db[Code] /\ db'[Grant] = db[Grant]
  BY <1>2
<1>4. Kept
  BY <1>1, <1>3 DEF Kept
<1>5. World'
  BY <1>1, <1>3 DEF Inv, World, FamilyIsAChain
<1>6. CallInv(c)'
  <2>1. pc'[c] = "done" /\ DOMAIN held[c] = {} /\ todo[c] = {} /\ outcome[c] # "ok"
    BY <1>1 DEF Inv, CallInv, Places, Statement, TypeOK
  <2>. QED
    BY <1>1, <2>1 DEF CallInv, Places, Decides, Redeems, Rotates, Revokes, Inserts, Statement
<1>7. /\ arg[c] \in Nat /\ arg' = [arg EXCEPT ![c] = arg[c]]
      /\ outcome[c] \in {"none", "ok"} /\ outcome' = [outcome EXCEPT ![c] = outcome[c]]
      /\ held' \in [Call -> Lock] /\ DOMAIN held'[c] = {}
  BY <1>1, HeldType DEF Inv, TypeOK, CallInv, Places
<1>8. "done" \in Point
  BY DEF Point
<1>9. /\ \A d \in Call \ {c} : held'[d] = held[d]
      /\ UNCHANGED <<path, todo, known, faults>>
  BY <1>1
<1>. QED
  BY ONLY Inv, c \in Call, <1>1, <1>2, <1>3, <1>4, <1>5, <1>6, <1>7, <1>8, <1>9, Publishes

LEMMA DeliverCodeStep == ASSUME Inv, NEW c \in Call, DeliverCode(c) PROVE Inv'
<1>. USE RowsDiffer, RowsKnown
<1>1. /\ pc[c] = "deliver" /\ path = "oauth" /\ db[Code] \in {"pending", "issued"}
      /\ db' = [db EXCEPT ![Code] = "issued"]
      /\ pc' = [pc EXCEPT ![c] = "answer"]
      /\ UNCHANGED <<path, held, todo, arg, outcome, known, faults>>
  BY DEF DeliverCode, Goto
<1>2. db' \in [Row -> Value] /\ db'[Code] = "issued" /\ \A r \in Row \ {Code} : db'[r] = db[r]
  BY <1>1 DEF Inv, TypeOK, Value
<1>3. /\ \A k \in Generation : db'[Rt(k)] = db[Rt(k)]
      /\ \A k \in 1..MaxGeneration : db'[Tok(k)] = db[Tok(k)]
      /\ \A k \in 1..MaxCode : db'[Cex(k)] = db[Cex(k)]
      /\ db'[Consent] = db[Consent] /\ db'[Grant] = db[Grant]
  BY <1>2
<1>4. Kept
  BY <1>1, <1>3 DEF Kept
<1>5. World'
  <2>1. db[Rt(0)] = "none"
    BY <1>1 DEF Inv, World
  <2>. QED  BY <1>1, <1>3, <2>1 DEF Inv, World, FamilyIsAChain
<1>6. CallInv(c)'
  <2>1. /\ pc'[c] = "answer" /\ OpOf[c] = "decide" /\ DOMAIN held[c] = {} /\ todo[c] = {}
        /\ outcome[c] # "ok"
    BY <1>1 DEF Inv, CallInv, Places, Statement, TypeOK
  <2>. QED
    BY <1>1, <2>1 DEF CallInv, Places, Decides, Redeems, Rotates, Revokes, Inserts, Statement
<1>7. /\ arg[c] \in Nat /\ arg' = [arg EXCEPT ![c] = arg[c]]
      /\ outcome[c] \in {"none", "ok"} /\ outcome' = [outcome EXCEPT ![c] = outcome[c]]
      /\ held' \in [Call -> Lock] /\ DOMAIN held'[c] = {}
  BY <1>1, HeldType DEF Inv, TypeOK, CallInv, Places
<1>8. "answer" \in Point
  BY DEF Point
<1>9. /\ \A d \in Call \ {c} : held'[d] = held[d]
      /\ UNCHANGED <<path, todo, known, faults>>
  BY <1>1
<1>. QED
  BY ONLY Inv, c \in Call, <1>1, <1>2, <1>3, <1>4, <1>5, <1>6, <1>7, <1>8, <1>9, Publishes

LEMMA SwapStep == ASSUME Inv, NEW c \in Call, Swap(c) PROVE Inv'
<1>. USE RowsDiffer, RowsKnown
<1>1. /\ pc[c] = "swap" /\ db[Consent] = "approved"
      /\ db' = [db EXCEPT ![Consent] = "consumed"]
      /\ outcome' = [outcome EXCEPT ![c] = "ok"]
      /\ pc' = [pc EXCEPT ![c] = "answer"]
      /\ UNCHANGED <<path, held, todo, arg, known, faults>>
  BY DEF Swap, Goto
<1>2. db' \in [Row -> Value] /\ db'[Consent] = "consumed" /\ \A r \in Row \ {Consent} : db'[r] = db[r]
  BY <1>1 DEF Inv, TypeOK, Value
<1>3. /\ \A k \in Generation : db'[Rt(k)] = db[Rt(k)]
      /\ \A k \in 1..MaxGeneration : db'[Tok(k)] = db[Tok(k)]
      /\ \A k \in 1..MaxCode : db'[Cex(k)] = db[Cex(k)]
      /\ db'[Code] = db[Code] /\ db'[Grant] = db[Grant]
  BY <1>2
<1>4. Kept
  BY <1>1, <1>3 DEF Kept
<1>5. World'
  BY <1>1, <1>3 DEF Inv, World, FamilyIsAChain
<1>6. CallInv(c)'
  <2>1. /\ pc'[c] = "answer" /\ OpOf[c] = "redeem" /\ path = "device" /\ arg[c] = 0
        /\ DOMAIN held[c] = {} /\ todo[c] = {}
    BY <1>1 DEF Inv, CallInv, Places, Statement, TypeOK
  <2>. QED
    BY <1>1, <1>2, <2>1 DEF CallInv, Places, Decides, Redeems, Spent, Rotates, Revokes, Inserts, Statement
<1>7. /\ arg[c] \in Nat /\ arg' = [arg EXCEPT ![c] = arg[c]]
      /\ held' \in [Call -> Lock] /\ DOMAIN held'[c] = {}
  BY <1>1, HeldType DEF Inv, TypeOK, CallInv, Places
<1>8. "answer" \in Point
  BY DEF Point
<1>9. /\ \A d \in Call \ {c} : held'[d] = held[d]
      /\ UNCHANGED <<path, todo, known, faults>>
  BY <1>1
<1>. QED
  BY ONLY Inv, c \in Call, <1>1, <1>2, <1>3, <1>4, <1>5, <1>6, <1>7, <1>8, <1>9, Publishes

LEMMA InsertCodeStep == ASSUME Inv, NEW c \in Call, InsertCode(c) PROVE Inv'
<1>. USE RowsDiffer, RowsKnown
<1>1. PICK i \in 1..MaxCode : /\ db[Cex(i)] = "none"
                              /\ db' = [r \in Row |-> IF r = Cex(i) THEN "open" ELSE Seen(c, r)]
                              /\ arg' = [arg EXCEPT ![c] = i]
  BY DEF InsertCode
<1>2. /\ pc[c] = "closing" /\ todo[c] = {} /\ Release(c) /\ pc' = [pc EXCEPT ![c] = "answer"]
      /\ UNCHANGED <<path, todo, outcome, known, faults>>
  BY DEF InsertCode, Goto
<1>3. /\ OpOf[c] = "decide" /\ path # "oauth" /\ outcome[c] # "ok"
      /\ \A r \in DOMAIN held[c] : r \in Cexes /\ held[c][r] = "closed"
  BY <1>2 DEF Inv, CallInv, Places, Decides
<1>4. /\ held' \in [Call -> Lock] /\ DOMAIN held'[c] = {} /\ \A d \in Call \ {c} : held'[d] = held[d]
  BY <1>2, HeldType, Releasing DEF Inv
<1>5. db' \in [Row -> Value]
  BY <1>1, HeldType, Locked DEF Inv, TypeOK, Seen, Value
<1>6. /\ \A k \in Generation : db'[Rt(k)] = db[Rt(k)]
      /\ \A k \in 1..MaxGeneration : db'[Tok(k)] = db[Tok(k)]
      /\ db'[Code] = db[Code] /\ db'[Grant] = db[Grant] /\ db'[Consent] = db[Consent]
  BY <1>1, <1>3 DEF Seen
<1>7. \A k \in 1..MaxCode : db[Cex(k)] = "closed" => db'[Cex(k)] = "closed"
  BY <1>1, <1>3 DEF Seen
<1>8. \A d \in Call \ {c}, k \in 1..MaxCode :
          Cex(k) \in DOMAIN held[d] /\ db[Cex(k)] = "open" => db'[Cex(k)] = "open"
  BY <1>1 DEF Seen, Inv, TypeOK
<1>9. Kept
  BY <1>6, <1>7 DEF Kept
<1>10. World'
  BY <1>2, <1>6 DEF Inv, World, FamilyIsAChain
<1>11. CallInv(c)'
  <2>1. pc'[c] = "answer" /\ arg'[c] = i
    BY <1>1, <1>2 DEF Inv, TypeOK
  <2>. QED
    BY <1>2, <1>3, <1>4, <2>1
    DEF CallInv, Places, Decides, Redeems, Rotates, Revokes, Inserts, Statement
<1>12. /\ i \in Nat /\ "answer" \in Point
       /\ outcome[c] \in {"none", "ok"} /\ outcome' = [outcome EXCEPT ![c] = outcome[c]]
  BY <1>2 DEF Inv, TypeOK, Point
<1>. QED
  BY ONLY Inv, c \in Call, <1>1, <1>2, <1>4, <1>5, <1>6, <1>8, <1>9, <1>10, <1>11, <1>12, Publishes

\* What a call that commits a success had locked, by what it does.
LEMMA AtCommit ==
    ASSUME Inv, NEW c \in Call, pc[c] = "commit"
    PROVE  /\ OpOf[c] \in {"redeem", "rotate", "revoke"} /\ outcome[c] # "ok" /\ todo[c] = {}
           /\ CallInv(c)
BY OpOfType, PathType DEF Op, Inv, TypeOK, CallInv, Places, Statement

LEMMA CommitSteps ==
    ASSUME Inv, NEW c \in Call, CommitSuccess(c), Kept, World', CallInv(c)',
           \A d \in Call \ {c} : Family \in DOMAIN held[d] =>
                  \A k \in Generation : db[Rt(k)] = "none" => db'[Rt(k)] = "none"
    PROVE  Inv'
<1>1. /\ Commit(c) /\ "answer" \in Point /\ pc' = [pc EXCEPT ![c] = "answer"]
      /\ "ok" \in {"none", "ok"} /\ outcome' = [outcome EXCEPT ![c] = "ok"]
      /\ UNCHANGED <<path, todo, arg, known, faults>>
  BY DEF CommitSuccess, Goto, Point
<1>. QED  BY <1>1, Commits

\* The rows after the commit of c.
LEMMA CommitFrame ==
    ASSUME Inv, NEW c \in Call, CommitSuccess(c)
    PROVE  /\ pc[c] = "commit" /\ pc'[c] = "answer" /\ outcome'[c] = "ok" /\ DOMAIN held'[c] = {}
           /\ UNCHANGED <<path, todo, arg, known, faults>>
           /\ \A r \in DOMAIN held[c] : r \in Row /\ db'[r] = held[c][r]
           /\ \A r \in Row \ DOMAIN held[c] : db'[r] = db[r]
<1>1. DOMAIN held'[c] = {}
  BY HeldType, Releasing DEF Inv, CommitSuccess, Commit
<1>2. /\ \A r \in DOMAIN held[c] : r \in Row /\ db'[r] = held[c][r]
      /\ \A r \in Row \ DOMAIN held[c] : db'[r] = db[r]
  BY HeldType, Committing DEF Inv, TypeOK, CommitSuccess
<1>. QED  BY <1>1, <1>2 DEF CommitSuccess, Goto, Inv, TypeOK

LEMMA RedeemCodeStep ==
    ASSUME Inv, NEW c \in Call, CommitSuccess(c), OpOf[c] = "redeem", path = "oauth"
    PROVE  Inv'
<1>. USE RowsDiffer, RowsKnown
<1>1. /\ pc[c] = "commit" /\ pc'[c] = "answer" /\ outcome'[c] = "ok" /\ DOMAIN held'[c] = {}
      /\ UNCHANGED <<path, todo, arg, known, faults>> /\ todo[c] = {}
  BY CommitFrame, AtCommit
<1>2. /\ {Code, Rt(0)} \subseteq DOMAIN held[c] /\ DOMAIN held[c] \subseteq {Code, Rt(0), Tok(0)}
      /\ held[c][Code] = "consumed" /\ held[c][Rt(0)] = "active" /\ db[Code] = "issued"
  BY <1>1, AtCommit DEF CallInv, Redeems
<1>3. /\ db'[Code] = "consumed" /\ db'[Rt(0)] = "active"
      /\ \A r \in Row \ {Code, Rt(0), Tok(0)} : db'[r] = db[r]
  BY <1>2, CommitFrame
<1>4. /\ \A k \in Generation \ {0} : db'[Rt(k)] = db[Rt(k)]
      /\ \A k \in 1..MaxGeneration : db'[Tok(k)] = db[Tok(k)]
      /\ \A k \in 1..MaxCode : db'[Cex(k)] = db[Cex(k)]
      /\ db'[Consent] = db[Consent]
  BY <1>3
<1>5. \A k \in Generation : db[Rt(k)] = "none"
  <2>1. db[Rt(0)] = "none"
    BY <1>2 DEF Inv, World
  <2>2. \A k \in Generation \ {0} : 0 < k
    BY DEF Generation
  <2>. QED  BY <2>1, <2>2 DEF Inv, World, FamilyIsAChain
<1>6. Kept
  BY <1>2, <1>4, <1>5 DEF Kept
<1>7. World'
  <2>1. FamilyIsAChain'
    BY <1>4, <1>5 DEF FamilyIsAChain, Generation
  <2>2. \A k \in Generation : db'[Rt(k)] \in {"none", "active", "superseded", "revoked"}
    BY <1>3, <1>4, <1>5
  <2>3. \A k \in 1..MaxGeneration : db'[Rt(k)] = "none" <=> db'[Tok(k)] = "none"
    <3>1. \A k \in 1..MaxGeneration : k \in Generation \ {0}
      BY DEF Generation
    <3>. QED  BY <1>4, <3>1 DEF Inv, World
  <2>4. \A k \in Generation : Rt(k) \in known => db'[Rt(k)] # "none"
    BY <1>3, <1>4 DEF Inv, World
  <2>. QED  BY <1>1, <1>3, <2>1, <2>2, <2>3, <2>4 DEF World, Inv
<1>8. CallInv(c)'
  BY <1>1, <1>3 DEF CallInv, Places, Decides, Redeems, Spent, Rotates, Revokes, Inserts, Statement
<1>9. \A d \in Call : Family \notin DOMAIN held[d]
  BY <1>5, FamilyHolder
<1>. QED
  BY <1>6, <1>7, <1>8, <1>9, CommitSteps

LEMMA RedeemExchangeStep ==
    ASSUME Inv, NEW c \in Call, CommitSuccess(c), OpOf[c] = "redeem", path # "oauth"
    PROVE  Inv'
<1>. USE RowsDiffer, RowsKnown
<1>1. /\ pc[c] = "commit" /\ pc'[c] = "answer" /\ outcome'[c] = "ok" /\ DOMAIN held'[c] = {}
      /\ UNCHANGED <<path, todo, arg, known, faults>> /\ todo[c] = {}
  BY CommitFrame, AtCommit
<1>. PICK i \in Nat : i = arg[c]
  BY DEF Inv, TypeOK
<1>2. /\ i \in 1..MaxCode
      /\ Cex(i) \in DOMAIN held[c] /\ DOMAIN held[c] \subseteq {Cex(i), Tok(0), Grant}
      /\ held[c][Cex(i)] = "closed"
  BY <1>1, AtCommit DEF CallInv, Redeems
<1>3. db'[Cex(i)] = "closed" /\ \A r \in Row \ {Cex(i), Tok(0), Grant} : db'[r] = db[r]
  BY <1>2, CommitFrame
<1>4. /\ \A k \in Generation : db'[Rt(k)] = db[Rt(k)]
      /\ \A k \in 1..MaxGeneration : db'[Tok(k)] = db[Tok(k)]
      /\ db'[Consent] = db[Consent] /\ db'[Code] = db[Code]
  BY <1>2, <1>3
<1>5. \A k \in 1..MaxCode : db[Cex(k)] = "closed" => db'[Cex(k)] = "closed"
  BY <1>3
<1>6. Kept
  BY <1>4, <1>5 DEF Kept
<1>7. World'
  BY <1>1, <1>4 DEF Inv, World, FamilyIsAChain
<1>8. CallInv(c)'
  BY <1>1, <1>2, <1>3 DEF CallInv, Places, Decides, Redeems, Spent, Rotates, Revokes, Inserts, Statement
<1>. QED
  BY <1>4, <1>6, <1>7, <1>8, CommitSteps

LEMMA RotationStep ==
    ASSUME Inv, NEW c \in Call, CommitSuccess(c), OpOf[c] = "rotate"
    PROVE  Inv'
<1>. USE RowsDiffer, RowsKnown
<1>1. /\ pc[c] = "commit" /\ pc'[c] = "answer" /\ outcome'[c] = "ok" /\ DOMAIN held'[c] = {}
      /\ UNCHANGED <<path, todo, arg, known, faults>> /\ todo[c] = {}
  BY CommitFrame, AtCommit
<1>. PICK k \in Nat : k = arg[c]
  BY DEF Inv, TypeOK
<1>2. /\ k \in 0..(MaxGeneration - 1) /\ db[Rt(k)] = "active"
      /\ DOMAIN held[c] = {Family, Grant, Rt(k), Rt(k + 1), Tok(k + 1)}
      /\ held[c][Rt(k)] = "superseded" /\ held[c][Rt(k + 1)] = "active"
      /\ held[c][Tok(k + 1)] = "linked"
  BY <1>1, AtCommit DEF CallInv, Rotates
<1>3. /\ k \in Generation /\ k + 1 \in Generation /\ k + 1 \in 1..MaxGeneration
      /\ db[Rt(k + 1)] = "none" /\ db[Tok(k + 1)] = "none"
  BY <1>2, NewRowsFree
<1>4. /\ db'[Rt(k)] = "superseded" /\ db'[Rt(k + 1)] = "active" /\ db'[Tok(k + 1)] = "linked"
      /\ \A r \in Row \ {Family, Grant, Rt(k), Rt(k + 1), Tok(k + 1)} : db'[r] = db[r]
  BY <1>2, CommitFrame
<1>5. /\ \A j \in Generation \ {k, k + 1} : db'[Rt(j)] = db[Rt(j)]
      /\ \A j \in 1..MaxGeneration \ {k + 1} : db'[Tok(j)] = db[Tok(j)]
      /\ \A j \in 1..MaxCode : db'[Cex(j)] = db[Cex(j)]
      /\ db'[Code] = db[Code] /\ db'[Consent] = db[Consent]
  BY <1>4
<1>6. /\ \A j \in Generation : j < k => db[Rt(j)] = "superseded"
      /\ \A j \in Generation : j > k => db[Rt(j)] = "none"
  BY <1>2, <1>3 DEF Inv, World, FamilyIsAChain
<1>7. Kept
  BY <1>2, <1>3, <1>4, <1>5 DEF Kept
<1>8. World'
  <2>1. \A j \in Generation : \/ j < k /\ db'[Rt(j)] = "superseded"
                              \/ j = k /\ db'[Rt(j)] = "superseded"
                              \/ j = k + 1 /\ db'[Rt(j)] = "active"
                              \/ j > k + 1 /\ db'[Rt(j)] = "none"
    <3>. TAKE j \in Generation
    <3>1. j \in Nat
      BY DEF Generation
    <3>. QED  BY <1>4, <1>5, <1>6, <3>1
  <2>2. FamilyIsAChain'
    BY <2>1 DEF FamilyIsAChain, Generation
  <2>3. \A j \in 1..MaxGeneration : db'[Rt(j)] = "none" <=> db'[Tok(j)] = "none"
    <3>1. ASSUME NEW j \in 1..MaxGeneration, j # k, j # k + 1
          PROVE  db'[Rt(j)] = "none" <=> db'[Tok(j)] = "none"
      BY <1>5, <3>1 DEF Inv, World
    <3>2. k \in 1..MaxGeneration => db'[Tok(k)] # "none"
      BY <1>2, <1>5 DEF Inv, World
    <3>. QED  BY <1>4, <3>1, <3>2
  <2>4. \A j \in Generation : Rt(j) \in known => db'[Rt(j)] # "none"
    BY <1>7 DEF Inv, World, Kept
  <2>5. db[Code] = "consumed"
    <3>1. db[Rt(0)] # "none"
      BY <1>2, <1>3, <1>6 DEF Generation
    <3>. QED  BY <3>1 DEF Inv, World
  <2>. QED  BY <1>1, <1>5, <2>1, <2>2, <2>3, <2>4, <2>5 DEF World, Inv
<1>9. CallInv(c)'
  BY <1>1, <1>2, <1>3, <1>4 DEF CallInv, Places, Decides, Redeems, Rotates, Revokes, Inserts, Statement
<1>10. \A d \in Call \ {c} : Family \notin DOMAIN held[d]
  BY <1>2 DEF Inv, TypeOK
<1>. QED
  BY <1>7, <1>8, <1>9, <1>10, CommitSteps

LEMMA RevocationStep ==
    ASSUME Inv, NEW c \in Call, CommitSuccess(c), OpOf[c] = "revoke"
    PROVE  Inv'
<1>. USE RowsDiffer, RowsKnown
<1>1. /\ pc[c] = "commit" /\ pc'[c] = "answer" /\ outcome'[c] = "ok" /\ DOMAIN held'[c] = {}
      /\ UNCHANGED <<path, todo, arg, known, faults>> /\ todo[c] = {}
  BY CommitFrame, AtCommit
<1>2. Revokes(c) /\ Inserts(c)
  BY <1>1, AtCommit DEF CallInv
<1>3. \A j \in Generation : \/ db'[Rt(j)] = db[Rt(j)]
                            \/ db[Rt(j)] = "active" /\ db'[Rt(j)] = "revoked"
  BY <1>2, CommitFrame DEF Revokes
<1>4. \A j \in 1..MaxGeneration : \/ db'[Tok(j)] = db[Tok(j)]
                                  \/ db[Tok(j)] # "none" /\ db'[Tok(j)] = "revoked"
  <2>. TAKE j \in 1..MaxGeneration
  <2>1. CASE Tok(j) \in DOMAIN held[c]
    <3>1. db[Tok(j)] # "none"
      BY <1>2, <2>1 DEF Inserts, InsertsTok
    <3>2. held[c][Tok(j)] = "revoked"
      BY <1>2, <2>1 DEF Revokes
    <3>. QED  BY <2>1, <3>1, <3>2, CommitFrame
  <2>2. CASE Tok(j) \notin DOMAIN held[c]
    BY <2>2, CommitFrame
  <2>. QED  BY <2>1, <2>2
<1>5. /\ \A j \in 1..MaxCode : db'[Cex(j)] = db[Cex(j)]
      /\ db'[Code] = db[Code] /\ db'[Consent] = db[Consent]
  <2>1. \A r \in {Code, Consent} \cup Cexes : r \in Row /\ r \notin DOMAIN held[c]
    BY <1>2 DEF Revokes
  <2>. QED  BY <2>1, CommitFrame
<1>6. Kept
  BY <1>3, <1>4, <1>5 DEF Kept
<1>7. World'
  <2>1. FamilyIsAChain'
    BY <1>3 DEF FamilyIsAChain, Inv, World
  <2>2. \A j \in 1..MaxGeneration : db'[Rt(j)] = "none" <=> db'[Tok(j)] = "none"
    BY <1>3, <1>4 DEF Inv, World
  <2>. QED  BY <1>1, <1>3, <1>5, <2>1, <2>2 DEF World, Inv
<1>8. CallInv(c)'
  BY <1>1 DEF CallInv, Places, Decides, Redeems, Rotates, Revokes, Inserts, Statement
<1>9. \A j \in Generation : db[Rt(j)] = "none" => db'[Rt(j)] = "none"
  BY <1>3
<1>. QED
  BY <1>6, <1>7, <1>8, <1>9, CommitSteps

LEMMA FamilyRevokedStep ==
    ASSUME Inv, NEW c \in Call, FamilyRevoked(c)
    PROVE  Inv'
<1>. USE RowsDiffer, RowsKnown
<1>1. /\ pc[c] = "familyTokens" /\ todo[c] = {} /\ Commit(c) /\ pc' = [pc EXCEPT ![c] = "done"]
      /\ pc'[c] = "done" /\ UNCHANGED <<path, todo, arg, outcome, known, faults>>
  BY DEF FamilyRevoked, Goto, Inv, TypeOK
<1>2. OpOf[c] = "rotate" /\ outcome[c] # "ok" /\ Inserts(c)
  BY <1>1 DEF Inv, CallInv, Places
<1>3. /\ Covers(c) /\ DOMAIN held[c] \subseteq {Family, Grant} \cup Rts \cup Toks
      /\ \A j \in Generation : Rt(j) \in DOMAIN held[c] => held[c][Rt(j)] \in {"revoked", db[Rt(j)]}
      /\ \A j \in Generation : Tok(j) \in DOMAIN held[c] => held[c][Tok(j)] = "revoked"
  BY <1>1, <1>2 DEF Inv, CallInv, Rotates
<1>4. /\ DOMAIN held'[c] = {}
      /\ \A r \in DOMAIN held[c] : r \in Row /\ db'[r] = held[c][r]
      /\ \A r \in Row \ DOMAIN held[c] : db'[r] = db[r]
  BY <1>1, HeldType, Releasing, Committing DEF Inv, TypeOK, Commit
<1>5. \A j \in Generation : \/ db[Rt(j)] = "none" /\ db'[Rt(j)] = "none"
                            \/ db[Rt(j)] # "none" /\ db'[Rt(j)] = "revoked"
  <2>. TAKE j \in Generation
  <2>1. CASE Rt(j) \in DOMAIN held[c]
    <3>1. db[Rt(j)] # "none"
      BY <1>1, <1>2, <2>1 DEF Inserts, InsertsRt
    <3>. QED  BY <1>1, <1>3, <1>4, <2>1, <3>1 DEF Covers
  <2>2. CASE Rt(j) \notin DOMAIN held[c]
    BY <1>1, <1>3, <1>4, <2>2 DEF Covers
  <2>. QED  BY <2>1, <2>2
<1>6. \A j \in 1..MaxGeneration : \/ db'[Tok(j)] = db[Tok(j)]
                                  \/ db[Tok(j)] # "none" /\ db'[Tok(j)] = "revoked"
  <2>. TAKE j \in 1..MaxGeneration
  <2>1. CASE Tok(j) \in DOMAIN held[c]
    <3>1. db[Tok(j)] # "none"
      BY <1>1, <1>2, <2>1 DEF Inserts, InsertsTok
    <3>. QED  BY <1>3, <1>4, <2>1, <3>1
  <2>2. CASE Tok(j) \notin DOMAIN held[c]
    BY <1>4, <2>2
  <2>. QED  BY <2>1, <2>2
<1>7. /\ \A j \in 1..MaxCode : db'[Cex(j)] = db[Cex(j)]
      /\ db'[Code] = db[Code] /\ db'[Consent] = db[Consent]
  <2>1. \A r \in {Code, Consent} \cup Cexes : r \in Row /\ r \notin DOMAIN held[c]
    BY <1>3
  <2>. QED  BY <2>1, <1>4
<1>8. Kept
  BY <1>5, <1>6, <1>7 DEF Kept
<1>9. World'
  <2>1. FamilyIsAChain'
    BY <1>5 DEF FamilyIsAChain, Inv, World
  <2>2. \A j \in 1..MaxGeneration : db'[Rt(j)] = "none" <=> db'[Tok(j)] = "none"
    BY <1>5, <1>6 DEF Inv, World
  <2>. QED  BY <1>1, <1>5, <1>7, <2>1, <2>2 DEF World, Inv
<1>10. CallInv(c)'
  BY <1>1, <1>2, <1>4 DEF CallInv, Places, Decides, Redeems, Rotates, Revokes, Inserts, Statement
<1>11. "done" \in Point /\ outcome[c] \in {"none", "ok"} /\ outcome' = [outcome EXCEPT ![c] = outcome[c]]
  BY <1>1 DEF Point, Inv, TypeOK
<1>12. \A j \in Generation : db[Rt(j)] = "none" => db'[Rt(j)] = "none"
  BY <1>5
<1>. QED
  BY <1>1, <1>8, <1>9, <1>10, <1>11, <1>12, Commits

\* What an answer teaches the client is there.
LEMMA AnswerStep == ASSUME Inv, NEW c \in Call, Answer(c) PROVE Inv'
<1>. USE RowsDiffer, RowsKnown
<1>1. /\ pc[c] = "answer" /\ known' = known \cup Learned(c)
      /\ pc' = [pc EXCEPT ![c] = "done"] /\ pc'[c] = "done"
      /\ UNCHANGED <<path, db, held, todo, arg, outcome, faults>>
  BY DEF Answer, Goto, Inv, TypeOK
<1>2. CallInv(c)
  BY DEF Inv
<1>3. /\ Learned(c) \subseteq Row
      /\ \A k \in Generation : Rt(k) \in Learned(c) => db[Rt(k)] # "none"
      /\ Code \in Learned(c) => path = "oauth"
      /\ \A r \in Cexes : r \in Learned(c) => path # "oauth"
  <2>1. CASE OpOf[c] = "decide"
    <3>1. path = "oauth" \/ (path # "oauth" /\ arg[c] \in 1..MaxCode)
      BY <1>1, <1>2, <2>1 DEF CallInv, Places
    <3>2. Learned(c) = {IF path = "oauth" THEN Code ELSE Cex(arg[c])}
      BY <2>1 DEF Learned
    <3>. QED  BY <3>1, <3>2
  <2>2. CASE OpOf[c] = "redeem" /\ path = "oauth"
    <3>1. db[Rt(0)] # "none"
      BY <1>1, <1>2, <2>2 DEF CallInv, Redeems
    <3>. QED  BY <2>2, <3>1 DEF Learned
  <2>3. CASE OpOf[c] = "rotate"
    <3>1. arg[c] \in 0..(MaxGeneration - 1) /\ db[Rt(arg[c] + 1)] # "none"
      BY <1>1, <1>2, <2>3 DEF CallInv, Rotates
    <3>2. Learned(c) = {Rt(arg[c] + 1)}
      BY <2>3 DEF Learned
    <3>. QED  BY <3>1, <3>2
  <2>4. CASE OpOf[c] \notin {"decide", "rotate"} /\ ~(OpOf[c] = "redeem" /\ path = "oauth")
    BY <2>4 DEF Learned
  <2>. QED  BY <2>1, <2>2, <2>3, <2>4
<1>4. TypeOK'
  BY <1>1, <1>3 DEF Inv, TypeOK, Point
<1>5. World'
  BY <1>1, <1>3 DEF Inv, World, FamilyIsAChain
<1>6. CallInv(c)'
  BY <1>1, <1>2 DEF CallInv, Places, Decides, Redeems, Spent, Rotates, Covers, Revokes, Inserts,
                    InsertsRt, InsertsTok, Statement
<1>7. ASSUME NEW d \in Call \ {c} PROVE CallInv(d)'
  BY <1>1, Bystander DEF Inv, TypeOK
<1>. QED  BY <1>4, <1>5, <1>6, <1>7 DEF Inv
-----------------------------------------------------------------------------
LEMMA Stutters == Inv /\ UNCHANGED vars => Inv'
<1>. SUFFICES ASSUME Inv, UNCHANGED vars PROVE Inv'
  OBVIOUS
<1>1. TypeOK' /\ World'
  BY DEF Inv, TypeOK, World, FamilyIsAChain, vars
<1>2. ASSUME NEW d \in Call PROVE CallInv(d)'
  BY Bystander DEF Inv, vars
<1>. QED  BY <1>1, <1>2 DEF Inv

LEMMA Inductive == Inv /\ [Next]_vars => Inv'
<1>. SUFFICES ASSUME Inv, Next PROVE Inv'
  BY Stutters
<1>. PICK c \in Call : Step(c) \/ Lost(c)
  BY DEF Next
<1>1. CASE ApproveStep(c)
  BY <1>1, RefusedSteps, ReadingSteps, SelectingSteps, ApprovalStep, DenyStep, DeliverCodeStep,
     InsertCodeStep DEF ApproveStep
<1>2. CASE RedeemStep(c)
  BY <1>2, RefusedSteps, ReadingSteps, ConsumeStep, LinkStep, LockCexStep, LockTokenStep,
     ShareGrantStep, SwapStep DEF RedeemStep
<1>3. CASE RotateStep(c)
  BY <1>3, RefusedSteps, SelectingSteps, LockFamilyStep, LockGenerationStep, IssueStep, ParentGoneStep,
     FamilyRevokedStep DEF RotateStep
<1>4. CASE RevokeStep(c)
  BY <1>4, SelectingSteps, RevokeParentStep DEF RevokeStep
<1>5. CASE UpdateRow(c) \/ Answer(c)
  BY <1>5, UpdateRowStep, AnswerStep
<1>6. CASE CommitSuccess(c)
  <2>1. pc[c] = "commit"
    BY <1>6 DEF CommitSuccess
  <2>. QED
    BY <1>6, <2>1, AtCommit, RedeemCodeStep, RedeemExchangeStep, RotationStep, RevocationStep
<1>7. CASE Lost(c)
  BY <1>7, RefusedSteps
<1>. QED
  BY <1>1, <1>2, <1>3, <1>4, <1>5, <1>6, <1>7 DEF Step

LEMMA Invariant == Spec => []Inv
<1>1. Init => Inv
  BY Initially
<1>2. Inv /\ [Next]_vars => Inv'
  BY Inductive
<1>. QED  BY <1>1, <1>2, PTL DEF Spec

\* Every variable keeps its type, and no row is locked by two calls at a time.
THEOREM GrantTypeCorrect == Spec => []TypeOK
<1>1. Inv => TypeOK
  BY DEF Inv
<1>. QED  BY <1>1, Invariant, PTL

\* The generations of a refresh token are a chain whose spent ones are behind
\* the newest, and a revoked family has none that is active, for any number of
\* rotations, reuses and revocations (rotatePostgresOAuthRefreshToken,
\* revokeGrantStorage).
THEOREM FamilyStaysAChain == Spec => []FamilyIsAChain
<1>1. Inv => FamilyIsAChain
  BY DEF Inv, World
<1>. QED  BY <1>1, Invariant, PTL

\* Only a call that is about to succeed changes its outcome; the others keep
\* what they have presented.
LEMMA Succeeding ==
    ASSUME Inv, [Next]_vars, NEW d \in Call
    PROVE  \/ outcome'[d] = outcome[d]
           \/ Swap(d) \/ CommitSuccess(d)
<1>1. CASE UNCHANGED vars
  BY <1>1 DEF vars
<1>2. CASE Next
  <2>. PICK c \in Call : Step(c) \/ Lost(c)
    BY <1>2 DEF Next
  <2>1. CASE ApproveStep(c)
    BY <2>1 DEF ApproveStep, ReadConsent, Approve, ApproveRefused, DeliverCode, DeliverToken,
                DeliverRefused, Mint, InsertCode, Deny, DenyRefused, Refuse
  <2>2. CASE RedeemStep(c)
    BY <2>2 DEF RedeemStep, CheckCode, Consume, Link, CodeRefused, LockCex, LockToken, ShareGrant,
                CexRefused, Poll, Swap, DeviceRefused, Refuse, Inv, TypeOK
  <2>3. CASE RotateStep(c)
    BY <2>3 DEF RotateStep, LockFamily, LockGeneration, RotationRefused, Issue, ParentGone, RevokeFamily,
                RevokeFamilyTokens, FamilyRevoked, Refuse
  <2>4. CASE RevokeStep(c)
    BY <2>4 DEF RevokeStep, RevokeGenerations, RevokeTokens, RevokeParent
  <2>5. CASE UpdateRow(c) \/ Answer(c) \/ Lost(c)
    BY <2>5 DEF UpdateRow, Answer, Lost
  <2>6. CASE CommitSuccess(c)
    BY <2>6 DEF CommitSuccess, Inv, TypeOK
  <2>. QED  BY <2>1, <2>2, <2>3, <2>4, <2>5, <2>6 DEF Step
<1>. QED  BY <1>1, <1>2

LEMMA Presented ==
    ASSUME Inv, [Next]_vars, NEW d \in Call, outcome[d] = "ok" \/ outcome'[d] # outcome[d]
    PROVE  arg'[d] = arg[d]
<1>. USE DEF Inv, CallInv, Places
<1>1. CASE UNCHANGED vars
  BY <1>1 DEF vars
<1>2. CASE Next
  <2>1. pc[d] \in {"answer", "done", "swap", "commit"}
    BY Succeeding DEF Swap, CommitSuccess
  <2>. PICK c \in Call : Step(c) \/ Lost(c)
    BY <1>2 DEF Next
  <2>2. CASE InsertCode(c)
    BY <2>1, <2>2 DEF InsertCode, TypeOK
  <2>3. CASE LockCex(c)
    BY <2>1, <2>3 DEF LockCex, Idle, TypeOK
  <2>4. CASE LockFamily(c)
    BY <2>1, <2>4 DEF LockFamily, Idle, TypeOK
  <2>5. CASE ~(InsertCode(c) \/ LockCex(c) \/ LockFamily(c))
    <3>1. arg' = arg
      BY <2>5 DEF Step, Lost, ApproveStep, ReadConsent, Approve, ApproveRefused, DeliverCode,
          DeliverToken, DeliverRefused, Mint, Deny, DenyRefused, Refuse, RedeemStep, CheckCode,
          Consume, Link, CodeRefused, LockToken, ShareGrant, CexRefused, Poll, Swap, DeviceRefused,
          RotateStep, LockGeneration, RotationRefused, Issue, ParentGone, RevokeFamily,
          RevokeFamilyTokens, FamilyRevoked, RevokeStep, RevokeGenerations, RevokeTokens, RevokeParent,
          UpdateRow, Answer, CommitSuccess
    <3>. QED  BY <3>1
  <2>. QED  BY <2>2, <2>3, <2>4, <2>5
<1>. QED  BY <1>1, <1>2

\* A call that succeeds finds what it presents unspent.
LEMMA Unspent ==
    ASSUME Inv, NEW c \in Call, Swap(c) \/ CommitSuccess(c), NEW d \in Call,
           OpOf[c] = OpOf[d], OpOf[c] \in {"redeem", "rotate"}, arg[c] = arg[d], outcome[d] = "ok"
    PROVE  FALSE
<1>1. CallInv(c) /\ CallInv(d) /\ path \in {"oauth", "exchange", "device"}
  BY PathType DEF Inv, TypeOK
<1>2. CASE Swap(c)
  BY <1>1, <1>2 DEF Swap, CallInv, Places, Redeems, Spent
<1>3. CASE CommitSuccess(c)
  <2>1. pc[c] = "commit"
    BY <1>3 DEF CommitSuccess
  <2>2. CASE OpOf[c] = "redeem"
    BY <1>1, <2>1, <2>2, AtCommit DEF CallInv, Redeems, Spent
  <2>3. CASE OpOf[c] = "rotate"
    BY <1>1, <2>1, <2>3 DEF CallInv, Rotates
  <2>. QED  BY <2>2, <2>3
<1>. QED  BY <1>2, <1>3

\* Of all the calls that present one code or one generation, at most one commits
\* a success, whatever the number of calls and however they interleave
\* (consumeOAuthAuthorizationCodeAtomically, consumeConsentExchangeCode,
\* exchangeGrantScopedDeviceCode, rotatePostgresOAuthRefreshToken).
THEOREM CodesAreRedeemedOnce == Spec => []RedeemedOnce
<1>1. Init => RedeemedOnce
  BY DEF Init, RedeemedOnce
<1>2. Inv /\ RedeemedOnce /\ [Next]_vars => RedeemedOnce'
  <2>. SUFFICES ASSUME Inv, RedeemedOnce, [Next]_vars, NEW c \in Call, NEW d \in Call,
                       OpOf[c] = OpOf[d], OpOf[c] \in {"redeem", "rotate"},
                       outcome'[c] = "ok", outcome'[d] = "ok", arg'[c] = arg'[d], c # d
               PROVE  FALSE
    BY DEF RedeemedOnce
  <2>1. arg[c] = arg'[c] /\ arg[d] = arg'[d]
    BY Presented
  <2>2. CASE outcome[c] = "ok" /\ outcome[d] = "ok"
    BY <2>1, <2>2 DEF RedeemedOnce
  <2>3. CASE outcome[c] # "ok" /\ outcome[d] = "ok"
    BY <2>1, <2>3, Succeeding, Unspent
  <2>4. CASE outcome[c] = "ok" /\ outcome[d] # "ok"
    BY <2>1, <2>4, Succeeding, Unspent
  <2>5. CASE outcome[c] # "ok" /\ outcome[d] # "ok"
    <3>1. (Swap(c) \/ CommitSuccess(c)) /\ (Swap(d) \/ CommitSuccess(d))
      BY <2>5, Succeeding
    <3>2. pc' = [pc EXCEPT ![c] = "answer"] /\ pc' = [pc EXCEPT ![d] = "answer"]
      BY <3>1 DEF Swap, CommitSuccess, Goto
    <3>3. pc[c] # "answer" /\ pc'[c] = "answer" /\ pc'[c] = pc[c]
      BY <3>1, <3>2 DEF Swap, CommitSuccess, Inv, TypeOK
    <3>. QED  BY <3>3
  <2>. QED  BY <2>2, <2>3, <2>4, <2>5
<1>. QED  BY <1>1, <1>2, Invariant, PTL DEF Spec

\* A rotation, and the redemption of a consent exchange code, commit only while
\* the grant is active before and after: the lock that they hold on its row
\* keeps a revocation from committing in between
\* (issuePostgresRefreshGrantAccessToken, loadPostgresConsentExchangeGrant).
THEOREM HandedOutUnderTheLock == Spec => HandedOutWhileActive
<1>. DEFINE P == \A c \in Call :
                    /\ outcome[c] = "none" /\ outcome'[c] = "ok"
                    /\ OpOf[c] = "rotate" \/ PresentsCex(c)
                    => db[Grant] = "active" /\ db'[Grant] = "active"
<1>1. Inv /\ [Next]_vars => P
  <2>. SUFFICES ASSUME Inv, [Next]_vars, NEW c \in Call, outcome[c] = "none", outcome'[c] = "ok",
                       OpOf[c] = "rotate" \/ PresentsCex(c)
               PROVE  db[Grant] = "active" /\ db'[Grant] = "active"
    OBVIOUS
  <2>1. CallInv(c)
    BY DEF Inv
  <2>2. CommitSuccess(c)
    BY <2>1, Succeeding DEF Swap, CallInv, Places, PresentsCex
  <2>3. pc[c] = "commit"
    BY <2>2 DEF CommitSuccess
  <2>4. Grant \in DOMAIN held[c] /\ held[c][Grant] = "active" /\ db[Grant] = "active"
    BY <2>1, <2>3 DEF CallInv, Redeems, Rotates, PresentsCex
  <2>. QED  BY <2>2, <2>4, CommitFrame
<1>2. Spec => [][P]_vars
  BY <1>1, Invariant, PTL DEF Spec
<1>. QED  BY <1>2 DEF HandedOutWhileActive
-----------------------------------------------------------------------------
\* Who waits for whom. A call that has begun waits for the rows that its next
\* statement locks; an UPDATE of many rows takes them in the order of its
\* selection.
Foremost(S) == {r \in S : \A q \in S : r[2] <= q[2]}

Needs(c) ==
    CASE pc[c] = "consume" -> {Code}
      [] pc[c] \in {"link", "token"} -> {Tok(0)}
      [] pc[c] \in {"share", "parent"} -> {Grant}
      [] pc[c] = "row" -> {Rt(arg[c])}
      [] pc[c] \in Statement /\ todo[c] # {} -> Foremost(todo[c])
      [] pc[c] = "closing" /\ todo[c] = {} -> {Tok(0)}
      [] pc[c] = "tokens" /\ todo[c] = {} -> {Grant}
      [] OTHER -> {}

WaitsFor(c, d) == c # d /\ Needs(c) \cap DOMAIN held[d] # {}

\* Of any calls, one waits for none of the others.
NoCircle == \A S \in SUBSET Call : S # {} => \E c \in S : \A d \in S : ~WaitsFor(c, d)

OneRevocation == \A c, d \in Call : OpOf[c] = "revoke" /\ OpOf[d] = "revoke" => c = d

\* A statement goes through its rows in order: what it has is behind what it
\* is still going to lock.
Behind(S, T) == \A r \in S, q \in T : r[2] < q[2]

Ordered(c) ==
    LET H == DOMAIN held[c]
    IN  /\ pc[c] = "closing" => Behind(H, todo[c])
        /\ pc[c] = "generations" => /\ H \subseteq Rts
                                    /\ todo[c] # {} => H = {}
                                    /\ \A q, r \in todo[c] : q = r
        /\ pc[c] \in {"tokens", "familyTokens"} => Behind(H \cap Toks, todo[c])
        /\ pc[c] = "tokens" => Grant \notin H
        /\ pc[c] \in {"burn", "family"} => H \cap Toks = {}
        /\ pc[c] \in {"link", "token"} => Tok(0) \notin H
        /\ pc[c] \in {"token", "share"} => Grant \notin H

\* What a call knows of the grant. A rotation that has locked a grant which is
\* not active leaves no revocation under way, for that one would have to be
\* another one.
Parent(c) ==
    /\ OpOf[c] = "redeem" /\ path = "oauth" /\ pc[c] \in {"consume", "link", "commit"} =>
           db[Grant] # "none"
    /\ OpOf[c] = "revoke" /\ pc[c] = "idle" => db[Grant] \in {"none", "active"}
    /\ OpOf[c] = "revoke" /\ pc[c] \in {"generations", "tokens", "commit"} => db[Grant] = "active"
    /\ OpOf[c] = "revoke" /\ pc[c] = "commit" /\ Grant \in DOMAIN held[c] =>
           held[c][Grant] = "revoked"
    /\ pc[c] \in {"burn", "family", "familyTokens"} /\ Grant \in DOMAIN held[c] =>
           held[c][Grant] = db[Grant] /\ db[Grant] # "active"

\* A request that is pending has no grant; there are generations only of a
\* grant that was given by an authorization code.
Beginnings ==
    /\ db[Consent] = "pending" => db[Grant] = "none"
    /\ db[Code] = "consumed" => path = "oauth"
    /\ db[Rt(0)] # "none" => db[Grant] # "none"

LockInv == Beginnings /\ \A c \in Call : Ordered(c) /\ Parent(c)

\* A call moves by itself.
LEMMA MovesAlone ==
    ASSUME Inv, NEW c \in Call, Step(c) \/ Lost(c)
    PROVE  /\ path' = path
           /\ \A d \in Call \ {c} : pc'[d] = pc[d] /\ todo'[d] = todo[d] /\ held'[d] = held[d]
<1>. USE HeldType DEF Inv, TypeOK
<1>1. \A f : Hold(c, f) => \A d \in Call \ {c} : held'[d] = held[d]
  BY DEF Hold
<1>2. Release(c) => \A d \in Call \ {c} : held'[d] = held[d]
  BY DEF Release
<1>3. CASE ApproveStep(c)
  BY <1>2, <1>3 DEF ApproveStep, ReadConsent, Approve, ApproveRefused, DeliverCode, DeliverToken,
      DeliverRefused, Mint, InsertCode, Deny, DenyRefused, Refuse, Goto
<1>4. CASE RedeemStep(c)
  BY <1>1, <1>2, <1>4 DEF RedeemStep, CheckCode, Consume, Link, CodeRefused, LockCex, LockToken,
      ShareGrant, CexRefused, Poll, Swap, DeviceRefused, Refuse, Goto
<1>5. CASE RotateStep(c)
  BY <1>1, <1>2, <1>5 DEF RotateStep, LockFamily, LockGeneration, RotationRefused, Issue, ParentGone,
      RevokeFamily, RevokeFamilyTokens, FamilyRevoked, Refuse, Goto, Commit, Select
<1>6. CASE RevokeStep(c)
  BY <1>1, <1>6 DEF RevokeStep, RevokeGenerations, RevokeTokens, RevokeParent, Goto, Select
<1>7. CASE UpdateRow(c) \/ CommitSuccess(c) \/ Answer(c) \/ Lost(c)
  BY <1>1, <1>2, <1>7 DEF UpdateRow, CommitSuccess, Answer, Lost, Goto, Commit
<1>. QED  BY <1>3, <1>4, <1>5, <1>6, <1>7 DEF Step

\* The steps after which a call has nothing left to lock.
LEMMA NothingToLock ==
    ASSUME NEW c \in Call, pc'[c] \in {"claim", "deliver", "swap", "answer", "done"}
    PROVE  Ordered(c)' /\ Parent(c)'
BY DEF Ordered, Parent

\* What a step may do to the request, the code and the first generation.
LEMMA FirstRows ==
    ASSUME Inv, NEW c \in Call, Step(c) \/ Lost(c)
    PROVE  /\ db'[Consent] = "pending" => db[Consent] = "pending" /\ ~Approve(c)
           /\ db'[Code] = "consumed" => db[Code] = "consumed" \/ path = "oauth"
           /\ db'[Rt(0)] # "none" => \/ db[Rt(0)] # "none"
                                     \/ OpOf[c] = "redeem" /\ path = "oauth" /\ pc[c] = "commit"
<1>. USE RowsDiffer, RowsKnown
<1>0. Inv /\ CallInv(c) /\ db \in [Row -> Value] /\ held \in [Call -> Lock]
  BY HeldType DEF Inv, TypeOK
<1>1. CASE UNCHANGED db
  BY <1>0, <1>1 DEF Approve
<1>2. CASE Approve(c) \/ Deny(c) \/ DeliverCode(c) \/ Swap(c)
  BY <1>0, <1>2 DEF Approve, Deny, DeliverCode, Swap
<1>3. CASE InsertCode(c)
  <2>1. OpOf[c] = "decide" /\ \A r \in DOMAIN held[c] : r \in Cexes
    BY <1>0, <1>3 DEF InsertCode, CallInv, Places, Decides
  <2>2. \A r \in {Consent, Code, Rt(0)} : db'[r] = db[r]
    BY <1>3, <2>1 DEF InsertCode, Seen
  <2>3. ~Approve(c)
    BY <1>3 DEF InsertCode, Approve
  <2>. QED  BY <2>2, <2>3
<1>4. CASE FamilyRevoked(c) \/ CommitSuccess(c)
  <2>1. /\ \A r \in DOMAIN held[c] : r \in Row /\ db'[r] = held[c][r]
        /\ \A r \in Row \ DOMAIN held[c] : db'[r] = db[r]
    BY <1>0, <1>4, Committing DEF FamilyRevoked, CommitSuccess
  <2>2. pc[c] \in {"familyTokens", "commit"}
    BY <1>4 DEF FamilyRevoked, CommitSuccess
  <2>3. ~Approve(c)
    BY <2>2 DEF Approve
  <2>4. CASE OpOf[c] = "redeem"
    BY <1>0, <2>1, <2>2, <2>3, <2>4, PathType DEF Inv, TypeOK, CallInv, Places, Redeems
  <2>5. CASE OpOf[c] = "rotate"
    <3>1. Consent \notin DOMAIN held[c] /\ Code \notin DOMAIN held[c]
      BY <1>0, <2>2, <2>5 DEF CallInv, Rotates
    <3>2. Rt(0) \in DOMAIN held[c] /\ db[Rt(0)] = "none" => FALSE
      BY <1>0, <2>5 DEF Inv, TypeOK, CallInv, Inserts, InsertsRt
    <3>. QED  BY <2>1, <2>3, <3>1, <3>2
  <2>6. CASE OpOf[c] = "revoke"
    <3>1. Consent \notin DOMAIN held[c] /\ Code \notin DOMAIN held[c]
      BY <1>0, <2>6 DEF CallInv, Revokes
    <3>2. Rt(0) \in DOMAIN held[c] /\ db[Rt(0)] = "none" => FALSE
      BY <1>0, <2>6 DEF CallInv, Revokes
    <3>. QED  BY <2>1, <2>3, <3>1, <3>2
  <2>7. OpOf[c] # "decide"
    BY <1>0, <2>2 DEF CallInv, Places
  <2>. QED  BY <2>4, <2>5, <2>6, <2>7, OpOfType DEF Op
<1>5. \/ UNCHANGED db
      \/ Approve(c) \/ Deny(c) \/ DeliverCode(c) \/ Swap(c) \/ InsertCode(c)
      \/ FamilyRevoked(c) \/ CommitSuccess(c)
  BY DEF Step, Lost, ApproveStep, ReadConsent, ApproveRefused, DeliverToken, DeliverRefused, Mint,
      DenyRefused, Refuse, RedeemStep, CheckCode, Consume, Link, CodeRefused, LockCex, LockToken,
      ShareGrant, CexRefused, Poll, DeviceRefused, RotateStep, LockFamily, LockGeneration,
      RotationRefused, Issue, ParentGone, RevokeFamily, RevokeFamilyTokens, RevokeStep,
      RevokeGenerations, RevokeTokens, RevokeParent, UpdateRow, Answer
<1>. QED  BY <1>1, <1>2, <1>3, <1>4, <1>5

\* What a step may do to the grant: it is given once, and revoked by the one
\* revocation there is.
LEMMA GrantMoves ==
    ASSUME Inv, LockInv, NEW c \in Call, Step(c) \/ Lost(c)
    PROVE  \/ db'[Grant] = db[Grant]
           \/ db[Grant] = "none" /\ db'[Grant] = "active" /\ Approve(c)
           \/ /\ db[Grant] = "active" /\ db'[Grant] = "revoked"
              /\ OpOf[c] = "revoke" /\ pc[c] = "commit" /\ pc'[c] = "answer"
              /\ Grant \in DOMAIN held[c]
<1>. USE RowsDiffer, RowsKnown
<1>0. /\ Inv /\ CallInv(c) /\ db \in [Row -> Value] /\ held \in [Call -> Lock]
      /\ Parent(c) /\ Beginnings
  BY HeldType DEF Inv, TypeOK, LockInv
<1>1. CASE Approve(c)
  BY <1>0, <1>1 DEF Approve, Beginnings
<1>2. CASE Deny(c) \/ DeliverCode(c) \/ Swap(c)
  BY <1>0, <1>2 DEF Deny, DeliverCode, Swap
<1>3. CASE InsertCode(c)
  <2>1. OpOf[c] = "decide" /\ \A r \in DOMAIN held[c] : r \in Cexes
    BY <1>0, <1>3 DEF InsertCode, CallInv, Places, Decides
  <2>. QED  BY <1>3, <2>1 DEF InsertCode, Seen
<1>4. CASE FamilyRevoked(c) \/ CommitSuccess(c)
  <2>1. /\ \A r \in DOMAIN held[c] : r \in Row /\ db'[r] = held[c][r]
        /\ \A r \in Row \ DOMAIN held[c] : db'[r] = db[r]
    BY <1>0, <1>4, Committing DEF FamilyRevoked, CommitSuccess
  <2>2. pc[c] \in {"familyTokens", "commit"}
    BY <1>4 DEF FamilyRevoked, CommitSuccess
  <2>3. CASE OpOf[c] = "redeem"
    BY <1>0, <2>1, <2>2, <2>3, PathType DEF Inv, TypeOK, CallInv, Places, Redeems
  <2>4. CASE OpOf[c] = "rotate"
    BY <1>0, <2>1, <2>2, <2>4 DEF CallInv, Rotates, Parent
  <2>5. CASE OpOf[c] = "revoke"
    <3>1. pc[c] = "commit" /\ pc'[c] = "answer"
      BY <1>0, <1>4, <2>2, <2>5 DEF CallInv, Places, FamilyRevoked, CommitSuccess, Goto, Inv, TypeOK
    <3>. QED  BY <1>0, <2>1, <2>5, <3>1 DEF Parent
  <2>6. OpOf[c] # "decide"
    BY <1>0, <2>2 DEF CallInv, Places
  <2>. QED  BY <2>3, <2>4, <2>5, <2>6, OpOfType DEF Op
<1>5. \/ UNCHANGED db
      \/ Approve(c) \/ Deny(c) \/ DeliverCode(c) \/ Swap(c) \/ InsertCode(c)
      \/ FamilyRevoked(c) \/ CommitSuccess(c)
  BY DEF Step, Lost, ApproveStep, ReadConsent, ApproveRefused, DeliverToken, DeliverRefused, Mint,
      DenyRefused, Refuse, RedeemStep, CheckCode, Consume, Link, CodeRefused, LockCex, LockToken,
      ShareGrant, CexRefused, Poll, DeviceRefused, RotateStep, LockFamily, LockGeneration,
      RotationRefused, Issue, ParentGone, RevokeFamily, RevokeFamilyTokens, RevokeStep,
      RevokeGenerations, RevokeTokens, RevokeParent, UpdateRow, Answer
<1>. QED  BY <1>1, <1>2, <1>3, <1>4, <1>5

\* A rotation presents a generation of a grant that was given.
LEMMA RotatedGrant ==
    ASSUME Inv, Beginnings, NEW k \in Generation, db[Rt(k)] # "none"
    PROVE  db[Rt(0)] # "none" /\ db[Grant] # "none" /\ db[Code] = "consumed" /\ path = "oauth"
<1>1. db[Rt(0)] # "none"
  <2>1. k = 0 \/ 0 < k
    BY RowsKnown
  <2>. QED  BY <2>1, RowsKnown DEF Inv, World, FamilyIsAChain
<1>. QED  BY <1>1 DEF Inv, World, Beginnings

\* A step of one call leaves what another one has locked, and what it knows.
LEMMA OthersKeepOrder ==
    ASSUME Inv, LockInv, OneRevocation, NEW c \in Call, Step(c) \/ Lost(c), NEW d \in Call \ {c}
    PROVE  Ordered(d)' /\ Parent(d)'
<1>1. path' = path /\ pc'[d] = pc[d] /\ todo'[d] = todo[d] /\ held'[d] = held[d]
  BY MovesAlone
<1>2. Ordered(d)'
  BY <1>1 DEF LockInv, Ordered
<1>3. \/ db'[Grant] = db[Grant]
      \/ db[Grant] = "none" /\ db'[Grant] = "active" /\ Approve(c)
      \/ /\ db[Grant] = "active" /\ db'[Grant] = "revoked"
         /\ OpOf[c] = "revoke" /\ Grant \in DOMAIN held[c]
  BY GrantMoves
<1>4. Grant \in DOMAIN held[c] => Grant \notin DOMAIN held[d]
  BY DEF Inv, TypeOK
<1>5. OpOf[c] = "revoke" => OpOf[d] # "revoke"
  BY DEF OneRevocation
<1>6. pc[d] \in {"burn", "family", "familyTokens"} => db[Grant] # "none"
  <2>1. pc[d] \in {"burn", "family", "familyTokens"} =>
            arg[d] \in Generation /\ db[Rt(arg[d])] # "none"
    BY RowsKnown DEF Inv, CallInv, Places, Rotates
  <2>. QED  BY <2>1, RotatedGrant DEF LockInv
<1>7. Parent(d)
  BY DEF LockInv
<1>8. Parent(d)'
  BY <1>1, <1>3, <1>4, <1>5, <1>6, <1>7 DEF Parent
<1>. QED  BY <1>2, <1>8

\* Where a call of an operation that locks nothing yet goes on, it has nothing.
LEMMA StartsWithNothing ==
    ASSUME Inv, NEW c \in Call, pc[c] \in {"idle", "done", "claim", "deliver", "consume", "swap", "answer"}
    PROVE  DOMAIN held[c] = {}
BY DEF Inv, CallInv, Places

\* A redemption locks the code, the token and the grant, one after the other.
LEMMA RedeemOrdered ==
    ASSUME Inv, LockInv, NEW c \in Call,
           \/ CheckCode(c) \/ Consume(c) \/ Link(c) \/ LockCex(c) \/ LockToken(c) \/ ShareGrant(c)
    PROVE  Ordered(c)' /\ Parent(c)'
<1>. USE RowsDiffer, RowsKnown
<1>0. /\ held \in [Call -> Lock] /\ pc \in [Call -> Point] /\ db \in [Row -> Value]
      /\ CallInv(c) /\ Ordered(c) /\ Parent(c)
  BY HeldType DEF Inv, TypeOK, LockInv
<1>1. CASE CheckCode(c)
  BY <1>0, <1>1 DEF CheckCode, Goto, Idle, Alive, Ordered, Parent
<1>2. CASE Consume(c)
  <2>1. pc'[c] = "link" /\ db' = db /\ path' = path /\ OpOf[c] = "redeem"
    BY <1>0, <1>2 DEF Consume, Goto, CallInv, Places
  <2>2. DOMAIN held'[c] = {Code, Rt(0)}
    <3>1. DOMAIN held[c] = {}
      BY <1>2, StartsWithNothing DEF Consume
    <3>2. DOMAIN held'[c] = {Code, Rt(0)} \cup DOMAIN held[c]
      BY <1>0, <1>2 DEF Consume, Hold
    <3>. QED  BY <3>1, <3>2
  <2>. QED  BY <1>0, <1>2, <2>1, <2>2 DEF Consume, Ordered, Parent
<1>3. CASE Link(c)
  <2>1. pc'[c] = "commit" /\ pc[c] = "link" /\ db' = db /\ path' = path /\ OpOf[c] = "redeem"
    BY <1>0, <1>3 DEF Link, Goto, CallInv, Places
  <2>. QED  BY <1>0, <2>1 DEF Ordered, Parent
<1>4. CASE LockCex(c)
  <2>1. pc'[c] = "token" /\ OpOf[c] = "redeem"
    BY <1>0, <1>4 DEF LockCex, Goto, Idle
  <2>2. PICK i \in 1..MaxCode : Hold(c, Keep(c, {Cex(i)}))
    BY <1>4 DEF LockCex
  <2>3. DOMAIN held'[c] = {Cex(i)}
    <3>1. DOMAIN held[c] = {}
      BY <1>4, StartsWithNothing DEF LockCex, Idle
    <3>2. DOMAIN held'[c] = {Cex(i)} \cup DOMAIN held[c]
      BY <1>0, <2>2 DEF Hold, Keep
    <3>. QED  BY <3>1, <3>2
  <2>. QED  BY <2>1, <2>3 DEF Ordered, Parent
<1>5. CASE LockToken(c)
  <2>1. pc'[c] = "share" /\ pc[c] = "token" /\ OpOf[c] = "redeem"
    BY <1>0, <1>5 DEF LockToken, Goto, CallInv, Places
  <2>2. DOMAIN held'[c] = {Tok(0)} \cup DOMAIN held[c]
    BY <1>0, <1>5 DEF LockToken, Hold, Keep
  <2>. QED  BY <1>0, <2>1, <2>2 DEF Ordered, Parent
<1>6. CASE ShareGrant(c)
  <2>1. pc'[c] = "commit" /\ path' = path /\ path # "oauth" /\ OpOf[c] = "redeem"
    BY <1>0, <1>6 DEF ShareGrant, Goto, CallInv, Places
  <2>. QED  BY <2>1 DEF Ordered, Parent
<1>. QED  BY <1>1, <1>2, <1>3, <1>4, <1>5, <1>6

\* A rotation has its family and a generation when it asks for the grant, and
\* no token before it revokes the family's.
LEMMA RotateOrdered ==
    ASSUME Inv, LockInv, NEW c \in Call,
           \/ LockFamily(c) \/ LockGeneration(c) \/ Issue(c) \/ ParentGone(c)
           \/ RevokeFamily(c) \/ RevokeFamilyTokens(c)
    PROVE  Ordered(c)' /\ Parent(c)'
<1>. USE RowsDiffer, RowsKnown
<1>0. /\ held \in [Call -> Lock] /\ pc \in [Call -> Point] /\ db \in [Row -> Value]
      /\ CallInv(c) /\ Ordered(c) /\ Parent(c)
  BY HeldType DEF Inv, TypeOK, LockInv
<1>1. OpOf[c] = "rotate"
  BY <1>0 DEF LockFamily, Idle, LockGeneration, Issue, ParentGone, RevokeFamily, RevokeFamilyTokens,
      CallInv, Places
<1>2. CASE LockFamily(c) \/ Issue(c)
  <2>1. pc'[c] \in {"row", "commit"}
    BY <1>0, <1>2 DEF LockFamily, Issue, Goto
  <2>. QED  BY <1>1, <2>1 DEF Ordered, Parent
<1>3. CASE LockGeneration(c)
  <2>1. pc'[c] \in {"burn", "parent"} /\ pc[c] = "row"
    BY <1>0, <1>3 DEF LockGeneration, Goto
  <2>2. DOMAIN held'[c] = {Rt(arg[c]), Family} /\ arg[c] \in Generation
    <3>1. DOMAIN held[c] = {Family} /\ arg[c] \in Generation
      BY <1>0, <1>1, <2>1 DEF CallInv, Rotates
    <3>2. DOMAIN held'[c] = {Rt(arg[c])} \cup DOMAIN held[c]
      BY <1>0, <1>3 DEF LockGeneration, Hold, Keep
    <3>. QED  BY <3>1, <3>2
  <2>. QED  BY <1>1, <2>1, <2>2 DEF Ordered, Parent
<1>4. CASE ParentGone(c)
  <2>1. pc'[c] = "burn" /\ pc[c] = "parent" /\ db' = db /\ db[Grant] # "active"
    BY <1>0, <1>4 DEF ParentGone, Goto
  <2>2. DOMAIN held[c] = {Family, Rt(arg[c])} /\ arg[c] \in Generation
    BY <1>0, <1>1, <2>1 DEF CallInv, Rotates
  <2>3. DOMAIN held'[c] = {Grant} \cup DOMAIN held[c] /\ held'[c][Grant] = Seen(c, Grant)
    BY <1>0, <1>4 DEF ParentGone, Hold, Keep
  <2>4. held'[c][Grant] = db[Grant]
    BY <2>2, <2>3 DEF Seen
  <2>. QED  BY <1>1, <2>1, <2>2, <2>3, <2>4 DEF Ordered, Parent
<1>5. CASE RevokeFamily(c) \/ RevokeFamilyTokens(c)
  <2>1. UNCHANGED <<db, held>> /\ \/ pc[c] = "burn" /\ pc'[c] = "family"
                                  \/ pc[c] = "family" /\ pc'[c] = "familyTokens"
    BY <1>0, <1>5 DEF RevokeFamily, RevokeFamilyTokens, Select, Goto
  <2>. QED  BY <1>0, <1>1, <2>1 DEF Ordered, Parent, Behind
<1>. QED  BY <1>2, <1>3, <1>4, <1>5

\* At most one generation is there for a revocation to lock, and its grant is
\* active from its first statement to its commit.
LEMMA RevokeOrdered ==
    ASSUME Inv, LockInv, NEW c \in Call, RevokeGenerations(c) \/ RevokeTokens(c) \/ RevokeParent(c)
    PROVE  Ordered(c)' /\ Parent(c)'
<1>. USE RowsDiffer, RowsKnown
<1>0. /\ held \in [Call -> Lock] /\ pc \in [Call -> Point] /\ db \in [Row -> Value]
      /\ todo \in [Call -> SUBSET Row]
      /\ CallInv(c) /\ Ordered(c) /\ Parent(c)
  BY HeldType DEF Inv, TypeOK, LockInv
<1>1. OpOf[c] = "revoke" /\ db' = db
  BY <1>0 DEF RevokeGenerations, Idle, RevokeTokens, RevokeParent, CallInv, Places
<1>2. CASE RevokeGenerations(c)
  <2>1. pc'[c] = "generations" /\ pc[c] = "idle" /\ held' = held /\ db[Grant] # "none"
    BY <1>0, <1>2 DEF RevokeGenerations, Idle, Select, Goto
  <2>2. DOMAIN held[c] = {}
    BY <2>1, StartsWithNothing
  <2>3. ASSUME NEW q \in todo'[c], NEW r \in todo'[c] PROVE q = r
    <3>1. todo'[c] = {p \in Rts : db[p] = "active"}
      BY <1>0, <1>2, <2>2 DEF RevokeGenerations, Select, TableOf, Matches, Seen
    <3>2. PICK j \in Generation, k \in Generation : q = Rt(j) /\ r = Rt(k)
      BY <2>3, <3>1
    <3>3. ~(j < k) /\ ~(k < j)
      BY <2>3, <3>1, <3>2 DEF Inv, World, FamilyIsAChain
    <3>. QED  BY <3>2, <3>3
  <2>4. db[Grant] = "active"
    BY <1>0, <1>1, <2>1 DEF Parent
  <2>. QED  BY <1>1, <2>1, <2>2, <2>3, <2>4 DEF Ordered, Parent
<1>3. CASE RevokeTokens(c)
  <2>1. pc'[c] = "tokens" /\ pc[c] = "generations" /\ held' = held
    BY <1>0, <1>3 DEF RevokeTokens, Select, Goto
  <2>2. DOMAIN held[c] \cap Toks = {} /\ Grant \notin DOMAIN held[c]
    BY <1>0, <2>1 DEF Ordered
  <2>. QED  BY <1>0, <1>1, <2>1, <2>2 DEF Ordered, Parent, Behind
<1>4. CASE RevokeParent(c)
  <2>1. pc'[c] = "commit" /\ pc[c] = "tokens"
    BY <1>0, <1>4 DEF RevokeParent, Goto
  <2>2. held'[c][Grant] = "revoked"
    BY <1>0, <1>4 DEF RevokeParent, Hold
  <2>. QED  BY <1>0, <1>1, <2>1, <2>2 DEF Ordered, Parent
<1>. QED  BY <1>2, <1>3, <1>4

\* A statement locks the foremost of its rows.
LEMMA UpdateOrdered ==
    ASSUME Inv, LockInv, NEW c \in Call, UpdateRow(c)
    PROVE  Ordered(c)' /\ Parent(c)'
<1>. USE RowsDiffer, RowsKnown
<1>0. /\ held \in [Call -> Lock] /\ pc \in [Call -> Point] /\ todo \in [Call -> SUBSET Row]
      /\ CallInv(c) /\ Ordered(c) /\ Parent(c)
  BY HeldType DEF Inv, TypeOK, LockInv
<1>1. PICK r \in todo[c] :
          /\ \A q \in todo[c] : r[2] <= q[2]
          /\ IF Matches(pc[c], Seen(c, r))
             THEN Hold(c, [q \in {r} |-> IF pc[c] = "closing" THEN "closed" ELSE "revoked"])
             ELSE UNCHANGED held
          /\ todo' = [todo EXCEPT ![c] = @ \ {r}]
  BY DEF UpdateRow
<1>2. /\ pc[c] \in Statement /\ pc' = pc /\ db' = db /\ path' = path
      /\ todo'[c] = todo[c] \ {r} /\ todo[c] \subseteq TableOf(pc[c])
  BY <1>0, <1>1 DEF UpdateRow, CallInv, Places
<1>3. /\ DOMAIN held'[c] \subseteq DOMAIN held[c] \cup {r}
      /\ Grant \in DOMAIN held[c] /\ r # Grant => held'[c][Grant] = held[c][Grant]
  <2>1. CASE Matches(pc[c], Seen(c, r))
    BY <1>0, <1>1, <2>1 DEF Hold
  <2>2. CASE ~Matches(pc[c], Seen(c, r))
    BY <1>0, <1>1, <2>2
  <2>. QED  BY <2>1, <2>2
<1>4. CASE pc[c] = "closing"
  <2>1. todo[c] \subseteq Cexes
    BY <1>2, <1>4 DEF TableOf
  <2>2. \A q \in todo[c] \ {r} : r[2] < q[2]
    BY <1>1, <2>1 DEF Cex
  <2>3. OpOf[c] = "decide"
    BY <1>0, <1>4 DEF CallInv, Places
  <2>. QED  BY <1>0, <1>2, <1>3, <1>4, <2>2, <2>3 DEF Ordered, Parent, Behind
<1>5. CASE pc[c] = "generations"
  <2>1. todo[c] = {r} /\ r \in Rts
    BY <1>0, <1>1, <1>2, <1>5 DEF Ordered, TableOf
  <2>. QED  BY <1>0, <1>2, <1>3, <1>5, <2>1 DEF Ordered, Parent
<1>6. CASE pc[c] \in {"tokens", "familyTokens"}
  <2>1. todo[c] \subseteq Toks
    BY <1>2, <1>6 DEF TableOf
  <2>2. \A q \in todo[c] \ {r} : r[2] < q[2]
    BY <1>1, <2>1 DEF Tok
  <2>3. r # Grant
    BY <2>1
  <2>. QED  BY <1>0, <1>2, <1>3, <1>6, <2>2, <2>3 DEF Ordered, Parent, Behind
<1>7. CASE pc[c] = "family"
  <2>1. r \in Rts
    BY <1>2, <1>7 DEF TableOf
  <2>2. r # Grant /\ r \notin Toks
    BY <2>1
  <2>. QED  BY <1>0, <1>2, <1>3, <1>7, <2>2 DEF Ordered, Parent
<1>. QED  BY <1>2, <1>4, <1>5, <1>6, <1>7 DEF Statement

\* What calls have locked stays in order, whatever they do.
LEMMA OrderKept == Inv /\ LockInv /\ OneRevocation /\ [Next]_vars => LockInv'
<1>1. CASE UNCHANGED vars
  BY <1>1 DEF vars, LockInv, Beginnings, Ordered, Parent
<1>2. ASSUME Inv, LockInv, OneRevocation, Next PROVE LockInv'
  <2>. PICK c \in Call : Step(c) \/ Lost(c)
    BY <1>2 DEF Next
  <2>1. Ordered(c)' /\ Parent(c)'
    <3>0. pc \in [Call -> Point]
      BY <1>2 DEF Inv, TypeOK
    <3>1. CASE pc'[c] \in {"claim", "deliver", "swap", "answer", "done"}
      BY <3>1, NothingToLock
    <3>2. CASE Mint(c)
      <4>1. pc'[c] = "closing" /\ held' = held /\ DOMAIN held[c] = {}
        BY <1>2, <3>0, <3>2, StartsWithNothing DEF Mint, Goto
      <4>2. OpOf[c] = "decide"
        BY <1>2, <3>2 DEF Mint, Inv, CallInv, Places
      <4>. QED  BY <4>1, <4>2 DEF Ordered, Parent, Behind
    <3>3. CASE \/ CheckCode(c) \/ Consume(c) \/ Link(c) \/ LockCex(c) \/ LockToken(c) \/ ShareGrant(c)
      BY <1>2, <3>3, RedeemOrdered
    <3>4. CASE \/ LockFamily(c) \/ LockGeneration(c) \/ Issue(c) \/ ParentGone(c)
               \/ RevokeFamily(c) \/ RevokeFamilyTokens(c)
      BY <1>2, <3>4, RotateOrdered
    <3>5. CASE RevokeGenerations(c) \/ RevokeTokens(c) \/ RevokeParent(c)
      BY <1>2, <3>5, RevokeOrdered
    <3>6. CASE UpdateRow(c)
      BY <1>2, <3>6, UpdateOrdered
    <3>7. CASE \/ ReadConsent(c) \/ Approve(c) \/ ApproveRefused(c) \/ DeliverCode(c) \/ DeliverToken(c)
               \/ DeliverRefused(c) \/ InsertCode(c) \/ Deny(c) \/ DenyRefused(c)
      BY <3>0, <3>1, <3>7 DEF ReadConsent, Approve, ApproveRefused, DeliverCode, DeliverToken,
          DeliverRefused, InsertCode, Deny, DenyRefused, Refuse, Goto
    <3>8. CASE \/ CodeRefused(c) \/ CexRefused(c) \/ Poll(c) \/ Swap(c) \/ DeviceRefused(c)
               \/ RotationRefused(c) \/ FamilyRevoked(c) \/ CommitSuccess(c) \/ Answer(c) \/ Lost(c)
      BY <3>0, <3>1, <3>8 DEF CodeRefused, CexRefused, Poll, Swap, DeviceRefused, RotationRefused,
          FamilyRevoked, CommitSuccess, Answer, Lost, Refuse, Goto
    <3>. QED
      BY <3>2, <3>3, <3>4, <3>5, <3>6, <3>7, <3>8
      DEF Step, ApproveStep, RedeemStep, RotateStep, RevokeStep
  <2>2. \A d \in Call \ {c} : Ordered(d)' /\ Parent(d)'
    BY <1>2, OthersKeepOrder
  <2>3. Beginnings'
    <3>1. \/ db'[Grant] = db[Grant]
          \/ db[Grant] = "none" /\ db'[Grant] = "active" /\ Approve(c)
          \/ db[Grant] = "active" /\ db'[Grant] = "revoked"
      BY <1>2, GrantMoves
    <3>2. path' = path
      BY <1>2, MovesAlone
    <3>3. /\ db'[Consent] = "pending" => db[Consent] = "pending" /\ ~Approve(c)
          /\ db'[Code] = "consumed" => db[Code] = "consumed" \/ path = "oauth"
          /\ db'[Rt(0)] # "none" => \/ db[Rt(0)] # "none"
                                    \/ OpOf[c] = "redeem" /\ path = "oauth" /\ pc[c] = "commit"
      BY <1>2, FirstRows
    <3>4. Beginnings /\ Parent(c)
      BY <1>2 DEF LockInv
    <3>. QED  BY <3>1, <3>2, <3>3, <3>4 DEF Beginnings, Parent
  <2>. QED  BY <2>1, <2>2, <2>3 DEF LockInv
<1>. QED  BY <1>1, <1>2

\* Who has which row.
LEMMA Holders ==
    ASSUME Inv, LockInv, NEW d \in Call
    PROVE  /\ \A k \in 1..MaxCode : Cex(k) \in DOMAIN held[d] =>
                  pc[d] = "closing" \/ pc[d] \in {"token", "share", "commit"}
           /\ Code \in DOMAIN held[d] => pc[d] \in {"link", "commit"}
           /\ \A k \in Generation : Rt(k) \in DOMAIN held[d] =>
                  \/ OpOf[d] = "redeem" /\ pc[d] \in {"link", "commit"} /\ db[Code] = "issued"
                  \/ /\ OpOf[d] = "rotate" /\ Family \in DOMAIN held[d]
                     /\ pc[d] \in {"parent", "burn", "family", "familyTokens", "commit"}
                  \/ OpOf[d] = "revoke" /\ pc[d] \in {"generations", "tokens", "commit"}
           /\ \A k \in Generation : Tok(k) \in DOMAIN held[d] =>
                  \/ pc[d] \in {"share", "commit"}
                  \/ OpOf[d] = "rotate" /\ pc[d] = "familyTokens"
                  \/ OpOf[d] = "revoke" /\ pc[d] = "tokens"
           /\ Grant \in DOMAIN held[d] =>
                  \/ pc[d] = "commit"
                  \/ /\ OpOf[d] = "rotate" /\ Family \in DOMAIN held[d]
                     /\ pc[d] \in {"burn", "family", "familyTokens"} /\ db[Grant] # "active"
<1>. USE RowsDiffer, RowsKnown
<1>1. /\ CallInv(d) /\ Ordered(d) /\ Parent(d) /\ pc[d] \in Point /\ OpOf[d] \in Op
      /\ path \in {"oauth", "exchange", "device"}
  BY OpOfType, PathType DEF Inv, TypeOK, LockInv
<1>2. CASE OpOf[d] = "decide"
  BY <1>1, <1>2 DEF CallInv, Places, Decides, Point, Statement
<1>3. CASE OpOf[d] = "redeem"
  BY <1>1, <1>3 DEF CallInv, Places, Redeems, Ordered, Point, Statement
<1>4. CASE OpOf[d] = "rotate"
  <2>1. pc[d] \in {"idle", "done", "answer", "row", "parent", "burn", "family", "familyTokens", "commit"}
    BY <1>1, <1>4 DEF CallInv, Places, Point, Statement
  <2>. QED  BY <1>1, <1>4, <2>1 DEF CallInv, Places, Rotates, Ordered, Parent
<1>5. CASE OpOf[d] = "revoke"
  <2>1. pc[d] \in {"idle", "done", "answer", "generations", "tokens", "commit"}
    BY <1>1, <1>5 DEF CallInv, Places, Point, Statement
  <2>. QED  BY <1>1, <1>5, <2>1 DEF CallInv, Places, Revokes, Ordered
<1>. QED  BY <1>1, <1>2, <1>3, <1>4, <1>5 DEF Op

\* The first row that a statement is still going to lock.
Head(S) == CHOOSE n \in Nat : (\E r \in S : r[2] = n) /\ \A r \in S : n <= r[2]

LEMMA HeadFacts ==
    ASSUME NEW S \in SUBSET Row, S # {}
    PROVE  /\ Head(S) \in Nat
           /\ \E r \in S : r[2] = Head(S)
           /\ \A r \in S : r[2] \in Nat /\ Head(S) <= r[2]
<1>. DEFINE N == {r[2] : r \in S}
<1>1. \A r \in S : r[2] \in Nat
  BY BoundsAreNat DEF Row, Rts, Toks, Cexes, Rt, Tok, Cex, Consent, Code, Grant, Family, Generation
<1>2. N \in SUBSET Nat /\ N # {}
  BY <1>1
<1>. HIDE DEF N
<1>3. PICK n \in N : \A m \in N : ~(<<m, n>> \in OpToRel(<, Nat))
  BY <1>2, NatLessThanWellFounded, WFMin
<1>4. ASSUME NEW m \in N PROVE n <= m
  <2>1. <<m, n>> \notin {pair \in Nat \X Nat : pair[1] < pair[2]}
    BY <1>3 DEF OpToRel
  <2>. QED  BY <1>2, <2>1
<1>5. n \in Nat /\ (\E r \in S : r[2] = n) /\ \A r \in S : n <= r[2]
  BY <1>2, <1>3, <1>4 DEF N
<1>. QED  BY <1>1, <1>5 DEF Head

\* How far a call is along the order in which all of them lock: exchange codes
\* before tokens, generations before tokens, tokens before the grant, and
\* whoever has the grant goes on.
Rank(c) ==
    CASE pc[c] = "closing" /\ todo[c] # {} -> Head(todo[c])
      [] pc[c] = "closing" /\ todo[c] = {} -> MaxCode + 1
      [] pc[c] = "consume" -> MaxCode + 1
      [] pc[c] = "generations" /\ todo[c] # {} -> MaxCode + 1
      [] pc[c] \in {"link", "token", "row"} -> MaxCode + 2
      [] pc[c] = "family" /\ todo[c] # {} -> MaxCode + 2
      [] pc[c] \in {"tokens", "familyTokens"} /\ todo[c] # {} -> MaxCode + 3 + Head(todo[c])
      [] pc[c] = "tokens" /\ todo[c] = {} -> MaxCode + 4 + MaxGeneration
      [] pc[c] \in {"share", "parent"} -> MaxCode + 4 + MaxGeneration
      [] OTHER -> MaxCode + 5 + MaxGeneration

LEMMA Ranks ==
    ASSUME Inv, NEW c \in Call
    PROVE  /\ pc[c] = "closing" /\ todo[c] # {} => Rank(c) = Head(todo[c]) /\ Rank(c) \in 1..MaxCode
           /\ pc[c] = "closing" /\ todo[c] = {} => Rank(c) = MaxCode + 1
           /\ pc[c] = "consume" => Rank(c) = MaxCode + 1
           /\ pc[c] = "generations" /\ todo[c] # {} => Rank(c) = MaxCode + 1
           /\ pc[c] \in {"link", "token", "row"} => Rank(c) = MaxCode + 2
           /\ pc[c] = "family" /\ todo[c] # {} => Rank(c) = MaxCode + 2
           /\ pc[c] \in {"tokens", "familyTokens"} /\ todo[c] # {} =>
                  /\ Rank(c) = MaxCode + 3 + Head(todo[c])
                  /\ Head(todo[c]) \in Generation
           /\ pc[c] = "tokens" /\ todo[c] = {} => Rank(c) = MaxCode + 4 + MaxGeneration
           /\ pc[c] \in {"share", "parent"} => Rank(c) = MaxCode + 4 + MaxGeneration
           /\ \/ pc[c] \in {"burn", "commit"}
              \/ pc[c] \in {"generations", "family", "familyTokens"} /\ todo[c] = {}
              => Rank(c) = MaxCode + 5 + MaxGeneration
           /\ Rank(c) \in 0..(MaxCode + 5 + MaxGeneration)
<1>1. todo[c] \in SUBSET Row /\ (pc[c] \in Statement => todo[c] \subseteq TableOf(pc[c]))
  BY DEF Inv, TypeOK, CallInv, Places
<1>2. CASE pc[c] = "closing" /\ todo[c] # {}
  <2>1. \A r \in todo[c] : r[2] \in 1..MaxCode
    BY <1>1, <1>2 DEF Statement, TableOf, Cexes, Cex
  <2>2. Head(todo[c]) \in 1..MaxCode
    BY <1>1, <1>2, <2>1, HeadFacts
  <2>. QED  BY <1>2, <2>2, BoundsAreNat DEF Rank
<1>3. CASE pc[c] \in {"tokens", "familyTokens"} /\ todo[c] # {}
  <2>1. \A r \in todo[c] : r[2] \in Generation
    BY <1>1, <1>3 DEF Statement, TableOf, Toks, Tok
  <2>2. Head(todo[c]) \in Generation
    BY <1>1, <1>3, <2>1, HeadFacts
  <2>3. Rank(c) = MaxCode + 3 + Head(todo[c])
    BY <1>3 DEF Rank
  <2>. QED  BY <1>3, <2>2, <2>3, BoundsAreNat DEF Generation
<1>4. CASE pc[c] \in {"closing", "tokens", "familyTokens"} => todo[c] = {}
  <2>1. CASE \/ pc[c] \in {"closing", "consume"}
             \/ pc[c] = "generations" /\ todo[c] # {}
    <3>1. Rank(c) = MaxCode + 1
      BY <1>4, <2>1 DEF Rank
    <3>. QED  BY <1>4, <2>1, <3>1, BoundsAreNat
  <2>2. CASE \/ pc[c] \in {"link", "token", "row"}
             \/ pc[c] = "family" /\ todo[c] # {}
    <3>1. Rank(c) = MaxCode + 2
      BY <2>2 DEF Rank
    <3>. QED  BY <1>4, <2>2, <3>1, BoundsAreNat
  <2>3. CASE pc[c] \in {"tokens", "share", "parent"}
    <3>1. Rank(c) = MaxCode + 4 + MaxGeneration
      BY <1>4, <2>3 DEF Rank
    <3>. QED  BY <1>4, <2>3, <3>1, BoundsAreNat
  <2>4. CASE \/ pc[c] \notin {"closing", "consume", "generations", "link", "token", "row", "family",
                              "tokens", "share", "parent"}
             \/ pc[c] \in {"generations", "family"} /\ todo[c] = {}
    <3>1. Rank(c) = MaxCode + 5 + MaxGeneration
      BY <1>4, <2>4 DEF Rank
    <3>. QED  BY <1>4, <2>4, <3>1, BoundsAreNat
  <2>. QED  BY <2>1, <2>2, <2>3, <2>4
<1>. QED  BY <1>2, <1>3, <1>4

\* Whoever waits is behind the one it waits for.
LEMMA WaitsForHigher ==
    ASSUME Inv, LockInv, OneRevocation, NEW c \in Call, NEW d \in Call, WaitsFor(c, d)
    PROVE  Rank(c) < Rank(d)
<1>. USE RowsDiffer, RowsKnown, BoundsAreNat DEF Generation
<1>. DEFINE M == MaxCode
            G == MaxGeneration
<1>1. PICK r \in Needs(c) : r \in DOMAIN held[d]
  BY DEF WaitsFor
<1>2. /\ c # d /\ pc[c] \in Point /\ pc[d] \in Point /\ OpOf[c] \in Op /\ OpOf[d] \in Op
      /\ CallInv(c) /\ CallInv(d) /\ Ordered(c) /\ Ordered(d) /\ Parent(c) /\ Parent(d)
      /\ todo[c] \in SUBSET Row /\ todo[d] \in SUBSET Row
      /\ DOMAIN held[c] \cap DOMAIN held[d] = {}
  BY OpOfType DEF WaitsFor, Inv, TypeOK, LockInv
<1>3. ASSUME Behind({r}, todo[d]), todo[d] # {}, r[2] \in Nat
      PROVE  r[2] < Head(todo[d])
  BY <1>2, <1>3, HeadFacts DEF Behind
<1>4. ASSUME r \in Foremost(todo[c])
      PROVE  todo[c] # {} /\ r[2] \in Nat /\ r[2] = Head(todo[c]) /\ r \in todo[c]
  BY <1>2, <1>4, HeadFacts DEF Foremost
<1>5. OpOf[c] = "revoke" => OpOf[d] # "revoke"
  BY <1>2 DEF OneRevocation
<1>6. OpOf[c] = "rotate" /\ Family \in DOMAIN held[c] => Family \notin DOMAIN held[d]
  BY <1>2
<1>7. CASE pc[c] = "consume"
  <2>1. r = Code
    BY <1>1, <1>7 DEF Needs, Statement
  <2>. QED  BY <1>1, <1>7, <2>1, Holders, Ranks
<1>8. CASE pc[c] \in {"link", "token"} \/ (pc[c] = "closing" /\ todo[c] = {})
  <2>1. r = Tok(0)
    BY <1>1, <1>8 DEF Needs, Statement
  <2>2. \/ pc[d] \in {"share", "commit"}
        \/ pc[d] \in {"tokens", "familyTokens"}
    BY <1>1, <2>1, Holders
  <2>3. Rank(d) >= M + 3
    BY <2>2, Ranks
  <2>. QED  BY <1>8, <2>3, Ranks
<1>9. CASE pc[c] \in {"share", "parent"} \/ (pc[c] = "tokens" /\ todo[c] = {})
  <2>1. r = Grant
    BY <1>1, <1>9 DEF Needs, Statement
  <2>2. ASSUME OpOf[d] = "rotate", Family \in DOMAIN held[d],
               pc[d] \in {"burn", "family", "familyTokens"}, db[Grant] # "active"
        PROVE  FALSE
    <3>1. arg[d] \in Generation /\ db[Rt(arg[d])] # "none"
      BY <2>2, FamilyHolder
    <3>2. path = "oauth"
      BY <3>1, RotatedGrant DEF LockInv
    <3>3. CASE pc[c] = "share"
      BY <1>2, <3>2, <3>3 DEF CallInv, Places
    <3>4. CASE pc[c] = "parent"
      <4>1. OpOf[c] = "rotate" /\ Family \in DOMAIN held[c]
        BY <1>2, <3>4 DEF CallInv, Places, Rotates
      <4>. QED  BY <1>6, <2>2, <4>1
    <3>5. CASE pc[c] = "tokens"
      BY <1>2, <2>2, <3>5 DEF CallInv, Places, Parent
    <3>. QED  BY <1>9, <3>3, <3>4, <3>5
  <2>3. pc[d] = "commit"
    BY <1>1, <2>1, <2>2, Holders
  <2>. QED  BY <1>9, <2>3, Ranks
<1>10. CASE pc[c] = "row" \/ (pc[c] = "family" /\ todo[c] # {})
  <2>1. OpOf[c] = "rotate" /\ Family \in DOMAIN held[c] /\ arg[c] \in Generation
        /\ db[Rt(arg[c])] # "none"
    BY <1>2, <1>10 DEF CallInv, Places, Rotates
  <2>2. PICK k \in Generation : r = Rt(k)
    <3>1. CASE pc[c] = "row"
      BY <1>1, <2>1, <3>1 DEF Needs, Statement
    <3>2. CASE pc[c] = "family" /\ todo[c] # {}
      <4>1. r \in todo[c]
        BY <1>1, <1>4, <3>2 DEF Needs, Statement
      <4>. QED  BY <1>2, <3>2, <4>1 DEF CallInv, Places, Statement, TableOf
    <3>. QED  BY <1>10, <3>1, <3>2
  <2>3. db[Code] = "consumed"
    BY <2>1, RotatedGrant DEF LockInv
  <2>4. OpOf[d] = "revoke" /\ pc[d] \in {"generations", "tokens", "commit"}
    BY <1>1, <1>6, <2>1, <2>2, <2>3, Holders
  <2>5. pc[d] = "generations" => todo[d] = {}
    BY <1>1, <1>2 DEF Ordered
  <2>6. Rank(d) >= M + 3
    BY <2>4, <2>5, Ranks
  <2>. QED  BY <1>10, <2>6, Ranks
<1>11. CASE pc[c] = "generations" /\ todo[c] # {}
  <2>1. r \in todo[c] /\ OpOf[c] = "revoke"
    BY <1>1, <1>2, <1>4, <1>11 DEF Needs, Statement, CallInv, Places
  <2>2. PICK k \in Generation : r = Rt(k)
    BY <1>2, <1>11, <2>1 DEF CallInv, Places, Statement, TableOf
  <2>3. pc[d] \in {"link", "commit", "parent", "burn", "family", "familyTokens"}
    BY <1>1, <1>5, <2>1, <2>2, Holders
  <2>4. Rank(d) >= M + 2
    BY <2>3, Ranks
  <2>. QED  BY <1>11, <2>4, Ranks
<1>12. CASE pc[c] = "closing" /\ todo[c] # {}
  <2>1. r \in Foremost(todo[c])
    BY <1>1, <1>12 DEF Needs, Statement
  <2>2. r \in todo[c] /\ r[2] = Head(todo[c]) /\ r[2] \in Nat
    BY <1>4, <2>1
  <2>3. PICK k \in 1..MaxCode : r = Cex(k)
    BY <1>2, <1>12, <2>2 DEF CallInv, Places, Statement, TableOf
  <2>4. pc[d] = "closing" \/ pc[d] \in {"token", "share", "commit"}
    BY <1>1, <2>3, Holders
  <2>5. CASE pc[d] = "closing" /\ todo[d] # {}
    <3>1. Behind({r}, todo[d])
      BY <1>1, <1>2, <2>5 DEF Ordered, Behind
    <3>. QED  BY <1>3, <1>12, <2>2, <2>5, <3>1, Ranks
  <2>6. CASE ~(pc[d] = "closing" /\ todo[d] # {})
    <3>1. Rank(d) >= M + 1
      BY <2>4, <2>6, Ranks
    <3>. QED  BY <1>12, <3>1, Ranks
  <2>. QED  BY <2>5, <2>6
<1>13. CASE pc[c] \in {"tokens", "familyTokens"} /\ todo[c] # {}
  <2>1. r \in Foremost(todo[c])
    BY <1>1, <1>13 DEF Needs, Statement
  <2>2. r \in todo[c] /\ r[2] = Head(todo[c]) /\ r[2] \in Nat
    BY <1>4, <2>1
  <2>3. PICK k \in Generation : r = Tok(k)
    BY <1>2, <1>13, <2>2 DEF CallInv, Places, Statement, TableOf
  <2>4. \/ pc[d] \in {"share", "commit"}
        \/ pc[d] \in {"tokens", "familyTokens"}
    BY <1>1, <2>3, Holders
  <2>5. CASE pc[d] \in {"tokens", "familyTokens"} /\ todo[d] # {}
    <3>1. Behind({r}, todo[d])
      BY <1>1, <1>2, <2>3, <2>5 DEF Ordered, Behind
    <3>. QED  BY <1>3, <1>13, <2>2, <2>5, <3>1, Ranks
  <2>6. CASE ~(pc[d] \in {"tokens", "familyTokens"} /\ todo[d] # {})
    <3>1. Rank(d) >= M + 4 + G
      BY <2>4, <2>6, Ranks
    <3>. QED  BY <1>13, <3>1, Ranks
  <2>. QED  BY <2>5, <2>6
<1>14. \/ pc[c] \in {"consume", "link", "token", "share", "parent", "row"}
       \/ pc[c] \in Statement /\ todo[c] # {}
       \/ pc[c] \in {"closing", "tokens"} /\ todo[c] = {}
  BY <1>1 DEF Needs
<1>. QED
  BY <1>7, <1>8, <1>9, <1>10, <1>11, <1>12, <1>13, <1>14 DEF Statement

\* Calls never wait for each other's rows in a circle, for any number of
\* approvals, redemptions and rotations, reuses included, and one revocation:
\* of any calls, the one that is farthest along the common order of locks waits
\* for none of the others. Two revocations of one grant may wait in a circle
\* with a rotation. That a call goes on when it waits for nobody is left to the
\* liveness that TLC checks.
THEOREM NobodyWaitsInACircle ==
    ASSUME OneRevocation
    PROVE  Spec => []NoCircle
<1>1. Init => LockInv
  <2>. SUFFICES ASSUME Init PROVE LockInv
    OBVIOUS
  <2>1. db[Grant] = "none" /\ db[Code] # "consumed" /\ db[Rt(0)] = "none"
    BY RowsDiffer, RowsKnown DEF Init
  <2>2. \A c \in Call : pc[c] = "idle"
    BY DEF Init
  <2>. QED  BY <2>1, <2>2 DEF LockInv, Beginnings, Ordered, Parent
<1>2. Inv /\ LockInv /\ [Next]_vars => LockInv'
  BY OrderKept
<1>3. Inv /\ LockInv => NoCircle
  <2>. SUFFICES ASSUME Inv, LockInv, NEW S \in SUBSET Call, S # {}
               PROVE  \E c \in S : \A d \in S : ~WaitsFor(c, d)
    BY DEF NoCircle
  <2>. DEFINE Top == MaxCode + 5 + MaxGeneration
              left == {Top - Rank(c) : c \in S}
  <2>1. \A c \in S : Rank(c) \in 0..Top
    BY Ranks
  <2>2. left \in SUBSET Nat /\ left # {}
    BY <2>1, BoundsAreNat
  <2>. HIDE DEF left
  <2>3. PICK n \in left : \A m \in left : ~(<<m, n>> \in OpToRel(<, Nat))
    BY <2>2, NatLessThanWellFounded, WFMin
  <2>4. ASSUME NEW m \in left PROVE n <= m
    <3>1. <<m, n>> \notin {pair \in Nat \X Nat : pair[1] < pair[2]}
      BY <2>3 DEF OpToRel
    <3>. QED  BY <2>2, <3>1
  <2>5. PICK c \in S : n = Top - Rank(c)
    BY <2>3 DEF left
  <2>6. ASSUME NEW d \in S, WaitsFor(c, d) PROVE FALSE
    <3>1. Rank(c) < Rank(d)
      BY <2>6, WaitsForHigher
    <3>2. n <= Top - Rank(d)
      BY <2>4 DEF left
    <3>. QED  BY <2>1, <2>5, <3>1, <3>2, BoundsAreNat
  <2>. QED  BY <2>6
<1>. QED  BY <1>1, <1>2, <1>3, Invariant, PTL DEF Spec
-----------------------------------------------------------------------------
\* What a refused rotation leaves of its family. A call that revokes tokens
\* passes over none that is linked, once it has revoked a generation; so a
\* family of which a generation is revoked has no linked token.
Sweeping(c) ==
    \/ pc[c] = "familyTokens"
    \/ /\ OpOf[c] = "revoke" /\ pc[c] \in {"tokens", "commit"}
       /\ \E j \in Generation : Rt(j) \in DOMAIN held[c]

Sweeps(c) ==
    /\ Sweeping(c) =>
           \A k \in Generation : db[Tok(k)] = "linked" => Tok(k) \in todo[c] \cup DOMAIN held[c]
    /\ OpOf[c] = "rotate" /\ pc[c] = "answer" => outcome[c] = "ok"

EndInv ==
    /\ db[Code] = "consumed" => path = "oauth"
    /\ (\E j \in Generation : db[Rt(j)] = "revoked") => \A k \in Generation : db[Tok(k)] # "linked"
    /\ \A c \in Call : Sweeps(c)

\* What a step may do to the family's rows: nothing is revoked or linked; or a
\* token is linked of which no generation is revoked, by the call that inserts
\* the first one or the next; or no linked token is left.
Still == \A k \in Generation : /\ db'[Rt(k)] = "revoked" => db[Rt(k)] = "revoked"
                               /\ db'[Tok(k)] = "linked" => db[Tok(k)] = "linked"
Grows(c) ==
    /\ \A k \in Generation : db'[Rt(k)] # "revoked"
    /\ \/ \A k \in Generation : db[Rt(k)] = "none"
       \/ /\ Family \in DOMAIN held[c]
          /\ \E k \in Generation : db[Rt(k)] = "active" /\ Rt(k) \in DOMAIN held[c]
Swept == \A k \in Generation : db'[Tok(k)] # "linked"

LEMMA FamilyRevokedIsGone ==
    ASSUME Inv, EndInv, NEW c \in Call, FamilyRevoked(c)
    PROVE  \A k \in Generation : db'[Rt(k)] # "active" /\ db'[Tok(k)] # "linked"
<1>. USE RowsDiffer, RowsKnown
<1>1. pc[c] = "familyTokens" /\ todo[c] = {} /\ Commit(c) /\ OpOf[c] = "rotate"
  BY DEF FamilyRevoked, Inv, CallInv, Places
<1>2. /\ \A r \in DOMAIN held[c] : r \in Row /\ db'[r] = held[c][r]
      /\ \A r \in Row \ DOMAIN held[c] : db'[r] = db[r]
  BY <1>1, HeldType, Committing DEF Inv, TypeOK
<1>3. /\ Covers(c)
      /\ \A j \in Generation : Rt(j) \in DOMAIN held[c] => held[c][Rt(j)] \in {"revoked", db[Rt(j)]}
      /\ \A j \in Generation : Tok(j) \in DOMAIN held[c] => held[c][Tok(j)] = "revoked"
  BY <1>1 DEF Inv, CallInv, Rotates
<1>4. ASSUME NEW k \in Generation PROVE db'[Rt(k)] # "active"
  <2>1. CASE Rt(k) \in DOMAIN held[c]
    BY <1>1, <1>2, <1>3, <2>1 DEF Covers
  <2>2. CASE Rt(k) \notin DOMAIN held[c]
    BY <1>1, <1>2, <1>3, <2>2 DEF Covers
  <2>. QED  BY <2>1, <2>2
<1>5. ASSUME NEW k \in Generation PROVE db'[Tok(k)] # "linked"
  <2>1. db[Tok(k)] = "linked" => Tok(k) \in DOMAIN held[c]
    BY <1>1 DEF EndInv, Sweeps, Sweeping
  <2>. QED  BY <1>2, <1>3, <2>1
<1>. QED  BY <1>4, <1>5

LEMMA SuccessMoves ==
    ASSUME Inv, EndInv, NEW c \in Call, CommitSuccess(c)
    PROVE  Still \/ Grows(c) \/ Swept
<1>. USE RowsDiffer, RowsKnown
<1>1. /\ pc[c] = "commit" /\ todo[c] = {} /\ CallInv(c) /\ World
      /\ \A r \in DOMAIN held[c] : r \in Row /\ db'[r] = held[c][r]
      /\ \A r \in Row \ DOMAIN held[c] : db'[r] = db[r]
  BY CommitFrame, AtCommit DEF Inv
<1>2. CASE OpOf[c] = "redeem"
  <2>1. db[Rt(0)] = "none"
    BY <1>1, <1>2 DEF CallInv, Redeems, World, EndInv
  <2>2. \A k \in Generation : db[Rt(k)] = "none"
    <3>1. \A k \in Generation \ {0} : 0 < k
      BY DEF Generation
    <3>. QED  BY <1>1, <2>1, <3>1 DEF World, FamilyIsAChain
  <2>3. CASE path = "oauth"
    <3>1. /\ DOMAIN held[c] \subseteq {Code, Rt(0), Tok(0)}
          /\ Rt(0) \in DOMAIN held[c] /\ held[c][Rt(0)] = "active"
      BY <1>1, <1>2, <2>3 DEF CallInv, Redeems
    <3>2. ASSUME NEW k \in Generation PROVE db'[Rt(k)] # "revoked"
      <4>1. CASE k = 0
        BY <1>1, <3>1, <4>1
      <4>2. CASE k # 0
        <5>1. 0 \in Generation
          BY BoundsAreNat DEF Generation
        <5>2. Rt(k) \in Row \ DOMAIN held[c]
          BY <3>1, <4>2, <5>1
        <5>. QED  BY <1>1, <2>2, <5>2
      <4>. QED  BY <4>1, <4>2
    <3>. QED  BY <2>2, <3>2 DEF Grows
  <2>4. CASE path # "oauth"
    <3>1. arg[c] \in 1..MaxCode /\ DOMAIN held[c] \subseteq {Cex(arg[c]), Tok(0), Grant}
      BY <1>1, <1>2, <2>4 DEF CallInv, Redeems
    <3>2. \A k \in Generation : db'[Rt(k)] = db[Rt(k)]
      BY <1>1, <3>1
    <3>. QED  BY <2>2, <3>2 DEF Grows
  <2>. QED  BY <2>3, <2>4
<1>3. CASE OpOf[c] = "rotate"
  <2>. PICK k \in Nat : k = arg[c]
    BY DEF Inv, TypeOK
  <2>1. /\ k \in 0..(MaxGeneration - 1) /\ k \in Generation /\ db[Rt(k)] = "active"
        /\ DOMAIN held[c] = {Family, Grant, Rt(k), Rt(k + 1), Tok(k + 1)}
        /\ held[c][Rt(k)] = "superseded" /\ held[c][Rt(k + 1)] = "active"
    BY <1>1, <1>3 DEF CallInv, Rotates
  <2>2. \A j \in Generation : j # k => db[Rt(j)] # "revoked"
    <3>1. \A j \in Generation : j < k \/ j = k \/ k < j
      BY <2>1
    <3>. QED  BY <1>1, <2>1, <3>1 DEF World, FamilyIsAChain
  <2>3. ASSUME NEW j \in Generation PROVE db'[Rt(j)] # "revoked"
    BY <1>1, <2>1, <2>2
  <2>. QED  BY <2>1, <2>3 DEF Grows
<1>4. CASE OpOf[c] = "revoke"
  <2>1. /\ \A j \in Generation : Rt(j) \in DOMAIN held[c] => held[c][Rt(j)] = "revoked"
        /\ \A j \in Generation : Tok(j) \in DOMAIN held[c] => held[c][Tok(j)] = "revoked"
    BY <1>1, <1>4 DEF CallInv, Revokes
  <2>2. CASE Sweeping(c)
    <3>1. \A k \in Generation : db[Tok(k)] = "linked" => Tok(k) \in DOMAIN held[c]
      BY <1>1, <2>2 DEF EndInv, Sweeps
    <3>. QED  BY <1>1, <2>1, <3>1 DEF Swept
  <2>3. CASE ~Sweeping(c)
    <3>1. \A j \in Generation : Rt(j) \notin DOMAIN held[c]
      BY <1>1, <1>4, <2>3 DEF Sweeping
    <3>. QED  BY <1>1, <2>1, <3>1 DEF Still
  <2>. QED  BY <2>2, <2>3
<1>. QED  BY <1>1, <1>2, <1>3, <1>4, AtCommit

LEMMA FamilyMoves ==
    ASSUME Inv, EndInv, NEW c \in Call, Step(c) \/ Lost(c)
    PROVE  Still \/ Grows(c) \/ Swept
<1>. USE RowsDiffer, RowsKnown
<1>0. Inv /\ CallInv(c) /\ db \in [Row -> Value]
  BY DEF Inv, TypeOK
<1>1. CASE UNCHANGED db
  BY <1>1 DEF Still
<1>2. CASE Approve(c) \/ Deny(c) \/ DeliverCode(c) \/ Swap(c)
  <2>1. \A k \in Generation : db'[Rt(k)] = db[Rt(k)] /\ (db'[Tok(k)] = db[Tok(k)] \/ db'[Tok(k)] = "bare")
    BY <1>0, <1>2 DEF Approve, Deny, DeliverCode, Swap
  <2>. QED  BY <2>1 DEF Still
<1>3. CASE InsertCode(c)
  <2>1. OpOf[c] = "decide" /\ \A r \in DOMAIN held[c] : r \in Cexes
    BY <1>0, <1>3 DEF InsertCode, CallInv, Places, Decides
  <2>2. \A k \in Generation : db'[Rt(k)] = db[Rt(k)] /\ db'[Tok(k)] = db[Tok(k)]
    BY <1>3, <2>1 DEF InsertCode, Seen
  <2>. QED  BY <2>2 DEF Still
<1>4. CASE FamilyRevoked(c)
  BY <1>4, FamilyRevokedIsGone DEF Swept
<1>5. CASE CommitSuccess(c)
  BY <1>5, SuccessMoves
<1>6. \/ UNCHANGED db
      \/ Approve(c) \/ Deny(c) \/ DeliverCode(c) \/ Swap(c) \/ InsertCode(c)
      \/ FamilyRevoked(c) \/ CommitSuccess(c)
  BY DEF Step, Lost, ApproveStep, ReadConsent, ApproveRefused, DeliverToken, DeliverRefused, Mint,
      DenyRefused, Refuse, RedeemStep, CheckCode, Consume, Link, CodeRefused, LockCex, LockToken,
      ShareGrant, CexRefused, Poll, DeviceRefused, RotateStep, LockFamily, LockGeneration,
      RotationRefused, Issue, ParentGone, RevokeFamily, RevokeFamilyTokens, RevokeStep,
      RevokeGenerations, RevokeTokens, RevokeParent, UpdateRow, Answer
<1>. QED  BY <1>1, <1>2, <1>3, <1>4, <1>5, <1>6

\* While a call sweeps, no other links a token.
LEMMA OthersSweep ==
    ASSUME Inv, EndInv, NEW c \in Call, Step(c) \/ Lost(c), [Next]_vars, NEW d \in Call \ {c}
    PROVE  Sweeps(d)'
<1>. USE RowsDiffer, RowsKnown
<1>1. /\ pc'[d] = pc[d] /\ todo'[d] = todo[d] /\ held'[d] = held[d]
      /\ Still \/ Grows(c) \/ Swept
  BY MovesAlone, FamilyMoves
<1>2. Sweeps(d) /\ CallInv(d) /\ World
  BY DEF EndInv, Inv
<1>3. OpOf[d] = "rotate" /\ pc[d] = "answer" => outcome'[d] = "ok"
  BY <1>2, Succeeding DEF Sweeps, Swap, CommitSuccess, Inv, TypeOK
<1>4. ASSUME Sweeping(d), NEW k \in Generation, db'[Tok(k)] = "linked"
      PROVE  Tok(k) \in todo[d] \cup DOMAIN held[d]
  <2>1. CASE Still
    BY <1>2, <1>4, <2>1 DEF Still, Sweeps
  <2>2. ~Grows(c)
    <3>1. CASE pc[d] = "familyTokens"
      <4>1. Family \in DOMAIN held[d] /\ arg[d] \in Generation /\ db[Rt(arg[d])] # "none"
        BY <1>2, <3>1 DEF CallInv, Places, Rotates
      <4>2. Family \notin DOMAIN held[c]
        BY <4>1 DEF Inv, TypeOK
      <4>. QED  BY <4>1, <4>2 DEF Grows
    <3>2. CASE pc[d] # "familyTokens"
      <4>1. PICK j \in Generation : Rt(j) \in DOMAIN held[d]
        BY <1>4, <3>2 DEF Sweeping
      <4>2. db[Rt(j)] = "active"
        BY <1>2, <1>4, <3>2, <4>1 DEF Sweeping, CallInv, Revokes
      <4>3. Rt(j) \notin DOMAIN held[c]
        BY <4>1 DEF Inv, TypeOK
      <4>4. \A i \in Generation : i < j \/ i = j \/ j < i
        OBVIOUS
      <4>5. \A i \in Generation : db[Rt(i)] = "active" => i = j
        BY <1>2, <4>2, <4>4 DEF World, FamilyIsAChain
      <4>. QED  BY <4>2, <4>3, <4>5 DEF Grows
    <3>. QED  BY <3>1, <3>2
  <2>. QED  BY <1>1, <1>4, <2>1, <2>2 DEF Swept
<1>5. Sweeping(d)' => Sweeping(d)
  BY <1>1 DEF Sweeping
<1>. QED  BY <1>1, <1>3, <1>4, <1>5 DEF Sweeps

LEMMA SweepSteps ==
    ASSUME Inv, EndInv, NEW c \in Call,
           \/ RevokeFamilyTokens(c) \/ RevokeTokens(c) \/ RevokeParent(c) \/ UpdateRow(c)
    PROVE  Sweeps(c)'
<1>. USE RowsDiffer, RowsKnown
<1>0. /\ held \in [Call -> Lock] /\ pc \in [Call -> Point] /\ todo \in [Call -> SUBSET Row]
      /\ CallInv(c) /\ Sweeps(c) /\ db' = db
  BY HeldType DEF Inv, TypeOK, EndInv, RevokeFamilyTokens, RevokeTokens, RevokeParent, UpdateRow
<1>1. CASE RevokeFamilyTokens(c) \/ RevokeTokens(c)
  <2>1. PICK s \in {"familyTokens", "tokens"} : Select(c, s) /\ held' = held
    BY <1>1 DEF RevokeFamilyTokens, RevokeTokens
  <2>2. pc'[c] = s /\ todo'[c] = {r \in TableOf(s) : Matches(s, Seen(c, r))} /\ TableOf(s) = Toks
    BY <1>0, <2>1 DEF Select, Goto, TableOf
  <2>3. ASSUME NEW k \in Generation, db[Tok(k)] = "linked", Tok(k) \notin DOMAIN held[c]
        PROVE  Tok(k) \in todo'[c]
    <3>1. Seen(c, Tok(k)) = "linked"
      BY <2>3 DEF Seen
    <3>2. Matches(s, Seen(c, Tok(k)))
      BY <3>1 DEF Matches
    <3>. QED  BY <2>2, <3>2
  <2>. QED  BY <1>0, <2>1, <2>2, <2>3 DEF Sweeps
<1>2. CASE RevokeParent(c)
  <2>1. /\ pc[c] = "tokens" /\ pc'[c] = "commit" /\ todo' = todo /\ OpOf[c] = "revoke"
        /\ DOMAIN held'[c] = {Grant} \cup DOMAIN held[c]
    BY <1>0, <1>2 DEF RevokeParent, Goto, Hold, CallInv, Places
  <2>2. Sweeping(c)' => Sweeping(c)
    BY <2>1 DEF Sweeping
  <2>. QED  BY <1>0, <2>1, <2>2 DEF Sweeps
<1>3. CASE UpdateRow(c)
  <2>1. PICK r \in todo[c] :
            /\ IF Matches(pc[c], Seen(c, r))
               THEN Hold(c, [q \in {r} |-> IF pc[c] = "closing" THEN "closed" ELSE "revoked"])
               ELSE UNCHANGED held
            /\ todo' = [todo EXCEPT ![c] = @ \ {r}]
    BY <1>3 DEF UpdateRow
  <2>2. /\ pc[c] \in Statement /\ pc' = pc /\ outcome' = outcome
        /\ todo'[c] = todo[c] \ {r} /\ todo[c] \subseteq TableOf(pc[c])
    BY <1>0, <1>3, <2>1 DEF UpdateRow, CallInv, Places
  <2>3. /\ DOMAIN held[c] \subseteq DOMAIN held'[c] /\ DOMAIN held'[c] \subseteq DOMAIN held[c] \cup {r}
        /\ Matches(pc[c], Seen(c, r)) => r \in DOMAIN held'[c]
    <3>1. CASE Matches(pc[c], Seen(c, r))
      BY <1>0, <2>1, <3>1 DEF Hold
    <3>2. CASE ~Matches(pc[c], Seen(c, r))
      BY <1>0, <2>1, <3>2
    <3>. QED  BY <3>1, <3>2
  <2>4. ASSUME Sweeping(c)' PROVE Sweeping(c) /\ pc[c] \in {"familyTokens", "tokens"}
    <3>1. pc[c] \in {"familyTokens", "tokens"}
      BY <2>2, <2>4 DEF Sweeping, Statement
    <3>2. \A j \in Generation : Rt(j) # r
      BY <2>2, <3>1 DEF TableOf
    <3>. QED  BY <2>2, <2>3, <2>4, <3>1, <3>2 DEF Sweeping
  <2>5. ASSUME Sweeping(c)', NEW k \in Generation, db[Tok(k)] = "linked"
        PROVE  Tok(k) \in todo'[c] \cup DOMAIN held'[c]
    <3>1. Tok(k) \in todo[c] \cup DOMAIN held[c] /\ pc[c] \in {"familyTokens", "tokens"}
      BY <1>0, <2>4, <2>5 DEF Sweeps
    <3>2. r = Tok(k) /\ r \notin DOMAIN held[c] => Matches(pc[c], Seen(c, r))
      BY <2>5, <3>1 DEF Seen, Matches
    <3>. QED  BY <2>2, <2>3, <3>1, <3>2
  <2>. QED  BY <1>0, <2>2, <2>5 DEF Sweeps, Statement
<1>. QED  BY <1>1, <1>2, <1>3

\* The steps that leave a call neither sweeping nor answering a rotation.
LEMMA NoSweep ==
    ASSUME NEW c \in Call, pc'[c] \notin {"familyTokens", "tokens"},
           pc'[c] = "commit" => OpOf[c] # "revoke", pc'[c] = "answer" => OpOf[c] # "rotate"
    PROVE  Sweeps(c)'
BY DEF Sweeps, Sweeping

LEMMA ActorSweeps ==
    ASSUME Inv, EndInv, NEW c \in Call, Step(c) \/ Lost(c)
    PROVE  Sweeps(c)'
<1>0. pc \in [Call -> Point] /\ outcome \in [Call -> {"none", "ok"}] /\ CallInv(c)
  BY DEF Inv, TypeOK
<1>1. CASE ApproveStep(c)
  <2>1. pc'[c] \in {"claim", "deliver", "done", "answer", "closing"}
    BY <1>0, <1>1 DEF ApproveStep, ReadConsent, Approve, ApproveRefused, DeliverCode, DeliverToken,
        DeliverRefused, Mint, InsertCode, Deny, DenyRefused, Refuse, Goto
  <2>2. pc'[c] = "answer" => OpOf[c] = "decide"
    BY <1>0, <1>1 DEF ApproveStep, ReadConsent, Approve, ApproveRefused, DeliverCode, DeliverToken,
        DeliverRefused, Mint, InsertCode, Deny, DenyRefused, Refuse, Goto, CallInv, Places
  <2>. QED  BY <2>1, <2>2, NoSweep
<1>2. CASE RedeemStep(c)
  <2>1. pc'[c] \in {"consume", "link", "commit", "token", "share", "swap", "answer", "done"}
    BY <1>0, <1>2 DEF RedeemStep, CheckCode, Consume, Link, CodeRefused, LockCex, LockToken, ShareGrant,
        CexRefused, Poll, Swap, DeviceRefused, Refuse, Goto
  <2>2. pc'[c] \in {"commit", "answer"} => OpOf[c] = "redeem"
    BY <1>0, <1>2 DEF RedeemStep, CheckCode, Consume, Link, CodeRefused, LockCex, LockToken, ShareGrant,
        CexRefused, Poll, Swap, DeviceRefused, Refuse, Goto, CallInv, Places
  <2>. QED  BY <2>1, <2>2, NoSweep
<1>3. CASE \/ LockFamily(c) \/ LockGeneration(c) \/ RotationRefused(c) \/ Issue(c) \/ ParentGone(c)
           \/ RevokeFamily(c) \/ FamilyRevoked(c)
  <2>1. pc'[c] \in {"row", "burn", "parent", "commit", "family", "done"}
    BY <1>0, <1>3 DEF LockFamily, LockGeneration, RotationRefused, Issue, ParentGone, RevokeFamily,
        FamilyRevoked, Refuse, Goto, Select
  <2>2. pc'[c] = "commit" => OpOf[c] = "rotate"
    BY <1>0, <1>3 DEF LockFamily, LockGeneration, RotationRefused, Issue, ParentGone, RevokeFamily,
        FamilyRevoked, Refuse, Goto, Select, CallInv, Places
  <2>. QED  BY <2>1, <2>2, NoSweep
<1>4. CASE RevokeGenerations(c) \/ Answer(c) \/ Lost(c)
  <2>1. pc'[c] \in {"generations", "done"}
    BY <1>0, <1>4 DEF RevokeGenerations, Select, Answer, Lost, Goto
  <2>. QED  BY <2>1, NoSweep
<1>5. CASE CommitSuccess(c)
  BY <1>0, <1>5 DEF CommitSuccess, Goto, Sweeps, Sweeping
<1>6. CASE RevokeFamilyTokens(c) \/ RevokeTokens(c) \/ RevokeParent(c) \/ UpdateRow(c)
  BY <1>6, SweepSteps
<1>. QED
  BY <1>1, <1>2, <1>3, <1>4, <1>5, <1>6 DEF Step, RotateStep, RevokeStep

LEMMA EndsKept == Inv /\ EndInv /\ [Next]_vars => EndInv'
<1>1. CASE UNCHANGED vars
  BY <1>1 DEF vars, EndInv, Sweeps, Sweeping
<1>2. ASSUME Inv, EndInv, Next PROVE EndInv'
  <2>. PICK c \in Call : Step(c) \/ Lost(c)
    BY <1>2 DEF Next
  <2>1. db'[Code] = "consumed" => path' = "oauth"
    BY <1>2, FirstRows, MovesAlone DEF EndInv
  <2>2. ASSUME NEW j \in Generation, db'[Rt(j)] = "revoked", NEW k \in Generation
        PROVE  db'[Tok(k)] # "linked"
    BY <1>2, <2>2, FamilyMoves DEF EndInv, Still, Grows, Swept
  <2>3. \A d \in Call : Sweeps(d)'
    BY <1>2, ActorSweeps, OthersSweep
  <2>. QED  BY <2>1, <2>2, <2>3 DEF EndInv
<1>. QED  BY <1>1, <1>2

\* A rotation that ends without a success, and is not lost.
LEMMA RefusedRotations ==
    ASSUME Inv, EndInv, [Next]_vars, NEW c \in Call, OpOf[c] = "rotate", outcome[c] = "none",
           pc[c] # "done", pc'[c] = "done", faults' = faults
    PROVE  RotationRefused(c) \/ FamilyRevoked(c)
<1>0. /\ pc \in [Call -> Point] /\ faults \in Nat /\ CallInv(c) /\ pc[c] # "answer"
  BY BoundsAreNat DEF Inv, TypeOK, EndInv, Sweeps
<1>. PICK d \in Call : Step(d) \/ Lost(d)
  BY DEF Next, vars
<1>1. d = c
  BY MovesAlone
<1>2. ~Lost(c)
  BY <1>0 DEF Lost
<1>3. ~ApproveStep(c) /\ ~RedeemStep(c)
  BY <1>0 DEF ApproveStep, ReadConsent, Approve, ApproveRefused, DeliverCode, DeliverToken, DeliverRefused,
      Mint, InsertCode, Deny, DenyRefused, RedeemStep, CheckCode, Consume, Link, CodeRefused, LockCex,
      LockToken, ShareGrant, CexRefused, Poll, Swap, DeviceRefused, Idle, CallInv, Places
<1>4. ~RevokeStep(c) /\ ~UpdateRow(c) /\ ~CommitSuccess(c) /\ ~Answer(c)
  BY <1>0 DEF RevokeStep, RevokeGenerations, RevokeTokens, RevokeParent, UpdateRow, CommitSuccess, Answer,
      Goto, Select
<1>5. RotateStep(c) => RotationRefused(c) \/ FamilyRevoked(c)
  BY <1>0 DEF RotateStep, LockFamily, LockGeneration, Issue, ParentGone, RevokeFamily, RevokeFamilyTokens,
      Goto, Select
<1>. QED  BY <1>1, <1>2, <1>3, <1>4, <1>5 DEF Step

\* Whatever rotations, reuses and revocations are under way, a rotation that is
\* refused has left neither a generation nor a token of its family that works:
\* in particular the reuse of a spent generation ends the family
\* (rotatePostgresOAuthRefreshToken).
THEOREM RefusalsEndTheFamily == Spec => RefusalEndsFamily
<1>. DEFINE P == \A c \in Call :
                    /\ OpOf[c] = "rotate" /\ outcome[c] = "none"
                    /\ pc[c] # "done" /\ pc'[c] = "done" /\ faults' = faults
                    => \A k \in Generation : db'[Rt(k)] # "active" /\ db'[Tok(k)] # "linked"
<1>1. Init => EndInv
  <2>1. ASSUME Init PROVE \A r \in Row : db[r] \in {"pending", "none"}
    BY <2>1 DEF Init
  <2>. QED  BY <2>1, RowsKnown DEF Init, EndInv, Sweeps, Sweeping
<1>2. Inv /\ EndInv /\ [Next]_vars => P
  <2>. SUFFICES ASSUME Inv, EndInv, [Next]_vars, NEW c \in Call, OpOf[c] = "rotate", outcome[c] = "none",
                       pc[c] # "done", pc'[c] = "done", faults' = faults, NEW k \in Generation
               PROVE  db'[Rt(k)] # "active" /\ db'[Tok(k)] # "linked"
    OBVIOUS
  <2>1. CASE FamilyRevoked(c)
    BY <2>1, FamilyRevokedIsGone
  <2>2. CASE RotationRefused(c)
    <3>1. db' = db /\ db[Rt(arg[c])] = "revoked"
      BY <2>2 DEF RotationRefused, Refuse
    <3>2. arg[c] \in Generation
      BY <2>2, RowsKnown DEF RotationRefused, Inv, CallInv, Rotates
    <3>3. arg[c] < k \/ arg[c] = k \/ k < arg[c]
      BY <3>2, RowsKnown
    <3>4. db[Rt(k)] # "active"
      BY <3>1, <3>2, <3>3 DEF Inv, World, FamilyIsAChain
    <3>5. db[Tok(k)] # "linked"
      BY <3>1, <3>2 DEF EndInv
    <3>. QED  BY <3>1, <3>4, <3>5
  <2>. QED  BY <2>1, <2>2, RefusedRotations
<1>3. Spec => [][P]_vars
  BY <1>1, <1>2, EndsKept, Invariant, PTL DEF Spec
<1>. QED  BY <1>3 DEF RefusalEndsFamily
=============================================================================
