---------------------------- MODULE GrantTokens ----------------------------
(***************************************************************************)
(* One consent request, the grant it becomes, and the tokens handed out    *)
(* under that grant (reference-implementation/server/auth.ts,              *)
(* routes/as-consent.ts).                                                  *)
(*                                                                         *)
(* The owner approves or denies; the client redeems what the approval left *)
(* for it, by an OAuth authorization code, a consent exchange code or a    *)
(* device code, and then trades refresh tokens, each generation for the    *)
(* next; the owner revokes. Every call is a request to the server of its   *)
(* own.                                                                    *)
(*                                                                         *)
(* The database is Postgres at READ COMMITTED: a statement sees what was   *)
(* committed when it began, waits for the rows that another transaction    *)
(* has locked, and tests its condition again on the row it gets. On SQLite *)
(* every transaction runs through at once, which is one of the orders that *)
(* are possible here. A statement that needs no second lock, and a         *)
(* transaction whose only old row is the first it locks, is one step.      *)
(***************************************************************************)
EXTENDS Naturals, FiniteSets

CONSTANTS
    Call,
    OpOf,           \* [Call -> Op]
    Path,           \* bound: the ways of delivery looked at
    MaxGeneration,  \* bound: generations of refresh tokens
    MaxCode,        \* bound: consent exchange codes
    MaxFaults       \* bound: calls and answers lost

Op == {"decide", "redeem", "rotate", "revoke"}

ASSUME OpOfType == OpOf \in [Call -> Op]
ASSUME PathType == Path \subseteq {"oauth", "exchange", "device"}
ASSUME BoundsAreNat == MaxGeneration \in Nat /\ MaxCode \in Nat /\ MaxFaults \in Nat

VARIABLES
    path,           \* how the approved token reaches the client
    db,             \* committed rows
    held,           \* what each transaction has locked, with what it will commit
    todo,           \* rows that the current statement of a call has yet to update
    arg,            \* the generation or the code that a call presents
    pc,
    outcome,        \* "ok" once a call has committed its success
    known,          \* credentials that have reached the client
    faults

vars == <<path, db, held, todo, arg, pc, outcome, known, faults>>
-----------------------------------------------------------------------------
Generation == 0..MaxGeneration

Consent == <<"consent", 0>>     \* pending_consents
Code == <<"code", 0>>           \* oauth_authorization_codes
Cex(i) == <<"cex", i>>          \* consent_exchange_codes
Grant == <<"grant", 0>>
Rt(k) == <<"rt", k>>            \* oauth_refresh_tokens, by generation
Tok(k) == <<"tok", k>>          \* tokens: the approved one, then one a rotation
Family == <<"family", 0>>       \* the advisory lock of the refresh family

Cexes == {Cex(i) : i \in 1..MaxCode}
Rts == {Rt(k) : k \in Generation}
Toks == {Tok(k) : k \in Generation}
Row == {Consent, Code, Grant, Family} \cup Cexes \cup Rts \cup Toks

\* A token is linked when it belongs to the refresh family.
Value == {"none", "pending", "approved", "denied", "consumed", "issued", "open", "closed",
          "active", "superseded", "revoked", "bare", "linked"}

Init ==
    /\ path \in Path
    /\ db = [r \in Row |-> IF r = Consent \/ (r = Code /\ path = "oauth") THEN "pending" ELSE "none"]
    /\ held = [c \in Call |-> <<>>]
    /\ todo = [c \in Call |-> {}]
    /\ arg = [c \in Call |-> 0]
    /\ pc = [c \in Call |-> "idle"]
    /\ outcome = [c \in Call |-> "none"]
    /\ known = {}
    /\ faults = 0

Free(c, r) == \A d \in Call \ {c} : r \notin DOMAIN held[d]
Seen(c, r) == IF r \in DOMAIN held[c] THEN held[c][r] ELSE db[r]

\* c locks the rows in the domain of f, to commit what f says of them.
Hold(c, f) ==
    held' = [held EXCEPT ![c] = [r \in DOMAIN f \cup DOMAIN held[c] |->
                                     IF r \in DOMAIN f THEN f[r] ELSE held[c][r]]]
Keep(c, S) == [r \in S |-> Seen(c, r)]
Release(c) == held' = [held EXCEPT ![c] = <<>>]
Commit(c) == db' = [r \in Row |-> Seen(c, r)] /\ Release(c)

Idle(c, op) == pc[c] = "idle" /\ OpOf[c] = op
Goto(c, to) == pc' = [pc EXCEPT ![c] = to]

\* The transaction of c, if it has one, ends without effect, and so does the call.
Refuse(c) ==
    /\ Goto(c, "done")
    /\ Release(c)
    /\ todo' = [todo EXCEPT ![c] = {}]
    /\ UNCHANGED <<path, db, arg, outcome, known, faults>>

\* introspect
Alive(k) ==
    /\ \/ db[Tok(k)] = "bare"
       \/ db[Tok(k)] = "linked" /\ \E j \in Generation : db[Rt(j)] = "active"
    /\ db[Grant] = "active"
-----------------------------------------------------------------------------
\* approveGrant reads the request. One that is approved already is answered
\* again, as long as its token is alive.
ReadConsent(c) ==
    /\ Idle(c, "decide")
    /\ \/ /\ db[Consent] = "pending"
          /\ Goto(c, "claim")
       \/ /\ db[Consent] \in {"approved", "consumed"} /\ Alive(0)
          /\ Goto(c, "deliver")
    /\ UNCHANGED <<path, db, held, todo, arg, outcome, known, faults>>

\* persistApprovedSingleGrantAtomically: the claim, and the rows it brings.
Approve(c) ==
    /\ pc[c] = "claim" /\ db[Consent] = "pending"
    /\ db' = [db EXCEPT ![Consent] = "approved", ![Grant] = "active", ![Tok(0)] = "bare"]
    /\ Goto(c, "deliver")
    /\ UNCHANGED <<path, held, todo, arg, outcome, known, faults>>

ApproveRefused(c) ==
    /\ \/ /\ Idle(c, "decide")
          /\ db[Consent] # "pending"
          /\ ~(db[Consent] \in {"approved", "consumed"} /\ Alive(0))
       \/ /\ pc[c] = "claim"
          /\ db[Consent] # "pending"
    /\ Refuse(c)

\* denyGrant
Deny(c) ==
    /\ Idle(c, "decide") /\ db[Consent] = "pending"
    /\ db' = [db EXCEPT ![Consent] = "denied"]
    /\ Goto(c, "done")
    /\ UNCHANGED <<path, held, todo, arg, outcome, known, faults>>

DenyRefused(c) == Idle(c, "decide") /\ db[Consent] # "pending" /\ Refuse(c)

\* dispatchApproveResponse. An authorization code is issued once and answered
\* again until it is consumed (issueOrRecoverOAuthAuthorizationCode). Any other
\* approval brings the token itself when it is answered in JSON, and leaves
\* nothing to trade in; answered in HTML it brings a consent exchange code.
DeliverCode(c) ==
    /\ pc[c] = "deliver" /\ path = "oauth"
    /\ db[Code] \in {"pending", "issued"}
    /\ db' = [db EXCEPT ![Code] = "issued"]
    /\ Goto(c, "answer")
    /\ UNCHANGED <<path, held, todo, arg, outcome, known, faults>>

DeliverToken(c) ==
    /\ pc[c] = "deliver" /\ path # "oauth"
    /\ Goto(c, "done")
    /\ UNCHANGED <<path, db, held, todo, arg, outcome, known, faults>>

DeliverRefused(c) ==
    /\ pc[c] = "deliver"
    /\ \/ path = "oauth" /\ db[Code] = "consumed"
       \/ path # "oauth" /\ ~Alive(0)
    /\ Refuse(c)

\* createConsentExchangeCode: the codes that are open are closed, one by one,
\* before another is inserted. The new row refers to the token's, and waits for
\* a redeemer that has locked it FOR UPDATE.
Mint(c) ==
    /\ pc[c] = "deliver" /\ path # "oauth" /\ Alive(0)
    /\ todo' = [todo EXCEPT ![c] = {r \in Cexes : db[r] = "open"}]
    /\ Goto(c, "closing")
    /\ UNCHANGED <<path, db, held, arg, outcome, known, faults>>

InsertCode(c) ==
    /\ pc[c] = "closing" /\ todo[c] = {}
    /\ \A d \in Call \ {c} : OpOf[d] = "redeem" => Tok(0) \notin DOMAIN held[d]
    /\ \E i \in 1..MaxCode :
           /\ db[Cex(i)] = "none" /\ \A j \in 1..(i - 1) : db[Cex(j)] # "none"
           /\ db' = [r \in Row |-> IF r = Cex(i) THEN "open" ELSE Seen(c, r)]
           /\ arg' = [arg EXCEPT ![c] = i]
    /\ Release(c)
    /\ Goto(c, "answer")
    /\ UNCHANGED <<path, todo, outcome, known, faults>>
-----------------------------------------------------------------------------
\* exchangeOAuthAuthorizationCode: the code is read and the token introspected
\* before the transaction begins.
CheckCode(c) ==
    /\ Idle(c, "redeem") /\ Code \in known
    /\ db[Code] = "issued" /\ Alive(0)
    /\ Goto(c, "consume")
    /\ UNCHANGED <<path, db, held, todo, arg, outcome, known, faults>>

\* Mutant: the UPDATE does not test the status again.
ConsumeUntested(c) ==
    /\ pc[c] = "consume" /\ Free(c, Code)
    /\ Hold(c, [r \in {Code, Rt(0)} |-> IF r = Code THEN "consumed" ELSE "active"])
    /\ Goto(c, "link")
    /\ UNCHANGED <<path, db, todo, arg, outcome, known, faults>>

\* consumeOAuthAuthorizationCodeAtomically
Consume(c) ==
    /\ pc[c] = "consume" /\ Free(c, Code) /\ db[Code] = "issued"
    /\ Hold(c, [r \in {Code, Rt(0)} |-> IF r = Code THEN "consumed" ELSE "active"])
    /\ Goto(c, "link")
    /\ UNCHANGED <<path, db, todo, arg, outcome, known, faults>>

Link(c) ==
    /\ pc[c] = "link" /\ Free(c, Tok(0))
    /\ Hold(c, [r \in {Tok(0)} |-> IF db[r] = "bare" THEN "linked" ELSE db[r]])
    /\ Goto(c, "commit")
    /\ UNCHANGED <<path, db, todo, arg, outcome, known, faults>>

CodeRefused(c) ==
    /\ \/ Idle(c, "redeem") /\ Code \in known /\ ~(db[Code] = "issued" /\ Alive(0))
       \/ pc[c] = "consume" /\ Free(c, Code) /\ db[Code] # "issued"
    /\ Refuse(c)

\* consumeConsentExchangeCode locks the code, its token, and shares the grant.
\* The codes are those of a request without a recovery proof.
LockCex(c) ==
    /\ Idle(c, "redeem")
    /\ \E i \in 1..MaxCode :
           /\ Cex(i) \in known /\ Free(c, Cex(i))
           /\ Hold(c, Keep(c, {Cex(i)}))
           /\ arg' = [arg EXCEPT ![c] = i]
    /\ Goto(c, "token")
    /\ UNCHANGED <<path, db, todo, outcome, known, faults>>

LockToken(c) ==
    /\ pc[c] = "token" /\ Free(c, Tok(0))
    /\ db[Tok(0)] # "revoked" /\ db[Cex(arg[c])] = "open"
    /\ Hold(c, Keep(c, {Tok(0)}))
    /\ Goto(c, "share")
    /\ UNCHANGED <<path, db, todo, arg, outcome, known, faults>>

\* loadPostgresConsentExchangeGrant; the code is then marked as redeemed.
ShareGrant(c) ==
    /\ pc[c] = "share" /\ Free(c, Grant) /\ db[Grant] = "active"
    /\ Hold(c, [r \in {Grant, Cex(arg[c])} |-> IF r = Grant THEN db[r] ELSE "closed"])
    /\ Goto(c, "commit")
    /\ UNCHANGED <<path, db, todo, arg, outcome, known, faults>>

CexRefused(c) ==
    /\ \/ /\ pc[c] = "token" /\ Free(c, Tok(0))
          /\ db[Tok(0)] = "revoked" \/ db[Cex(arg[c])] # "open"
       \/ pc[c] = "share" /\ Free(c, Grant) /\ db[Grant] # "active"
    /\ Refuse(c)

\* exchangeGrantScopedDeviceCode: the request is read and its token introspected,
\* and then consumed by a compare with what was read.
Poll(c) ==
    /\ Idle(c, "redeem") /\ path = "device"
    /\ db[Consent] = "approved" /\ Alive(0)
    /\ Goto(c, "swap")
    /\ UNCHANGED <<path, db, held, todo, arg, outcome, known, faults>>

Swap(c) ==
    /\ pc[c] = "swap" /\ db[Consent] = "approved"
    /\ db' = [db EXCEPT ![Consent] = "consumed"]
    /\ outcome' = [outcome EXCEPT ![c] = "ok"]
    /\ Goto(c, "answer")
    /\ UNCHANGED <<path, held, todo, arg, known, faults>>

DeviceRefused(c) ==
    /\ \/ Idle(c, "redeem") /\ path = "device" /\ ~(db[Consent] = "approved" /\ Alive(0))
       \/ pc[c] = "swap" /\ db[Consent] # "approved"
    /\ Refuse(c)
-----------------------------------------------------------------------------
\* An UPDATE of many rows selects them all, and then waits for, tests and
\* writes one after the other.
Statement == {"closing", "generations", "tokens", "family", "familyTokens"}

TableOf(s) == CASE s = "closing" -> Cexes
                [] s \in {"generations", "family"} -> Rts
                [] s \in {"tokens", "familyTokens"} -> Toks

\* The condition of the UPDATE.
Matches(s, v) ==
    CASE s = "closing" -> v = "open"
      [] s = "generations" -> v = "active"
      [] s = "tokens" -> v # "none"
      [] s = "family" -> v \in {"active", "superseded"}
      [] s = "familyTokens" -> v = "linked"

Select(c, s) ==
    /\ todo' = [todo EXCEPT ![c] = {r \in TableOf(s) : Matches(s, Seen(c, r))}]
    /\ Goto(c, s)

UpdateRow(c) ==
    /\ pc[c] \in Statement
    /\ \E r \in todo[c] :
           /\ \A q \in todo[c] : r[2] <= q[2]
           /\ Free(c, r)
           /\ IF Matches(pc[c], Seen(c, r))
              THEN Hold(c, [q \in {r} |-> IF pc[c] = "closing" THEN "closed" ELSE "revoked"])
              ELSE UNCHANGED held
           /\ todo' = [todo EXCEPT ![c] = @ \ {r}]
    /\ UNCHANGED <<path, db, arg, pc, outcome, known, faults>>

\* Mutant: generations are not serialized by a lock of their family.
LockNoFamily(c) ==
    /\ Idle(c, "rotate")
    /\ \E k \in 0..(MaxGeneration - 1) :
           /\ Rt(k) \in known
           /\ arg' = [arg EXCEPT ![c] = k]
    /\ Goto(c, "row")
    /\ UNCHANGED <<path, db, held, todo, outcome, known, faults>>

\* rotatePostgresOAuthRefreshToken: the family's advisory lock, then the row of
\* the generation that is presented.
LockFamily(c) ==
    /\ Idle(c, "rotate")
    /\ \E k \in 0..(MaxGeneration - 1) :
           /\ Rt(k) \in known /\ Free(c, Family)
           /\ Hold(c, Keep(c, {Family}))
           /\ arg' = [arg EXCEPT ![c] = k]
    /\ Goto(c, "row")
    /\ UNCHANGED <<path, db, todo, outcome, known, faults>>

\* A generation that is superseded has been used before; an active one goes on.
LockGeneration(c) ==
    /\ pc[c] = "row" /\ Free(c, Rt(arg[c]))
    /\ \/ db[Rt(arg[c])] = "superseded" /\ Goto(c, "burn")
       \/ db[Rt(arg[c])] = "active" /\ Goto(c, "parent")
    /\ Hold(c, Keep(c, {Rt(arg[c])}))
    /\ UNCHANGED <<path, db, todo, arg, outcome, known, faults>>

RotationRefused(c) ==
    /\ pc[c] = "row" /\ Free(c, Rt(arg[c]))
    /\ db[Rt(arg[c])] = "revoked"
    /\ Refuse(c)

\* Mutant: the parent is read without a lock.
IssueUnlocked(c) ==
    /\ pc[c] = "parent" /\ db[Grant] = "active"
    /\ LET k == arg[c]
       IN  Hold(c, [r \in {Tok(k + 1), Rt(k), Rt(k + 1)} |->
                       CASE r = Tok(k + 1) -> "linked"
                         [] r = Rt(k) -> "superseded"
                         [] r = Rt(k + 1) -> "active"])
    /\ Goto(c, "commit")
    /\ UNCHANGED <<path, db, todo, arg, outcome, known, faults>>

\* issuePostgresRefreshGrantAccessToken locks the parent and inserts a token;
\* then this generation is superseded and the next one inserted.
Issue(c) ==
    /\ pc[c] = "parent" /\ Free(c, Grant) /\ db[Grant] = "active"
    /\ LET k == arg[c]
       IN  Hold(c, [r \in {Grant, Tok(k + 1), Rt(k), Rt(k + 1)} |->
                       CASE r = Grant -> db[r]
                         [] r = Tok(k + 1) -> "linked"
                         [] r = Rt(k) -> "superseded"
                         [] r = Rt(k + 1) -> "active"])
    /\ Goto(c, "commit")
    /\ UNCHANGED <<path, db, todo, arg, outcome, known, faults>>

ParentGone(c) ==
    /\ pc[c] = "parent" /\ Free(c, Grant) /\ db[Grant] # "active"
    /\ Hold(c, Keep(c, {Grant}))
    /\ Goto(c, "burn")
    /\ UNCHANGED <<path, db, todo, arg, outcome, known, faults>>

\* Mutant: the refusal rolls back what it revoked; a reuse is refused, and no more.
RevocationRolledBack(c) ==
    /\ pc[c] = "familyTokens" /\ todo[c] = {}
    /\ Refuse(c)

\* The family is revoked, its generations and then its tokens.
RevokeFamily(c) ==
    /\ pc[c] = "burn"
    /\ Select(c, "family")
    /\ UNCHANGED <<path, db, held, arg, outcome, known, faults>>

RevokeFamilyTokens(c) ==
    /\ pc[c] = "family" /\ todo[c] = {}
    /\ Select(c, "familyTokens")
    /\ UNCHANGED <<path, db, held, arg, outcome, known, faults>>

FamilyRevoked(c) ==
    /\ pc[c] = "familyTokens" /\ todo[c] = {}
    /\ Commit(c)
    /\ Goto(c, "done")
    /\ UNCHANGED <<path, todo, arg, outcome, known, faults>>
-----------------------------------------------------------------------------
\* Mutant: a revocation marks the grant first.
RevokeGrantFirst(c) ==
    /\ Idle(c, "revoke") /\ db[Grant] # "none" /\ Free(c, Grant)
    /\ Hold(c, [r \in {Grant} |-> "revoked"])
    /\ Select(c, "generations")
    /\ UNCHANGED <<path, db, arg, outcome, known, faults>>

\* revokeGrantStorage: refresh rows, tokens, then the parent.
RevokeGenerations(c) ==
    /\ Idle(c, "revoke") /\ db[Grant] # "none"
    /\ Select(c, "generations")
    /\ UNCHANGED <<path, db, held, arg, outcome, known, faults>>

RevokeTokens(c) ==
    /\ pc[c] = "generations" /\ todo[c] = {}
    /\ Select(c, "tokens")
    /\ UNCHANGED <<path, db, held, arg, outcome, known, faults>>

RevokeParent(c) ==
    /\ pc[c] = "tokens" /\ todo[c] = {} /\ Free(c, Grant)
    /\ Hold(c, [r \in {Grant} |-> "revoked"])
    /\ Goto(c, "commit")
    /\ UNCHANGED <<path, db, todo, arg, outcome, known, faults>>

CommitSuccess(c) ==
    /\ pc[c] = "commit"
    /\ Commit(c)
    /\ Goto(c, "answer")
    /\ outcome' = [outcome EXCEPT ![c] = "ok"]
    /\ UNCHANGED <<path, todo, arg, known, faults>>

\* What an answer brings to the client.
Learned(c) ==
    CASE OpOf[c] = "decide" -> {IF path = "oauth" THEN Code ELSE Cex(arg[c])}
      [] OpOf[c] = "redeem" /\ path = "oauth" -> {Rt(0)}
      [] OpOf[c] = "rotate" -> {Rt(arg[c] + 1)}
      [] OTHER -> {}

Answer(c) ==
    /\ pc[c] = "answer"
    /\ known' = known \cup Learned(c)
    /\ Goto(c, "done")
    /\ UNCHANGED <<path, db, held, todo, arg, outcome, faults>>

\* The process or the connection fails: what is not committed is rolled back,
\* and the answer is lost.
Lost(c) ==
    /\ pc[c] \notin {"idle", "done"} /\ faults < MaxFaults
    /\ faults' = faults + 1
    /\ Goto(c, "done")
    /\ Release(c)
    /\ todo' = [todo EXCEPT ![c] = {}]
    /\ UNCHANGED <<path, db, arg, outcome, known>>

ApproveStep(c) ==
    \/ ReadConsent(c) \/ Approve(c) \/ ApproveRefused(c)
    \/ DeliverCode(c) \/ DeliverToken(c) \/ DeliverRefused(c) \/ Mint(c) \/ InsertCode(c)
    \/ Deny(c) \/ DenyRefused(c)

RedeemStep(c) ==
    \/ CheckCode(c) \/ Consume(c) \/ Link(c) \/ CodeRefused(c)
    \/ LockCex(c) \/ LockToken(c) \/ ShareGrant(c) \/ CexRefused(c)
    \/ Poll(c) \/ Swap(c) \/ DeviceRefused(c)

RotateStep(c) ==
    \/ LockFamily(c) \/ LockGeneration(c) \/ RotationRefused(c) \/ Issue(c) \/ ParentGone(c)
    \/ RevokeFamily(c) \/ RevokeFamilyTokens(c) \/ FamilyRevoked(c)

RevokeStep(c) == RevokeGenerations(c) \/ RevokeTokens(c) \/ RevokeParent(c)

Step(c) ==
    \/ ApproveStep(c) \/ RedeemStep(c) \/ RotateStep(c) \/ RevokeStep(c)
    \/ UpdateRow(c) \/ CommitSuccess(c) \/ Answer(c)

Next == \E c \in Call : Step(c) \/ Lost(c)

Spec == Init /\ [][Next]_vars

\* A call that has begun goes on, as long as it gets the locks it waits for.
FairSpec == Spec /\ \A c \in Call : WF_vars(pc[c] # "idle" /\ Step(c))
-----------------------------------------------------------------------------
Point == {"idle", "claim", "deliver", "consume", "link", "token", "share", "swap", "row",
          "parent", "burn", "commit", "answer", "done"} \cup Statement

\* Every variable has its type, and no row is locked by two calls.
TypeOK ==
    /\ path \in Path
    /\ db \in [Row -> Value]
    /\ held \in [Call -> UNION {[S -> Value] : S \in SUBSET Row}]
    /\ \A c, d \in Call : c # d => DOMAIN held[c] \cap DOMAIN held[d] = {}
    /\ todo \in [Call -> SUBSET Row]
    /\ arg \in [Call -> Nat]
    /\ pc \in [Call -> Point]
    /\ outcome \in [Call -> {"none", "ok"}]
    /\ known \subseteq Row
    /\ faults \in 0..MaxFaults

\* The generations of a refresh token are a chain: all but the newest are spent,
\* and when one of them has been revoked none is active. So a token that was
\* used twice leaves no generation behind that still works, whatever rotations
\* and revocations are under way (token reuse, auth.ts).
FamilyIsAChain ==
    \A j, k \in Generation :
        j < k /\ db[Rt(k)] # "none" => /\ db[Rt(j)] \in {"superseded", "revoked"}
                                       /\ "revoked" \in {db[Rt(j)], db[Rt(k)]} =>
                                              "active" \notin {db[Rt(j)], db[Rt(k)]}

\* A redemption that presents a consent exchange code.
PresentsCex(c) == OpOf[c] = "redeem" /\ path # "oauth" /\ arg[c] # 0

\* A code or a generation is traded in once: of all the calls that present it,
\* at most one commits a success, however their reads and writes interleave.
RedeemedOnce ==
    \A c, d \in Call :
        /\ OpOf[c] = OpOf[d] /\ OpOf[c] \in {"redeem", "rotate"}
        /\ outcome[c] = "ok" /\ outcome[d] = "ok" /\ arg[c] = arg[d]
        => c = d

\* A rotation, and the redemption of a consent exchange code, succeed only while
\* the grant is active: no revocation commits between their look at the grant
\* and their own commit.
HandedOutWhileActive ==
    [][\A c \in Call :
          /\ outcome[c] = "none" /\ outcome'[c] = "ok"
          /\ OpOf[c] = "rotate" \/ PresentsCex(c)
          => db[Grant] = "active" /\ db'[Grant] = "active"]_vars

\* A rotation that is refused for what became of its generation or its grant
\* leaves nothing of the family that works, neither a generation nor a token: the
\* reuse of a spent generation, and a rotation that finds its grant gone, end the
\* family in the transaction that refuses them (rotatePostgresOAuthRefreshToken).
RefusalEndsFamily ==
    [][\A c \in Call :
          /\ OpOf[c] = "rotate" /\ outcome[c] = "none"
          /\ pc[c] # "done" /\ pc'[c] = "done" /\ faults' = faults
          => \A k \in Generation : db'[Rt(k)] # "active" /\ db'[Tok(k)] # "linked"]_vars

\* Every call that has begun ends: calls that wait for each other's rows never
\* do so in a circle.
NobodyWaitsForever == <>[](\A c \in Call : pc[c] \in {"idle", "done"})
=============================================================================
