----------------------------- MODULE AuthServer -----------------------------
(* Rafiki's authorization server: grants, the resource owner's interaction   *)
(* with them, and the access tokens issued for them (packages/auth/src).     *)
(*                                                                           *)
(* Every route handler reads a row, decides, and writes in later statements, *)
(* most of them outside a transaction.  An in-flight handler is an entry of  *)
(* reqs that carries the rows it read; between its read and each of its      *)
(* writes any other handler may run.  A handler that dies (a crash or a      *)
(* failed statement) loses its remaining writes.                             *)
EXTENDS Naturals, Sequences

CONSTANTS
    Grant,          \* grant requests
    Request,        \* handlers that may be in flight at once
    NoGrant,
    MaxTokens       \* bound on the rows of accessTokens

ASSUME NoGrantAssumption == NoGrant \notin Grant

VARIABLES
    grant,          \* grants: kind, state, finalizationReason
    interaction,    \* interactions: state, and whether it has expired
    waited,         \* whether the wait period since lastContinuedAt is over
    tokens,         \* accessTokens, in the order they were inserted
    session,        \* the grant whose nonce the browser's session holds
    reqs,           \* the handlers in flight
    hist            \* what has happened to each grant (for the properties)

vars == <<grant, interaction, waited, tokens, session, reqs, hist>>

\* "direct": no interaction required.  "finish": the client gave a finish
\* method and continues with the interaction reference.  "poll": it polls.
Kinds == {"direct", "finish", "poll"}
States == {"none", "Pending", "Approved", "Finalized"}
Reasons == {"none", "Issued", "Revoked", "Rejected"}
GrantRow == [kind : Kinds, state : States, reason : Reasons]
InteractionRow == [state : {"none", "Pending", "Approved", "Denied"}, expired : BOOLEAN]
TokenRow == [grant : Grant, revoked : BOOLEAN]
Events == {"accepted", "finished", "refinished", "issued", "reissued",
           "revoked", "raced", "cut", "dropped"}
Handlers == [op : {"start", "accept", "reject", "finish", "continue"},
             g : Grant, at : {"read", "created"},
             row : GrantRow, inter : InteractionRow]
Rotations == [op : {"rotate"}, g : Grant, at : {"read", "locked"}, token : Nat]
Idle == [op |-> "idle"]

\* Grants, interactions, tokens and handlers hold values of their types:
\* what finish, continue and revoke write is a state of the state machine.
TypeOK ==
    /\ grant \in [Grant -> GrantRow]
    /\ interaction \in [Grant -> InteractionRow]
    /\ waited \in [Grant -> BOOLEAN]
    /\ tokens \in Seq(TokenRow)
    /\ session \in Grant \cup {NoGrant}
    /\ reqs \in [Request -> Handlers \cup Rotations \cup {Idle}]
    /\ hist \in [Grant -> SUBSET Events]

Init ==
    /\ grant = [g \in Grant |-> [kind |-> "direct", state |-> "none", reason |-> "none"]]
    /\ interaction = [g \in Grant |-> [state |-> "none", expired |-> FALSE]]
    /\ waited = [g \in Grant |-> FALSE]
    /\ tokens = << >>
    /\ session = NoGrant
    /\ reqs = [r \in Request |-> Idle]
    /\ hist = [g \in Grant |-> {}]

-----------------------------------------------------------------------------
isRejectedGrant(row) == row.state = "Finalized" /\ row.reason = "Rejected"
isRevokedGrant(row) == row.state = "Finalized" /\ row.reason = "Revoked"
isContinuableGrant(row) == ~isRejectedGrant(row) /\ ~isRevokedGrant(row)

\* Mutant: the lock is never taken.
LockedNever(g) == FALSE

\* grantService.lock: rotateToken holds the grant's row until it commits, and
\* every update of the row waits for it.  Inserting a token does not.
Locked(g) == \E r \in Request : reqs[r].op = "rotate" /\ reqs[r].g = g /\ reqs[r].at = "locked"

\* What the services write to a row.
newGrant(kind) == [kind |-> kind, reason |-> "none",
                   state |-> IF kind = "direct" THEN "Approved" ELSE "Pending"]
approve(row) == [row EXCEPT !.state = "Approved"]
pend(row) == [row EXCEPT !.state = "Pending"]
finalize(row, reason) == [row EXCEPT !.state = "Finalized", !.reason = reason]
newInteraction == [state |-> "Pending", expired |-> FALSE]
decide(row, choice) == [row EXCEPT !.state = IF choice = "accept" THEN "Approved" ELSE "Denied"]

Begin(r, op, g) ==
    /\ reqs[r] = Idle
    /\ grant[g].state # "none"
    /\ reqs' = [reqs EXCEPT ![r] = [op |-> op, g |-> g, at |-> "read",
                                    row |-> grant[g], inter |-> interaction[g]]]

At(r, ops, step) == reqs[r].op \in ops /\ reqs[r].at = step
End(r) == reqs' = [reqs EXCEPT ![r] = Idle]

\* The handler writes after somebody changed what it had read.
Stale(r) == \/ grant[reqs[r].g] # reqs[r].row
            \/ interaction[reqs[r].g].state # reqs[r].inter.state
Note(g, events) == hist' = [hist EXCEPT ![g] = @ \cup events]
Raced(r) == IF Stale(r) THEN {"raced"} ELSE {}

insertToken(g) == /\ Len(tokens) < MaxTokens
                  /\ tokens' = Append(tokens, [grant |-> g, revoked |-> FALSE])
revokeByGrantId(g) ==
    tokens' = [t \in DOMAIN tokens |->
                  IF tokens[t].grant = g THEN [tokens[t] EXCEPT !.revoked = TRUE] ELSE tokens[t]]

\* introspect: would a resource server be told that token t is active?
introspect(t) == ~tokens[t].revoked /\ ~isRevokedGrant(grant[tokens[t].grant])

\* A second token for the grant, other than by rotation.
Issue(g) == IF "issued" \in hist[g] THEN {"reissued"} ELSE {"issued"}

-----------------------------------------------------------------------------
\* createGrant, without interaction: grant and token in one transaction.
createApprovedGrant(g) ==
    /\ grant[g].state = "none"
    /\ insertToken(g)
    /\ grant' = [grant EXCEPT ![g] = newGrant("direct")]
    /\ Note(g, {"issued"})
    /\ UNCHANGED <<interaction, waited, session, reqs>>

\* createGrant, with interaction: grant and interaction in one transaction.
createPendingGrant(g, kind) ==
    /\ grant[g].state = "none"
    /\ grant' = [grant EXCEPT ![g] = newGrant(kind)]
    /\ interaction' = [interaction EXCEPT ![g] = newInteraction]
    /\ UNCHANGED <<waited, tokens, session, reqs, hist>>

\* Mutant: a revoked grant's interaction may be started.
startRevoked(r, g) ==
    /\ interaction[g].state = "Pending"
    /\ Begin(r, "start", g)
    /\ UNCHANGED <<grant, interaction, waited, tokens, session, hist>>

\* startInteraction reads, then marks the grant pending, whatever it has become.
startInteraction(r, g) ==
    /\ interaction[g].state = "Pending"
    /\ ~isRevokedGrant(grant[g])
    /\ Begin(r, "start", g)
    /\ UNCHANGED <<grant, interaction, waited, tokens, session, hist>>

markPending(r) ==
    LET g == reqs[r].g IN
    /\ At(r, {"start"}, "read")
    /\ ~Locked(g)
    /\ grant' = [grant EXCEPT ![g] = pend(@)]
    /\ session' = g
    /\ Note(g, Raced(r))
    /\ End(r)
    /\ UNCHANGED <<interaction, waited, tokens>>

\* handleInteractionChoice: the identity provider reports the owner's choice.
handleInteractionChoice(r, g, choice) ==
    /\ ~(grant[g].state = "Finalized" /\ grant[g].reason # "Issued")
    /\ interaction[g] = [state |-> "Pending", expired |-> FALSE]
    /\ Begin(r, choice, g)
    /\ UNCHANGED <<grant, interaction, waited, tokens, session, hist>>

patchInteraction(r) ==
    LET g == reqs[r].g IN
    /\ At(r, {"accept", "reject"}, "read")
    /\ interaction' = [interaction EXCEPT ![g] = decide(@, reqs[r].op)]
    /\ Note(g, Raced(r) \cup (IF reqs[r].op = "accept" THEN {"accepted"} ELSE {}))
    /\ End(r)
    /\ UNCHANGED <<grant, waited, tokens, session>>

\* finishInteraction: a live interaction the owner has decided, in the session
\* that started it.  It does not look at whether the grant was finalized.
finishInteraction(r, g) ==
    /\ ~interaction[g].expired
    /\ session = g
    /\ ~isRevokedGrant(grant[g])
    /\ interaction[g].state \in {"Approved", "Denied"}
    /\ Begin(r, "finish", g)
    /\ UNCHANGED <<grant, interaction, waited, tokens, session, hist>>

\* handleFinishableGrant and handleUnfinishableGrant: approve, or reject.
handleFinish(r) ==
    LET g == reqs[r].g IN
    /\ At(r, {"finish"}, "read")
    /\ ~Locked(g)
    /\ grant' = [grant EXCEPT ![g] =
            IF reqs[r].inter.state = "Approved" THEN approve(@) ELSE finalize(@, "Rejected")]
    /\ Note(g, Raced(r) \cup {IF "finished" \in hist[g] THEN "refinished" ELSE "finished"})
    /\ End(r)
    /\ UNCHANGED <<interaction, waited, tokens, session>>

-----------------------------------------------------------------------------
\* continueGrant with an interaction reference (any interactive grant has one),
\* or pollGrantContinuation without one, of an approved grant.
mayContinue(g) ==
    /\ grant[g].kind # "direct"
    /\ isContinuableGrant(grant[g])

mayPoll(g) ==
    /\ grant[g].kind # "finish"
    /\ grant[g].reason # "Revoked"          \* getByContinue leaves these out
    /\ isContinuableGrant(grant[g])

\* Mutant: the grant's state is not looked at.
continuePending(r, g) ==
    /\ waited[g]
    /\ mayContinue(g) \/ mayPoll(g)
    /\ Begin(r, "continue", g)
    /\ UNCHANGED <<grant, interaction, waited, tokens, session, hist>>

continueGrant(r, g) ==
    /\ waited[g]
    /\ mayContinue(g) \/ mayPoll(g)
    /\ grant[g].state = "Approved"
    /\ Begin(r, "continue", g)
    /\ UNCHANGED <<grant, interaction, waited, tokens, session, hist>>

\* pollGrantContinuation of a pending grant: updateLastContinuedAt.
pollPending(g) ==
    /\ waited[g]
    /\ mayPoll(g)
    /\ grant[g].state = "Pending"
    /\ ~Locked(g)
    /\ waited' = [waited EXCEPT ![g] = FALSE]
    /\ UNCHANGED <<grant, interaction, tokens, session, reqs, hist>>

\* accessTokenService.create, in its own statement.
createAccessToken(r) ==
    LET g == reqs[r].g
        others == {q \in Request \ {r} : At(q, {"continue"}, "created") /\ reqs[q].g = g} IN
    /\ At(r, {"continue"}, "read")
    /\ insertToken(g)
    /\ Note(g, Raced(r) \cup Issue(g) \cup (IF others = {} THEN {} ELSE {"raced"}))
    /\ reqs' = [reqs EXCEPT ![r].at = "created"]
    /\ UNCHANGED <<grant, interaction, waited, session>>

\* grantService.finalize(Issued), unconditionally.
finalizeIssued(r) ==
    LET g == reqs[r].g IN
    /\ At(r, {"continue"}, "created")
    /\ ~Locked(g)
    /\ grant' = [grant EXCEPT ![g] = finalize(@, "Issued")]
    /\ Note(g, Raced(r))
    /\ End(r)
    /\ UNCHANGED <<interaction, waited, tokens, session>>

\* revokeGrant, by the client's continuation or the operator: one transaction.
revokeGrant(g) ==
    /\ grant[g].state # "none"
    /\ ~Locked(g)
    /\ grant' = [grant EXCEPT ![g] = finalize(@, "Revoked")]
    /\ revokeByGrantId(g)
    /\ Note(g, {"revoked"})
    /\ UNCHANGED <<interaction, waited, session, reqs>>

-----------------------------------------------------------------------------
\* revokeToken: only a token not revoked yet.
revokeToken(t) ==
    /\ ~tokens[t].revoked
    /\ tokens' = [tokens EXCEPT ![t].revoked = TRUE]
    /\ Note(tokens[t].grant, {"dropped"})
    /\ UNCHANGED <<grant, interaction, waited, session, reqs>>

\* The token middleware finds the token by its management id (not revoked yet).
rotateToken(r, t) ==
    /\ reqs[r] = Idle
    /\ ~tokens[t].revoked
    /\ reqs' = [reqs EXCEPT ![r] = [op |-> "rotate", g |-> tokens[t].grant,
                                    at |-> "read", token |-> t]]
    /\ UNCHANGED <<grant, interaction, waited, tokens, session, hist>>

\* Mutant: a token is rotated whether or not it is still valid.
rotateAnyToken(r) ==
    /\ At(r, {"rotate"}, "read")
    /\ ~Locked(reqs[r].g)
    /\ tokens' = [tokens EXCEPT ![reqs[r].token].revoked = TRUE]
    /\ reqs' = [reqs EXCEPT ![r].at = "locked"]
    /\ UNCHANGED <<grant, interaction, waited, session, hist>>

\* Lock the grant, then revoke the token where it is not revoked yet.  The
\* service drops the transaction it is given: this write is already durable.
rotateRevoke(r) ==
    LET t == reqs[r].token IN
    /\ At(r, {"rotate"}, "read")
    /\ ~Locked(reqs[r].g)
    /\ IF tokens[t].revoked
       THEN End(r) /\ UNCHANGED tokens
       ELSE /\ tokens' = [tokens EXCEPT ![t].revoked = TRUE]
            /\ reqs' = [reqs EXCEPT ![r].at = "locked"]
    /\ UNCHANGED <<grant, interaction, waited, session, hist>>

\* Insert the successor, and commit, which releases the lock.
rotateCreate(r) ==
    /\ At(r, {"rotate"}, "locked")
    /\ insertToken(reqs[r].g)
    /\ End(r)
    /\ UNCHANGED <<grant, interaction, waited, session, hist>>

\* A handler dies before its next write.
Die(r) ==
    /\ reqs[r] # Idle
    /\ Note(reqs[r].g, IF reqs[r].at = "read" THEN {} ELSE {"cut"})
    /\ End(r)
    /\ UNCHANGED <<grant, interaction, waited, tokens, session>>

\* Time: the wait period passes; the interaction expires.
WaitOver(g) ==
    /\ grant[g].state # "none" /\ ~waited[g]
    /\ waited' = [waited EXCEPT ![g] = TRUE]
    /\ UNCHANGED <<grant, interaction, tokens, session, reqs, hist>>

Expire(g) ==
    /\ interaction[g].state # "none" /\ ~interaction[g].expired
    /\ interaction' = [interaction EXCEPT ![g].expired = TRUE]
    /\ UNCHANGED <<grant, waited, tokens, session, reqs, hist>>

Next ==
    \/ \E g \in Grant : \/ createApprovedGrant(g)
                        \/ \E kind \in {"finish", "poll"} : createPendingGrant(g, kind)
                        \/ pollPending(g) \/ revokeGrant(g) \/ WaitOver(g) \/ Expire(g)
    \/ \E r \in Request, g \in Grant :
            \/ startInteraction(r, g) \/ finishInteraction(r, g) \/ continueGrant(r, g)
            \/ \E choice \in {"accept", "reject"} : handleInteractionChoice(r, g, choice)
    \/ \E r \in Request :
            \/ markPending(r) \/ patchInteraction(r) \/ handleFinish(r)
            \/ createAccessToken(r) \/ finalizeIssued(r)
            \/ rotateRevoke(r) \/ rotateCreate(r) \/ Die(r)
    \/ \E t \in DOMAIN tokens : revokeToken(t) \/ \E r \in Request : rotateToken(r, t)

Spec == Init /\ [][Next]_vars

-----------------------------------------------------------------------------
TokensOf(g) == {t \in DOMAIN tokens : tokens[t].grant = g}

\* Whatever handlers overlap or die, a token of an interactive grant exists only
\* if the resource owner accepted the interaction at some time: no interleaving
\* of start, choice, finish and continue issues a token without consent.
ConsentBeforeToken ==
    \A t \in DOMAIN tokens : LET g == tokens[t].grant IN
        grant[g].kind = "direct" \/ "accepted" \in hist[g]

\* Once revokeGrant has run, the grant stays revoked and every token of it,
\* rotated ones included, stays revoked, unless a handler that had read the row
\* before wrote afterwards (finalize, approve and markPending are unconditional).
RevokedForGood ==
    \A g \in Grant : "revoked" \in hist[g] /\ "raced" \notin hist[g] =>
        /\ isRevokedGrant(grant[g])
        /\ \A t \in TokensOf(g) : tokens[t].revoked

\* A grant issued once has at most one live token, however often it is rotated,
\* by however many overlapping rotations; and it has exactly one unless the
\* client dropped it, the grant was revoked, or a rotation is under way or died
\* between its two statements (rotate's revoke is durable before its insert).  It
\* is issued a second one, other than by rotation, only when handlers raced, one
\* died between its token insert and its finalize, the interaction was finished
\* twice, or a grant without interaction is polled.
OneLiveToken ==
    \A g \in Grant :
        LET live == {t \in TokensOf(g) : introspect(t)}
        IN  IF "reissued" \in hist[g]
            THEN \/ hist[g] \cap {"raced", "cut", "refinished"} # {}
                 \/ grant[g].kind = "direct"
            ELSE "issued" \in hist[g] =>
                 /\ \A t, u \in live : t = u
                 /\ live = {} => Locked(g) \/ hist[g] \cap {"dropped", "revoked", "cut"} # {}

\* "The grant request has been finalized, and no more access tokens or
\* interactions can be made" (auth/src/graphql/schema.graphql, of FINALIZED): a
\* finalized grant changes only by being revoked, unless handlers raced or the
\* interaction is finished again, which approves the grant anew.
FinalUnlessRefinished ==
    [][\A g \in Grant : grant[g].state = "Finalized" =>
            \/ grant'[g] = grant[g]
            \/ isRevokedGrant(grant'[g])
            \/ hist'[g] \cap {"raced", "refinished"} # {}]_vars
=============================================================================
