-------------------------- MODULE AuthServerProofs --------------------------
(* Theorems about AuthServer, for all grants, handlers and bounds. *)
EXTENDS AuthServer, TLAPS

Handler(r) == reqs[r].op \in {"start", "accept", "reject", "finish", "continue"}
Consented(g) == grant[g].kind = "direct" \/ "accepted" \in hist[g]

\* A rotation's token is a token of its grant.
TokensAreThere ==
    \A r \in Request : reqs[r].op = "rotate" =>
        reqs[r].token \in DOMAIN tokens /\ tokens[reqs[r].token].grant = reqs[r].g

\* Nothing refers to a grant or a token that does not exist yet.
Exists ==
    /\ TokensAreThere
    /\ \A r \in Request : reqs[r] # Idle => grant[reqs[r].g].state # "none"
    /\ \A t \in DOMAIN tokens : grant[tokens[t].grant].state # "none"

\* Consent travels from the interaction's row through the finish handler's copy
\* of it, the grant's row and the continue handler to the token.
ConsentTravels ==
    /\ \A g \in Grant : interaction[g].state = "Approved" => "accepted" \in hist[g]
    /\ \A g \in Grant : grant[g].state = "Approved" => Consented(g)
    /\ \A r \in Request : reqs[r].op = "finish" /\ reqs[r].inter.state = "Approved"
            => "accepted" \in hist[reqs[r].g]
    /\ \A r \in Request : reqs[r].op = "continue" => Consented(reqs[r].g)

\* No handler starts from a revoked row, so one that writes after a revocation
\* writes a row it has not read; and no rotation holds the lock of a revoked grant.
HandlersPredateRevocation ==
    /\ \A r \in Request : Handler(r) => ~isRevokedGrant(reqs[r].row)
    /\ \A r \in Request : reqs[r].op = "rotate" /\ reqs[r].at = "locked"
            => "revoked" \notin hist[reqs[r].g] \/ "raced" \in hist[reqs[r].g]

\* An interactive grant is approved, rejected or issued only after its
\* interaction was finished, which the owner's decision precedes; a handler
\* that starts an interaction has read a pending grant, one that continues an
\* approved one.
FinishedFirst ==
    /\ \A g \in Grant : grant[g].state = "none" => hist[g] = {}
    /\ \A g \in Grant : interaction[g].state # "none"
            => grant[g].kind # "direct" /\ grant[g].state # "none"
    /\ \A g \in Grant : "finished" \in hist[g] => interaction[g].state \in {"Approved", "Denied"}
    /\ \A g \in Grant : grant[g].kind # "direct" /\ grant[g].state \in {"Approved", "Finalized"}
            => isRevokedGrant(grant[g]) \/ "finished" \in hist[g]
    /\ \A g \in Grant : grant[g].kind # "direct" /\ "issued" \in hist[g] => "finished" \in hist[g]
    /\ \A r \in Request : reqs[r].op \in {"accept", "reject"}
            => interaction[reqs[r].g].state # "none"
    /\ \A r \in Request : reqs[r].op = "finish"
            => interaction[reqs[r].g].state \in {"Approved", "Denied"}
    /\ \A r \in Request : reqs[r].op = "continue"
            => grant[reqs[r].g].kind = "direct" \/ "finished" \in hist[reqs[r].g]
    /\ \A r \in Request : reqs[r].op = "start" => reqs[r].row.state = "Pending"
    /\ \A r \in Request : reqs[r].op = "continue" => reqs[r].row.state = "Approved"

\* The handlers between their token insert and their finalize.
Finalizing(g) == \E r \in Request : At(r, {"continue"}, "created") /\ reqs[r].g = g
Disturbed(g) == hist[g] \cap {"raced", "cut", "refinished"} # {}

\* An interactive grant that was issued is not approved any more, unless the
\* handler that issued it is about to finalize it.
IssuedOnce ==
    \A g \in Grant : grant[g].kind # "direct" /\ ~Disturbed(g) =>
        /\ "reissued" \notin hist[g]
        /\ "issued" \in hist[g] /\ grant[g].state = "Approved" => Finalizing(g)

Unrevoked(g) == {t \in TokensOf(g) : ~tokens[t].revoked}

\* One rotation at a time holds a grant's lock, and it has revoked the one token
\* the grant had.
TokenTurns ==
    /\ \A t \in DOMAIN tokens : "issued" \in hist[tokens[t].grant]
    /\ \A r, q \in Request : At(r, {"rotate"}, "locked") /\ At(q, {"rotate"}, "locked")
            /\ reqs[r].g = reqs[q].g => r = q
    /\ \A g \in Grant : "reissued" \notin hist[g] =>
            /\ \A t, u \in Unrevoked(g) : t = u
            /\ Locked(g) => Unrevoked(g) = {}
    /\ \A g \in Grant : "issued" \in hist[g] /\ Unrevoked(g) = {} =>
            Locked(g) \/ hist[g] \cap {"dropped", "revoked", "cut"} # {}
    /\ \A g \in Grant : isRevokedGrant(grant[g]) => "revoked" \in hist[g]


IInv == /\ TypeOK /\ Exists /\ ConsentTravels /\ ConsentBeforeToken
        /\ HandlersPredateRevocation /\ RevokedForGood
        /\ FinishedFirst /\ IssuedOnce /\ TokenTurns
-----------------------------------------------------------------------------
\* What the helpers do, point by point.

\* A busy entry of reqs is a handler's or a rotation's.
LEMMA ReqTypes ==
    ASSUME TypeOK, NEW r \in Request
    PROVE  /\ Handler(r) => reqs[r] \in Handlers
           /\ reqs[r].op = "rotate" => reqs[r] \in Rotations
           /\ reqs[r] # Idle => reqs[r].g \in Grant
           /\ Idle.op = "idle"
BY DEF TypeOK, Handler, Handlers, Rotations, Idle

\* The rows of accessTokens are numbered from 1.
LEMMA TokenRows ==
    ASSUME TypeOK
    PROVE  /\ tokens \in Seq(TokenRow) /\ Len(tokens) \in Nat /\ DOMAIN tokens = 1 .. Len(tokens)
           /\ \A t \in DOMAIN tokens : tokens[t] \in TokenRow
BY DEF TypeOK

\* Every grant referred to is one.
LEMMA GrantTypes ==
    ASSUME TypeOK
    PROVE  /\ \A q \in Request : reqs[q] # Idle => reqs[q].g \in Grant
           /\ \A t \in DOMAIN tokens : tokens[t].grant \in Grant
<1>1. \A q \in Request : reqs[q] # Idle => reqs[q].g \in Grant
    BY Zenon, ReqTypes
<1>2. \A t \in DOMAIN tokens : tokens[t] \in TokenRow
    BY Zenon, TokenRows
<1> QED BY Zenon, <1>1, <1>2 DEF TokenRow

\* End frees the one entry.
LEMMA Ended ==
    ASSUME TypeOK, NEW r \in Request, End(r)
    PROVE  /\ reqs' \in [Request -> Handlers \cup Rotations \cup {Idle}]
           /\ \A q \in Request : reqs'[q] = IF q = r THEN Idle ELSE reqs[q]
BY Zenon DEF TypeOK, End

\* Note adds events to the one grant's history.
LEMMA Noted ==
    ASSUME TypeOK, NEW g \in Grant, NEW ev \in SUBSET Events, Note(g, ev)
    PROVE  /\ hist' \in [Grant -> SUBSET Events]
           /\ \A x \in Grant : hist'[x] = IF x = g THEN hist[x] \cup ev ELSE hist[x]
BY Zenon DEF TypeOK, Note

\* The services change the state and the reason, never the kind.
LEMMA RowsWritten ==
    ASSUME NEW row \in GrantRow, NEW reason \in Reasons
    PROVE  /\ approve(row) \in GrantRow /\ approve(row).kind = row.kind
           /\ approve(row).state = "Approved"
           /\ pend(row) \in GrantRow /\ pend(row).kind = row.kind
           /\ pend(row).state = "Pending"
           /\ finalize(row, reason) \in GrantRow /\ finalize(row, reason).kind = row.kind
           /\ finalize(row, reason).state = "Finalized" /\ finalize(row, reason).reason = reason
BY Zenon DEF approve, pend, finalize, GrantRow, States, Reasons

\* A new token is live and leaves the others as they are.
LEMMA Inserted ==
    ASSUME TypeOK, NEW g \in Grant, insertToken(g)
    PROVE  /\ tokens' \in Seq(TokenRow)
           /\ DOMAIN tokens \subseteq DOMAIN tokens'
           /\ \E n : n \notin DOMAIN tokens /\ DOMAIN tokens' = DOMAIN tokens \cup {n}
           /\ \A t \in DOMAIN tokens' : IF t \in DOMAIN tokens THEN tokens'[t] = tokens[t]
                                         ELSE tokens'[t] = [grant |-> g, revoked |-> FALSE]
<1>1. [grant |-> g, revoked |-> FALSE] \in TokenRow
    BY Zenon DEF TokenRow
<1>2. tokens \in Seq(TokenRow) /\ tokens' = Append(tokens, [grant |-> g, revoked |-> FALSE])
    BY Zenon DEF TypeOK, insertToken
<1>3. /\ tokens' \in Seq(TokenRow) /\ Len(tokens') = Len(tokens) + 1
      /\ \A i \in 1 .. Len(tokens) : tokens'[i] = tokens[i]
      /\ tokens'[Len(tokens) + 1] = [grant |-> g, revoked |-> FALSE]
    BY <1>1, <1>2
<1>4. /\ DOMAIN tokens = 1 .. Len(tokens) /\ Len(tokens) \in Nat
      /\ DOMAIN tokens' = 1 .. Len(tokens) + 1
    BY <1>3, TokenRows
<1>5. /\ Len(tokens) + 1 \notin DOMAIN tokens
      /\ DOMAIN tokens' = DOMAIN tokens \cup {Len(tokens) + 1}
    BY <1>4
<1> QED BY Zenon, <1>3, <1>4, <1>5

\* Revoking one token leaves the others as they are.
LEMMA Revoked ==
    ASSUME TypeOK, NEW t \in DOMAIN tokens, tokens' = [tokens EXCEPT ![t].revoked = TRUE]
    PROVE  /\ tokens' \in Seq(TokenRow)
           /\ DOMAIN tokens' = DOMAIN tokens
           /\ tokens'[t].grant = tokens[t].grant /\ tokens'[t].revoked
           /\ \A u \in DOMAIN tokens : u # t => tokens'[u] = tokens[u]
<1>1. tokens \in Seq(TokenRow) /\ t \in 1 .. Len(tokens)
    BY Zenon, TokenRows
<1>2. tokens[t] \in TokenRow
    BY Zenon, TokenRows
<1>3. [tokens[t] EXCEPT !.revoked = TRUE] \in TokenRow
    BY Zenon, <1>2 DEF TokenRow
<1>4. tokens' = [tokens EXCEPT ![t] = [tokens[t] EXCEPT !.revoked = TRUE]]
    BY Zenon
<1>5. tokens' \in Seq(TokenRow)
    BY <1>1, <1>3, <1>4
<1> QED BY Zenon, <1>2, <1>4, <1>5 DEF TokenRow

\* A new token adds itself to the valid tokens of its grant.
LEMMA NewToken ==
    ASSUME TypeOK, NEW g \in Grant, insertToken(g)
    PROVE  \E n \in DOMAIN tokens' : \A x \in Grant :
                Unrevoked(x)' = IF x = g THEN Unrevoked(x) \cup {n} ELSE Unrevoked(x)
<1>1. PICK n : n \notin DOMAIN tokens /\ DOMAIN tokens' = DOMAIN tokens \cup {n}
    BY Zenon, Inserted
<1>4. tokens'[n] = [grant |-> g, revoked |-> FALSE]
    BY Zenon, <1>1, Inserted
<1>2. tokens'[n].grant = g /\ ~tokens'[n].revoked
    BY <1>4
<1>3. \A t \in DOMAIN tokens : tokens'[t] = tokens[t]
    BY Zenon, <1>1, Inserted
<1> QED BY Zenon, <1>1, <1>2, <1>3 DEF Unrevoked, TokensOf

\* Revoking a token takes it, and no other, out of the valid ones.
LEMMA OneRevoked ==
    ASSUME TypeOK, NEW t \in DOMAIN tokens, tokens' = [tokens EXCEPT ![t].revoked = TRUE]
    PROVE  \A x \in Grant : Unrevoked(x)' = Unrevoked(x) \ {t}
BY Zenon, Revoked DEF Unrevoked, TokensOf

\* A step that leaves the tokens, the locks and the issues as they are keeps the
\* rotations' turns.
LEMMA TurnsKept ==
    ASSUME TypeOK, TokenTurns, UNCHANGED tokens,
           \A q \in Request : /\ At(q, {"rotate"}, "locked")' <=> At(q, {"rotate"}, "locked")
                              /\ At(q, {"rotate"}, "locked") => reqs'[q].g = reqs[q].g,
           \A x \in Grant : /\ hist[x] \subseteq hist'[x]
                            /\ "issued" \in hist'[x] => "issued" \in hist[x]
                            /\ isRevokedGrant(grant'[x]) => isRevokedGrant(grant[x])
    PROVE  TokenTurns'
<1>1. \A t \in DOMAIN tokens : tokens[t].grant \in Grant
    BY Zenon, GrantTypes
<1>2. \A x \in Grant : Locked(x)' <=> Locked(x)
    BY Zenon DEF Locked, At
<1>3. \A x \in Grant : Unrevoked(x)' = Unrevoked(x)
    BY Zenon DEF Unrevoked, TokensOf
<1>4. \A t \in DOMAIN tokens : "issued" \in hist'[tokens[t].grant]
    BY Zenon, <1>1 DEF TokenTurns
<1>5. \A q, r \in Request : At(r, {"rotate"}, "locked")' /\ At(q, {"rotate"}, "locked")'
            /\ reqs'[r].g = reqs'[q].g => r = q
    BY Zenon DEF TokenTurns
<1>6. \A x \in Grant : "reissued" \notin hist'[x] =>
            (\A t, u \in Unrevoked(x)' : t = u) /\ (Locked(x)' => Unrevoked(x)' = {})
    BY <1>2, <1>3 DEF TokenTurns
<1>7. \A x \in Grant : "issued" \in hist'[x] /\ Unrevoked(x)' = {} =>
            Locked(x)' \/ hist'[x] \cap {"dropped", "revoked", "cut"} # {}
    BY Zenon, <1>2, <1>3 DEF TokenTurns
<1>8. \A x \in Grant : isRevokedGrant(grant'[x]) => "revoked" \in hist'[x]
    BY Zenon DEF TokenTurns
<1> QED BY Zenon, <1>4, <1>5, <1>6, <1>7, <1>8 DEF TokenTurns

\* A handler that writes the row of a revoked grant has not read that row.
LEMMA LateWritesRace ==
    ASSUME IInv, NEW r \in Request, Handler(r)
    PROVE  isRevokedGrant(grant[reqs[r].g]) => Raced(r) = {"raced"}
BY Zenon DEF IInv, HandlersPredateRevocation, Raced, Stale

\* The invariant holds initially.
LEMMA InitIInv == Init => IInv
<1> SUFFICES ASSUME Init PROVE IInv
    BY Zenon
<1>1. TypeOK
    BY NoGrantAssumption DEF Init, TypeOK, Handlers, Rotations, Idle, GrantRow, InteractionRow,
          TokenRow,
       Kinds, States, Reasons, Events
<1>2. Exists /\ ConsentTravels /\ ConsentBeforeToken /\ HandlersPredateRevocation /\ RevokedForGood
    BY DEF Init, Exists, ConsentTravels, ConsentBeforeToken, HandlersPredateRevocation, RevokedForGood,
       Handler, TokensAreThere, isRevokedGrant, Idle
<1>3. FinishedFirst /\ IssuedOnce
    BY Zenon DEF Init, FinishedFirst, IssuedOnce, Idle
<1>4. TokenTurns
    BY DEF Init, TokenTurns, Unrevoked, TokensOf, isRevokedGrant, At, Idle
<1> QED BY Zenon, <1>1, <1>2, <1>3, <1>4 DEF IInv

-----------------------------------------------------------------------------
\* One lemma for each statement a handler executes after its read.
\* startInteraction marks the grant pending.
LEMMA MarkPendingStep ==
    ASSUME IInv, NEW r \in Request, markPending(r)
    PROVE  IInv'
<1>0. /\ TypeOK /\ Exists /\ ConsentTravels /\ ConsentBeforeToken
      /\ HandlersPredateRevocation /\ RevokedForGood
      /\ FinishedFirst /\ IssuedOnce /\ TokenTurns
    BY Zenon DEF IInv
<1>1. /\ \A q \in Request : reqs[q] # Idle => reqs[q].g \in Grant
      /\ \A t \in DOMAIN tokens : tokens[t].grant \in Grant
    BY Zenon, <1>0, GrantTypes
<1> DEFINE g == reqs[r].g
<1>2. Handler(r) /\ reqs[r] # Idle /\ g \in Grant /\ reqs[r] \in Handlers
    BY Zenon, <1>0, ReqTypes DEF markPending, At, Handler, Idle
<1>3. \A q \in Request : reqs'[q] = IF q = r THEN Idle ELSE reqs[q]
    BY Zenon, <1>0, Ended DEF markPending
<1>4. Raced(r) \in SUBSET Events /\ "revoked" \notin Raced(r)
    BY Zenon DEF Raced, Events
<1>5. /\ hist' \in [Grant -> SUBSET Events]
      /\ \A x \in Grant : hist'[x] = IF x = g THEN hist[x] \cup (Raced(r)) ELSE hist[x]
    BY Zenon, <1>0, <1>2, <1>4, Noted DEF markPending
<1>6. \A x \in Grant : hist[x] \subseteq hist'[x] /\ ("revoked" \in hist'[x] => "revoked" \in hist[x])
    BY Zenon, <1>4, <1>5
<1>7. /\ grant' \in [Grant -> GrantRow]
      /\ \A x \in Grant : x # g => grant'[x] = grant[x]
      /\ grant'[g].kind = grant[g].kind /\ grant'[g].state = "Pending"
    <2>1. grant \in [Grant -> GrantRow] /\ grant[g] \in GrantRow
        BY Zenon, <1>0, <1>2 DEF TypeOK
    <2>2. grant' = [grant EXCEPT ![g] = pend(grant[g])]
        BY Zenon DEF markPending
    <2> QED BY Zenon, <1>2, <2>1, <2>2, RowsWritten DEF Reasons
<1>8. UNCHANGED <<interaction, waited, tokens>> /\ session' = g
    BY Zenon DEF markPending
<1>9. \A x \in Grant : Consented(x) => Consented(x)'
    BY Zenon, <1>6, <1>7 DEF Consented
<1>10. \A x \in Grant : "revoked" \in hist'[x] /\ "raced" \notin hist'[x] => x # g
    BY Zenon, <1>0, <1>2, <1>5, <1>6, LateWritesRace DEF RevokedForGood
<1>20. TypeOK'
    BY Zenon, <1>0, <1>2, <1>5, <1>7, <1>8, Ended DEF TypeOK, markPending
<1>21. Exists'
    BY <1>0, <1>1, <1>3, <1>7, <1>8 DEF Exists, TokensAreThere, Idle
<1>22. ConsentTravels'
    BY <1>0, <1>1, <1>3, <1>6, <1>7, <1>8, <1>9 DEF ConsentTravels, Consented, Idle
<1>23. ConsentBeforeToken'
    BY Zenon, <1>0, <1>1, <1>8, <1>9 DEF ConsentBeforeToken, Consented
<1>24. HandlersPredateRevocation'
    BY <1>0, <1>1, <1>3, <1>6 DEF HandlersPredateRevocation, Handler, Idle
<1>25. RevokedForGood'
    BY Zenon, <1>0, <1>1, <1>5, <1>7, <1>8, <1>10 DEF RevokedForGood, TokensOf
<1>26. FinishedFirst'
    BY SMTT(30), <1>0, <1>1, <1>2, <1>3, <1>5, <1>7, <1>8 DEF FinishedFirst, isRevokedGrant, Raced, Idle
<1>27. IssuedOnce'
    BY <1>0, <1>2, <1>3, <1>5, <1>7 DEF IssuedOnce, Disturbed, Finalizing, At, Raced, markPending, Idle
<1>28. TokenTurns'
    BY <1>0, <1>2, <1>3, <1>5, <1>7, <1>8, TurnsKept DEF Handler, At, Raced, isRevokedGrant, Idle
<1> QED BY Zenon, <1>20, <1>21, <1>22, <1>23, <1>24, <1>25, <1>26, <1>27, <1>28 DEF IInv

\* finishInteraction approves or rejects.
LEMMA FinishStep ==
    ASSUME IInv, NEW r \in Request, handleFinish(r)
    PROVE  IInv'
<1>0. /\ TypeOK /\ Exists /\ ConsentTravels /\ ConsentBeforeToken
      /\ HandlersPredateRevocation /\ RevokedForGood
      /\ FinishedFirst /\ IssuedOnce /\ TokenTurns
    BY Zenon DEF IInv
<1>1. /\ \A q \in Request : reqs[q] # Idle => reqs[q].g \in Grant
      /\ \A t \in DOMAIN tokens : tokens[t].grant \in Grant
    BY Zenon, <1>0, GrantTypes
<1> DEFINE g == reqs[r].g
<1>2. Handler(r) /\ reqs[r] # Idle /\ g \in Grant /\ reqs[r] \in Handlers
    BY Zenon, <1>0, ReqTypes DEF handleFinish, At, Handler, Idle
<1>3. \A q \in Request : reqs'[q] = IF q = r THEN Idle ELSE reqs[q]
    BY Zenon, <1>0, Ended DEF handleFinish
<1> DEFINE ev == Raced(r) \cup {IF "finished" \in hist[g] THEN "refinished" ELSE "finished"}
<1>4. ev \in SUBSET Events /\ "revoked" \notin ev /\ Raced(r) \subseteq ev
    BY Zenon DEF Raced, Events
<1>5. /\ hist' \in [Grant -> SUBSET Events]
      /\ \A x \in Grant : hist'[x] = IF x = g THEN hist[x] \cup ev ELSE hist[x]
    <2>1. Note(g, ev)
        BY Zenon DEF handleFinish
    <2> HIDE DEF ev
    <2> QED BY Zenon, <1>0, <1>2, <1>4, <2>1, Noted
<1>6. \A x \in Grant : hist[x] \subseteq hist'[x] /\ ("revoked" \in hist'[x] => "revoked" \in hist[x])
    BY Zenon, <1>4, <1>5
<1>7. /\ grant' \in [Grant -> GrantRow]
      /\ \A x \in Grant : x # g => grant'[x] = grant[x]
      /\ grant'[g].kind = grant[g].kind /\ grant'[g].state \in {"Approved", "Finalized"}
      /\ grant'[g].state = "Approved" => reqs[r].inter.state = "Approved"
      /\ grant'[g].state = "Finalized" => grant'[g].reason = "Rejected"
    <2>1. grant \in [Grant -> GrantRow] /\ grant[g] \in GrantRow
        BY Zenon, <1>0, <1>2 DEF TypeOK
    <2>2. grant' = [grant EXCEPT ![g] =
            IF reqs[r].inter.state = "Approved" THEN approve(grant[g])
            ELSE finalize(grant[g], "Rejected")]
        BY Zenon DEF handleFinish
    <2> QED BY Zenon, <1>2, <2>1, <2>2, RowsWritten DEF Reasons
<1>8. UNCHANGED <<interaction, waited, tokens, session>>
    BY Zenon DEF handleFinish
<1>9. \A x \in Grant : Consented(x) => Consented(x)'
    BY Zenon, <1>6, <1>7 DEF Consented
<1>10. \A x \in Grant : "revoked" \in hist'[x] /\ "raced" \notin hist'[x] => x # g
    BY Zenon, <1>0, <1>2, <1>4, <1>5, <1>6, LateWritesRace DEF RevokedForGood
<1>11. grant'[g].state = "Approved" => "accepted" \in hist'[g]
    <2>1. reqs[r].op = "finish"
        BY Zenon DEF handleFinish, At
    <2> QED BY Zenon, <1>0, <1>2, <1>6, <1>7, <2>1 DEF ConsentTravels
<1>20. TypeOK'
    BY Zenon, <1>0, <1>2, <1>5, <1>7, <1>8, Ended DEF TypeOK, handleFinish
<1>21. Exists'
    BY <1>0, <1>1, <1>3, <1>7, <1>8 DEF Exists, TokensAreThere, Idle
<1>22. ConsentTravels'
    BY SMTT(30), <1>0, <1>1, <1>3, <1>6, <1>7, <1>8, <1>9, <1>11 DEF ConsentTravels, Consented, Idle
<1>23. ConsentBeforeToken'
    BY Zenon, <1>0, <1>1, <1>8, <1>9 DEF ConsentBeforeToken, Consented
<1>24. HandlersPredateRevocation'
    BY <1>0, <1>1, <1>3, <1>6 DEF HandlersPredateRevocation, Handler, Idle
<1>25. RevokedForGood'
    BY Zenon, <1>0, <1>1, <1>5, <1>7, <1>8, <1>4, <1>10 DEF RevokedForGood, TokensOf
<1>12. reqs[r].op = "finish"
    BY Zenon DEF handleFinish, At
<1>13. /\ "finished" \in hist'[g]
       /\ \A e \in {"issued", "reissued"} : e \in hist'[g] => e \in hist[g]
       /\ "finished" \in hist[g] => "refinished" \in hist'[g]
    BY Zenon, <1>2, <1>5 DEF Raced
<1>26. FinishedFirst'
    BY SMTT(30), <1>0, <1>1, <1>2, <1>3, <1>5, <1>6, <1>7, <1>8, <1>12, <1>13 DEF FinishedFirst,
          isRevokedGrant, Idle
<1>27. IssuedOnce'
    BY SMTT(30), <1>0, <1>2, <1>3, <1>5, <1>6, <1>7, <1>12, <1>13
       DEF IssuedOnce, FinishedFirst, Disturbed, Finalizing, At, Idle
<1>28. TokenTurns'
    BY SMTT(30), <1>0, <1>2, <1>3, <1>5, <1>7, <1>8, TurnsKept DEF Handler, At, Raced,
          isRevokedGrant, Idle
<1> QED BY Zenon, <1>20, <1>21, <1>22, <1>23, <1>24, <1>25, <1>26, <1>27, <1>28 DEF IInv

\* continueGrant finalizes.
LEMMA FinalizeStep ==
    ASSUME IInv, NEW r \in Request, finalizeIssued(r)
    PROVE  IInv'
<1>0. /\ TypeOK /\ Exists /\ ConsentTravels /\ ConsentBeforeToken
      /\ HandlersPredateRevocation /\ RevokedForGood
      /\ FinishedFirst /\ IssuedOnce /\ TokenTurns
    BY Zenon DEF IInv
<1>1. /\ \A q \in Request : reqs[q] # Idle => reqs[q].g \in Grant
      /\ \A t \in DOMAIN tokens : tokens[t].grant \in Grant
    BY Zenon, <1>0, GrantTypes
<1> DEFINE g == reqs[r].g
<1>2. Handler(r) /\ reqs[r] # Idle /\ g \in Grant /\ reqs[r] \in Handlers
    BY Zenon, <1>0, ReqTypes DEF finalizeIssued, At, Handler, Idle
<1>3. \A q \in Request : reqs'[q] = IF q = r THEN Idle ELSE reqs[q]
    BY Zenon, <1>0, Ended DEF finalizeIssued
<1>4. Raced(r) \in SUBSET Events /\ "revoked" \notin Raced(r)
    BY Zenon DEF Raced, Events
<1>5. /\ hist' \in [Grant -> SUBSET Events]
      /\ \A x \in Grant : hist'[x] = IF x = g THEN hist[x] \cup (Raced(r)) ELSE hist[x]
    BY Zenon, <1>0, <1>2, <1>4, Noted DEF finalizeIssued
<1>6. \A x \in Grant : hist[x] \subseteq hist'[x] /\ ("revoked" \in hist'[x] => "revoked" \in hist[x])
    BY Zenon, <1>4, <1>5
<1>7. /\ grant' \in [Grant -> GrantRow]
      /\ \A x \in Grant : x # g => grant'[x] = grant[x]
      /\ grant'[g].kind = grant[g].kind /\ grant'[g].state = "Finalized"
      /\ grant'[g].reason = "Issued"
    <2>1. grant \in [Grant -> GrantRow] /\ grant[g] \in GrantRow
        BY Zenon, <1>0, <1>2 DEF TypeOK
    <2>2. grant' = [grant EXCEPT ![g] = finalize(grant[g], "Issued")]
        BY Zenon DEF finalizeIssued
    <2> QED BY Zenon, <1>2, <2>1, <2>2, RowsWritten DEF Reasons
<1>8. UNCHANGED <<interaction, waited, tokens, session>>
    BY Zenon DEF finalizeIssued
<1>9. \A x \in Grant : Consented(x) => Consented(x)'
    BY Zenon, <1>6, <1>7 DEF Consented
<1>10. \A x \in Grant : "revoked" \in hist'[x] /\ "raced" \notin hist'[x] => x # g
    BY Zenon, <1>0, <1>2, <1>5, <1>6, LateWritesRace DEF RevokedForGood
<1>20. TypeOK'
    BY Zenon, <1>0, <1>2, <1>5, <1>7, <1>8, Ended DEF TypeOK, finalizeIssued
<1>21. Exists'
    BY <1>0, <1>1, <1>3, <1>7, <1>8 DEF Exists, TokensAreThere, Idle
<1>22. ConsentTravels'
    BY SMTT(30), <1>0, <1>1, <1>3, <1>6, <1>7, <1>8, <1>9 DEF ConsentTravels, Consented, Idle
<1>23. ConsentBeforeToken'
    BY Zenon, <1>0, <1>1, <1>8, <1>9 DEF ConsentBeforeToken, Consented
<1>24. HandlersPredateRevocation'
    BY <1>0, <1>1, <1>3, <1>6 DEF HandlersPredateRevocation, Handler, Idle
<1>25. RevokedForGood'
    BY Zenon, <1>0, <1>1, <1>5, <1>7, <1>8, <1>10 DEF RevokedForGood, TokensOf
<1>26. FinishedFirst'
    BY SMTT(30), <1>0, <1>1, <1>2, <1>3, <1>5, <1>7, <1>8 DEF FinishedFirst, isRevokedGrant, Raced,
          At, finalizeIssued, Idle
<1>27. IssuedOnce'
    BY <1>0, <1>2, <1>3, <1>5, <1>7 DEF IssuedOnce, Disturbed, Finalizing, At, Raced, Idle
<1>28. TokenTurns'
    BY <1>0, <1>2, <1>3, <1>5, <1>7, <1>8, TurnsKept DEF Handler, At, Raced, isRevokedGrant, Idle
<1> QED BY Zenon, <1>20, <1>21, <1>22, <1>23, <1>24, <1>25, <1>26, <1>27, <1>28 DEF IInv

\* handleInteractionChoice records the owner's choice.
LEMMA ChoiceStep ==
    ASSUME IInv, NEW r \in Request, patchInteraction(r)
    PROVE  IInv'
<1>0. /\ TypeOK /\ Exists /\ ConsentTravels /\ ConsentBeforeToken
      /\ HandlersPredateRevocation /\ RevokedForGood
      /\ FinishedFirst /\ IssuedOnce /\ TokenTurns
    BY Zenon DEF IInv
<1>1. /\ \A q \in Request : reqs[q] # Idle => reqs[q].g \in Grant
      /\ \A t \in DOMAIN tokens : tokens[t].grant \in Grant
    BY Zenon, <1>0, GrantTypes
<1> DEFINE g == reqs[r].g
<1>2. Handler(r) /\ reqs[r] # Idle /\ g \in Grant /\ reqs[r] \in Handlers
    BY Zenon, <1>0, ReqTypes DEF patchInteraction, At, Handler, Idle
<1>3. \A q \in Request : reqs'[q] = IF q = r THEN Idle ELSE reqs[q]
    BY Zenon, <1>0, Ended DEF patchInteraction
<1> DEFINE ev == Raced(r) \cup (IF reqs[r].op = "accept" THEN {"accepted"} ELSE {})
<1>4. ev \in SUBSET Events /\ "revoked" \notin ev
    BY Zenon DEF Raced, Events
<1>5. /\ hist' \in [Grant -> SUBSET Events]
      /\ \A x \in Grant : hist'[x] = IF x = g THEN hist[x] \cup ev ELSE hist[x]
    BY Zenon, <1>0, <1>2, <1>4, Noted DEF patchInteraction
<1>6. \A x \in Grant : hist[x] \subseteq hist'[x] /\ ("revoked" \in hist'[x] => "revoked" \in hist[x])
    BY Zenon, <1>4, <1>5
<1>7. UNCHANGED <<grant, waited, tokens, session>>
    BY Zenon DEF patchInteraction
<1>8. /\ interaction' \in [Grant -> InteractionRow]
      /\ \A x \in Grant : x # g => interaction'[x] = interaction[x]
      /\ interaction'[g].state \in {"Approved", "Denied"}
      /\ interaction'[g].state = "Approved" => reqs[r].op = "accept"
    <2>1. interaction \in [Grant -> InteractionRow] /\ interaction[g] \in InteractionRow
        BY Zenon, <1>0, <1>2 DEF TypeOK
    <2>2. interaction' = [interaction EXCEPT ![g] = decide(interaction[g], reqs[r].op)]
        BY Zenon DEF patchInteraction
    <2> QED BY Zenon, <1>2, <2>1, <2>2 DEF decide, InteractionRow
<1>9. \A x \in Grant : Consented(x) => Consented(x)'
    BY Zenon, <1>6, <1>7 DEF Consented
<1>20. TypeOK'
    BY Zenon, <1>0, <1>2, <1>5, <1>7, <1>8, Ended DEF TypeOK, patchInteraction
<1>21. Exists'
    BY SMTT(30), <1>0, <1>1, <1>3, <1>7, <1>8 DEF Exists, TokensAreThere, Idle
<1>10. interaction'[g].state = "Approved" => "accepted" \in hist'[g]
    BY Zenon, <1>2, <1>5, <1>8
<1>22. ConsentTravels'
    BY SMTT(30), <1>10, <1>0, <1>1, <1>3, <1>6, <1>7, <1>8, <1>9 DEF ConsentTravels, Consented, Idle
<1>23. ConsentBeforeToken'
    BY Zenon, <1>0, <1>1, <1>7, <1>9 DEF ConsentBeforeToken, Consented
<1>24. HandlersPredateRevocation'
    BY <1>0, <1>1, <1>3, <1>6 DEF HandlersPredateRevocation, Handler, Idle
<1>25. RevokedForGood'
    BY Zenon, <1>0, <1>1, <1>6, <1>7 DEF RevokedForGood, TokensOf
<1>26. FinishedFirst'
    BY SMTT(30), <1>0, <1>1, <1>2, <1>3, <1>5, <1>7, <1>8 DEF FinishedFirst, Raced, At,
          patchInteraction, Idle
<1>27. IssuedOnce'
    BY SMTT(30), <1>0, <1>2, <1>3, <1>5, <1>7 DEF IssuedOnce, Disturbed, Finalizing, At, Raced,
          patchInteraction, Idle
<1>28. TokenTurns'
    BY SMTT(30), <1>0, <1>2, <1>3, <1>5, <1>7, TurnsKept DEF Handler, At, Raced, Idle
<1> QED BY Zenon, <1>20, <1>21, <1>22, <1>23, <1>24, <1>25, <1>26, <1>27, <1>28 DEF IInv

\* continueGrant inserts the token.
LEMMA IssueStep ==
    ASSUME IInv, NEW r \in Request, createAccessToken(r)
    PROVE  IInv'
<1>0. /\ TypeOK /\ Exists /\ ConsentTravels /\ ConsentBeforeToken
      /\ HandlersPredateRevocation /\ RevokedForGood
      /\ FinishedFirst /\ IssuedOnce /\ TokenTurns
    BY Zenon DEF IInv
<1>1. /\ \A q \in Request : reqs[q] # Idle => reqs[q].g \in Grant
      /\ \A t \in DOMAIN tokens : tokens[t].grant \in Grant
    BY Zenon, <1>0, GrantTypes
<1> DEFINE g == reqs[r].g
<1>2. Handler(r) /\ reqs[r] # Idle /\ g \in Grant /\ reqs[r] \in Handlers /\ reqs[r].op = "continue"
    BY Zenon, <1>0, ReqTypes DEF createAccessToken, At, Handler, Idle
<1>3. /\ reqs' = [reqs EXCEPT ![r] = [reqs[r] EXCEPT !.at = "created"]]
      /\ [reqs[r] EXCEPT !.at = "created"] \in Handlers
      /\ \A q \in Request : q # r => reqs'[q] = reqs[q]
      /\ reqs'[r].op = "continue" /\ reqs'[r].g = g /\ reqs'[r].row = reqs[r].row
      /\ reqs'[r].at = "created"
    BY Zenon, <1>0, <1>2 DEF createAccessToken, TypeOK, Handlers
<1> DEFINE others == {q \in Request \ {r} : At(q, {"continue"}, "created") /\ reqs[q].g = g}
           ev == Raced(r) \cup Issue(g) \cup (IF others = {} THEN {} ELSE {"raced"})
<1>4. ev \in SUBSET Events /\ "revoked" \notin ev /\ Raced(r) \subseteq ev /\ Issue(g) \subseteq ev
    BY Zenon DEF Raced, Issue, Events
<1>5. /\ hist' \in [Grant -> SUBSET Events]
      /\ \A x \in Grant : hist'[x] = IF x = g THEN hist[x] \cup ev ELSE hist[x]
    <2>1. Note(g, ev)
        BY Zenon DEF createAccessToken
    <2> HIDE DEF ev
    <2> QED BY Zenon, <1>0, <1>2, <1>4, <2>1, Noted
<1>6. \A x \in Grant : hist[x] \subseteq hist'[x] /\ ("revoked" \in hist'[x] => "revoked" \in hist[x])
    BY Zenon, <1>4, <1>5
<1>7. UNCHANGED <<grant, interaction, waited, session>>
    BY Zenon DEF createAccessToken
<1>8. /\ tokens' \in Seq(TokenRow) /\ DOMAIN tokens \subseteq DOMAIN tokens'
      /\ \A t \in DOMAIN tokens' : IF t \in DOMAIN tokens THEN tokens'[t] = tokens[t]
                                    ELSE tokens'[t] = [grant |-> g, revoked |-> FALSE]
    BY Zenon, <1>0, <1>2, Inserted DEF createAccessToken
<1>9. \A x \in Grant : Consented(x) => Consented(x)'
    BY Zenon, <1>6, <1>7 DEF Consented
<1>10. \A x \in Grant : "revoked" \in hist'[x] /\ "raced" \notin hist'[x] => x # g
    BY Zenon, <1>0, <1>2, <1>4, <1>5, <1>6, LateWritesRace DEF RevokedForGood
<1>11. Consented(g)
    BY Zenon, <1>0, <1>2 DEF ConsentTravels
<1>20. TypeOK'
    BY Zenon, <1>0, <1>3, <1>5, <1>7, <1>8 DEF TypeOK
<1>21. Exists'
    BY <1>0, <1>1, <1>2, <1>3, <1>7, <1>8 DEF Exists, TokensAreThere, Idle
<1>22. ConsentTravels'
    BY <1>0, <1>1, <1>2, <1>3, <1>6, <1>7, <1>9 DEF ConsentTravels, Idle
<1>23. ConsentBeforeToken'
    BY <1>0, <1>1, <1>2, <1>8, <1>9, <1>11 DEF ConsentBeforeToken, Consented
<1>24. HandlersPredateRevocation'
    BY <1>0, <1>1, <1>2, <1>3, <1>6 DEF HandlersPredateRevocation, Handler, Idle
<1>25. RevokedForGood'
    BY <1>0, <1>1, <1>5, <1>7, <1>8, <1>10 DEF RevokedForGood, TokensOf
<1>12. /\ "issued" \in hist'[g]
       /\ "finished" \in hist'[g] => "finished" \in hist[g]
       /\ "reissued" \in hist'[g] => "reissued" \in hist[g] \/ "issued" \in hist[g]
       /\ "issued" \in hist[g] => "reissued" \in hist'[g]
    BY <1>2, <1>5 DEF Issue, Raced
<1>13. "raced" \notin hist'[g] => grant[g] = reqs[r].row /\ others = {}
    BY Zenon, <1>2, <1>5 DEF Raced, Stale
<1> HIDE DEF ev
<1>26. FinishedFirst'
    BY SMTT(30), <1>0, <1>1, <1>2, <1>3, <1>5, <1>6, <1>7, <1>12 DEF FinishedFirst, Exists,
          isRevokedGrant, Idle
<1>27. IssuedOnce'
    <2>1. SUFFICES ASSUME NEW x \in Grant, grant'[x].kind # "direct", ~Disturbed(x)'
                   PROVE  /\ "reissued" \notin hist'[x]
                          /\ "issued" \in hist'[x] /\ grant'[x].state = "Approved" => Finalizing(x)'
        BY Zenon DEF IssuedOnce
    <2>2. grant[x].kind # "direct" /\ ~Disturbed(x)
        BY Zenon, <1>6, <1>7, <2>1 DEF Disturbed
    <2>3. CASE x # g
        BY <1>0, <1>2, <1>3, <1>5, <1>7, <2>2, <2>3 DEF IssuedOnce, Finalizing, At, createAccessToken
    <2>4. CASE x = g
        <3>1. others = {} /\ grant[g] = reqs[r].row
            BY Zenon, <1>13, <2>1, <2>4 DEF Disturbed
        <3>2. grant[g].state = "Approved"
            BY Zenon, <1>0, <1>2, <3>1 DEF FinishedFirst
        <3>3. ~Finalizing(g)
            BY Zenon, <3>1 DEF Finalizing, At, createAccessToken
        <3>4. "issued" \notin hist[g] /\ "reissued" \notin hist[g]
            BY Zenon, <1>0, <1>2, <2>2, <2>4, <3>2, <3>3 DEF IssuedOnce
        <3> QED BY Zenon, <1>2, <1>3, <1>12, <2>4, <3>4 DEF Finalizing, At
    <2> QED BY Zenon, <2>3, <2>4
<1>28. TokenTurns'
    <2>1. PICK n \in DOMAIN tokens' : \A x \in Grant :
                Unrevoked(x)' = IF x = g THEN Unrevoked(x) \cup {n} ELSE Unrevoked(x)
        BY Zenon, <1>0, <1>2, NewToken DEF createAccessToken
    <2>2. \A q \in Request : /\ At(q, {"rotate"}, "locked")' <=> At(q, {"rotate"}, "locked")
                             /\ At(q, {"rotate"}, "locked") => reqs'[q].g = reqs[q].g
        BY Zenon, <1>2, <1>3 DEF At
    <2>3. \A x \in Grant : Locked(x)' <=> Locked(x)
        BY Zenon, <2>2 DEF Locked, At
    <2>4. "reissued" \notin hist'[g] => Unrevoked(g) = {} /\ ~Locked(g)
        BY Zenon, <1>0, <1>2, <1>12 DEF TokenTurns, Unrevoked, TokensOf, Locked, Exists, TokensAreThere
    <2>5. \A t \in DOMAIN tokens' : "issued" \in hist'[tokens'[t].grant]
        BY <1>0, <1>1, <1>6, <1>8, <1>12 DEF TokenTurns
    <2>6. \A q, p \in Request : At(p, {"rotate"}, "locked")' /\ At(q, {"rotate"}, "locked")'
                /\ reqs'[p].g = reqs'[q].g => p = q
        BY Zenon, <1>0, <2>2 DEF TokenTurns
    <2>7. \A x \in Grant : "reissued" \notin hist'[x] =>
                (\A t, u \in Unrevoked(x)' : t = u) /\ (Locked(x)' => Unrevoked(x)' = {})
        BY <1>0, <1>6, <2>1, <2>3, <2>4 DEF TokenTurns
    <2>8. \A x \in Grant : "issued" \in hist'[x] /\ Unrevoked(x)' = {} =>
                Locked(x)' \/ hist'[x] \cap {"dropped", "revoked", "cut"} # {}
        BY <1>0, <1>5, <2>1, <2>3 DEF TokenTurns
    <2>9. \A x \in Grant : isRevokedGrant(grant'[x]) => "revoked" \in hist'[x]
        BY Zenon, <1>0, <1>6, <1>7 DEF TokenTurns
    <2> QED BY Zenon, <2>5, <2>6, <2>7, <2>8, <2>9 DEF TokenTurns
<1> QED BY Zenon, <1>20, <1>21, <1>22, <1>23, <1>24, <1>25, <1>26, <1>27, <1>28 DEF IInv

\* rotateToken locks the grant and revokes the old token.
LEMMA RotateRevokeStep ==
    ASSUME IInv, NEW r \in Request, rotateRevoke(r)
    PROVE  IInv'
<1>0. /\ TypeOK /\ Exists /\ ConsentTravels /\ ConsentBeforeToken
      /\ HandlersPredateRevocation /\ RevokedForGood
      /\ FinishedFirst /\ IssuedOnce /\ TokenTurns
    BY Zenon DEF IInv
<1>1. /\ \A q \in Request : reqs[q] # Idle => reqs[q].g \in Grant
      /\ \A t \in DOMAIN tokens : tokens[t].grant \in Grant
    BY Zenon, <1>0, GrantTypes
<1> DEFINE g == reqs[r].g
<1>2. reqs[r] # Idle /\ g \in Grant /\ reqs[r] \in Rotations /\ reqs[r].op = "rotate"
    BY Zenon, <1>0, ReqTypes DEF rotateRevoke, At, Idle
<1>3. UNCHANGED <<grant, interaction, waited, session, hist>>
    BY Zenon DEF rotateRevoke
<1>4. CASE tokens[reqs[r].token].revoked
    <2>1. End(r) /\ UNCHANGED tokens
        BY Zenon, <1>4 DEF rotateRevoke
    <2>2. /\ reqs' \in [Request -> Handlers \cup Rotations \cup {Idle}]
          /\ \A q \in Request : reqs'[q] = IF q = r THEN Idle ELSE reqs[q]
        BY Zenon, <1>0, <2>1, Ended
    <2>3. /\ TypeOK' /\ Exists' /\ ConsentTravels' /\ ConsentBeforeToken'
          /\ HandlersPredateRevocation' /\ RevokedForGood'
        BY SMTT(30), <1>0, <1>1, <1>3, <2>1, <2>2 DEF TypeOK, Exists, ConsentTravels, Consented,
           ConsentBeforeToken, HandlersPredateRevocation, Handler, RevokedForGood, TokensOf,
           TokensAreThere, Idle
    <2>4. FinishedFirst' /\ IssuedOnce'
        BY SMTT(30), <1>0, <1>1, <1>2, <1>3, <2>2 DEF FinishedFirst, IssuedOnce, Disturbed,
              Finalizing, At, Idle
    <2>5. TokenTurns'
        BY <1>0, <1>3, <2>1, <2>2, TurnsKept DEF rotateRevoke, At, Idle
    <2> QED BY Zenon, <2>3, <2>4, <2>5 DEF IInv
<1>5. CASE ~tokens[reqs[r].token].revoked
    <2> DEFINE old == reqs[r].token
    <2>1. /\ tokens' = [tokens EXCEPT ![old].revoked = TRUE]
          /\ reqs' = [reqs EXCEPT ![r].at = "locked"]
        BY Zenon, <1>5 DEF rotateRevoke
    <2>2. /\ reqs' = [reqs EXCEPT ![r] = [reqs[r] EXCEPT !.at = "locked"]]
          /\ [reqs[r] EXCEPT !.at = "locked"] \in Rotations
          /\ \A q \in Request : q # r => reqs'[q] = reqs[q]
          /\ reqs'[r].op = "rotate" /\ reqs'[r].g = g /\ reqs'[r].at = "locked"
        BY Zenon, <1>0, <1>2, <2>1 DEF TypeOK, Rotations
    <2>3. old \in DOMAIN tokens /\ tokens[old].grant = g
        BY Zenon, <1>0, <1>2 DEF Exists, TokensAreThere
    <2>12. tokens' \in Seq(TokenRow) /\ \A u \in DOMAIN tokens : u \in DOMAIN tokens'
        BY Zenon, <1>0, <2>1, <2>3, Revoked
    <2>4. \A u \in DOMAIN tokens' : u \in DOMAIN tokens /\ tokens'[u].grant = tokens[u].grant
        BY Zenon, <1>0, <2>1, <2>3, Revoked
    <2>13. \A u \in DOMAIN tokens : tokens[u].revoked => tokens'[u].revoked
        BY Zenon, <1>0, <2>1, <2>3, Revoked
    <2>5. "revoked" \notin hist[g] \/ "raced" \in hist[g]
        BY Zenon, <1>0, <1>2, <1>5, <2>3 DEF RevokedForGood, TokensOf
    <2>6. TypeOK'
        BY Zenon, <1>0, <1>3, <2>2, <2>12 DEF TypeOK
    <2>7. Exists'
        BY SMTT(30), <1>0, <1>1, <1>2, <1>3, <2>2, <2>4, <2>12 DEF Exists, TokensAreThere
    <2>8. ConsentTravels'
        BY Zenon, <1>0, <1>1, <1>3, <2>2 DEF ConsentTravels, Consented
    <2>9. ConsentBeforeToken'
        BY Zenon, <1>0, <1>1, <1>3, <2>4 DEF ConsentBeforeToken, Consented
    <2>10. HandlersPredateRevocation'
        BY Zenon, <1>0, <1>1, <1>3, <2>2, <2>5 DEF HandlersPredateRevocation, Handler
    <2>11. RevokedForGood'
        BY Zenon, <1>0, <1>1, <1>3, <2>4, <2>13 DEF RevokedForGood, TokensOf
    <2>14. FinishedFirst' /\ IssuedOnce'
        BY SMTT(30), <1>0, <1>1, <1>2, <1>3, <2>2 DEF FinishedFirst, IssuedOnce, Disturbed,
              Finalizing, At
    <2>15. TokenTurns'
        <3>1. \A x \in Grant : Unrevoked(x)' = Unrevoked(x) \ {old}
            BY Zenon, <1>0, <2>1, <2>3, OneRevoked
        <3>2. old \in Unrevoked(g) /\ \A x \in Grant : x # g => old \notin Unrevoked(x)
            BY Zenon, <1>5, <2>3 DEF Unrevoked, TokensOf
        <3>3. ~Locked(g)
            BY Zenon DEF rotateRevoke
        <3>4. \A x \in Grant : Locked(x)' <=> Locked(x) \/ x = g
            BY Zenon, <1>2, <2>2 DEF Locked
        <3>5. \A t \in DOMAIN tokens' : "issued" \in hist'[tokens'[t].grant]
            BY Zenon, <1>0, <1>3, <2>4 DEF TokenTurns
        <3>6. \A q, p \in Request : At(p, {"rotate"}, "locked")' /\ At(q, {"rotate"}, "locked")'
                    /\ reqs'[p].g = reqs'[q].g => p = q
            BY <1>0, <2>2, <3>3 DEF TokenTurns, At, Locked
        <3>7. \A x \in Grant : "reissued" \notin hist'[x] =>
                    (\A t, u \in Unrevoked(x)' : t = u) /\ (Locked(x)' => Unrevoked(x)' = {})
            BY <1>0, <1>3, <3>1, <3>2, <3>4 DEF TokenTurns
        <3>8. \A x \in Grant : "issued" \in hist'[x] /\ Unrevoked(x)' = {} =>
                    Locked(x)' \/ hist'[x] \cap {"dropped", "revoked", "cut"} # {}
            BY <1>0, <1>3, <3>1, <3>2, <3>4 DEF TokenTurns
        <3>9. \A x \in Grant : isRevokedGrant(grant'[x]) => "revoked" \in hist'[x]
            BY Zenon, <1>0, <1>3 DEF TokenTurns
        <3> QED BY Zenon, <3>5, <3>6, <3>7, <3>8, <3>9 DEF TokenTurns
    <2> QED BY Zenon, <2>6, <2>7, <2>8, <2>9, <2>10, <2>11, <2>14, <2>15 DEF IInv
<1> QED BY Zenon, <1>4, <1>5

\* rotateToken inserts the new token and commits.
LEMMA RotateCreateStep ==
    ASSUME IInv, NEW r \in Request, rotateCreate(r)
    PROVE  IInv'
<1>0. /\ TypeOK /\ Exists /\ ConsentTravels /\ ConsentBeforeToken
      /\ HandlersPredateRevocation /\ RevokedForGood
      /\ FinishedFirst /\ IssuedOnce /\ TokenTurns
    BY Zenon DEF IInv
<1>1. /\ \A q \in Request : reqs[q] # Idle => reqs[q].g \in Grant
      /\ \A t \in DOMAIN tokens : tokens[t].grant \in Grant
    BY Zenon, <1>0, GrantTypes
<1> DEFINE g == reqs[r].g
<1>2. /\ reqs[r] # Idle /\ g \in Grant /\ reqs[r] \in Rotations
      /\ reqs[r].op = "rotate" /\ reqs[r].at = "locked"
    BY Zenon, <1>0, ReqTypes DEF rotateCreate, At, Idle
<1>3. UNCHANGED <<grant, interaction, waited, session, hist>>
    BY Zenon DEF rotateCreate
<1>4. /\ reqs' \in [Request -> Handlers \cup Rotations \cup {Idle}]
      /\ \A q \in Request : reqs'[q] = IF q = r THEN Idle ELSE reqs[q]
    BY Zenon, <1>0, Ended DEF rotateCreate
<1>5. /\ tokens' \in Seq(TokenRow)
      /\ \A t \in DOMAIN tokens' : IF t \in DOMAIN tokens THEN tokens'[t] = tokens[t]
                                    ELSE tokens'[t] = [grant |-> g, revoked |-> FALSE]
    BY Zenon, <1>0, <1>2, Inserted DEF rotateCreate
<1>6. "revoked" \notin hist[g] \/ "raced" \in hist[g]
    BY Zenon, <1>0, <1>2 DEF HandlersPredateRevocation
<1>7. Consented(g)
    BY Zenon, <1>0, <1>2 DEF ConsentBeforeToken, Consented, Exists, TokensAreThere
<1>8. DOMAIN tokens \subseteq DOMAIN tokens'
    BY Zenon, <1>0, <1>2, Inserted DEF rotateCreate
<1>20. TypeOK'
    BY Zenon, <1>0, <1>3, <1>4, <1>5 DEF TypeOK
<1>21. Exists'
    BY <1>0, <1>1, <1>2, <1>3, <1>4, <1>5, <1>8 DEF Exists, TokensAreThere, Idle
<1>22. ConsentTravels'
    BY <1>0, <1>1, <1>3, <1>4 DEF ConsentTravels, Consented, Idle
<1>23. ConsentBeforeToken'
    BY <1>0, <1>1, <1>2, <1>3, <1>5, <1>7 DEF ConsentBeforeToken, Consented
<1>24. HandlersPredateRevocation'
    BY <1>0, <1>1, <1>3, <1>4 DEF HandlersPredateRevocation, Handler, Idle
<1>25. RevokedForGood'
    BY <1>0, <1>1, <1>2, <1>3, <1>5, <1>6 DEF RevokedForGood, TokensOf
<1>26. FinishedFirst'
    BY SMTT(30), <1>0, <1>1, <1>2, <1>3, <1>4 DEF FinishedFirst, Idle
<1>27. IssuedOnce'
    BY <1>0, <1>2, <1>3, <1>4 DEF IssuedOnce, Disturbed, Finalizing, At, Idle
<1>28. TokenTurns'
    <2>1. PICK n \in DOMAIN tokens' : \A x \in Grant :
                Unrevoked(x)' = IF x = g THEN Unrevoked(x) \cup {n} ELSE Unrevoked(x)
        BY Zenon, <1>0, <1>2, NewToken DEF rotateCreate
    <2>2. \A q \in Request : At(q, {"rotate"}, "locked") /\ reqs[q].g = g => q = r
        BY Zenon, <1>0, <1>2 DEF TokenTurns, At
    <2>3. Locked(g) /\ \A x \in Grant : Locked(x)' <=> Locked(x) /\ x # g
        BY <1>2, <1>4, <2>2 DEF Locked, At, Idle
    <2>4. \A t \in DOMAIN tokens' : "issued" \in hist'[tokens'[t].grant]
        BY <1>0, <1>1, <1>2, <1>3, <1>5 DEF TokenTurns, Exists, TokensAreThere
    <2>5. \A q, p \in Request : At(p, {"rotate"}, "locked")' /\ At(q, {"rotate"}, "locked")'
                /\ reqs'[p].g = reqs'[q].g => p = q
        BY <1>0, <1>4 DEF TokenTurns, At, Idle
    <2>6. \A x \in Grant : "reissued" \notin hist'[x] =>
                (\A t, u \in Unrevoked(x)' : t = u) /\ (Locked(x)' => Unrevoked(x)' = {})
        BY <1>0, <1>3, <2>1, <2>3 DEF TokenTurns
    <2>7. \A x \in Grant : "issued" \in hist'[x] /\ Unrevoked(x)' = {} =>
                Locked(x)' \/ hist'[x] \cap {"dropped", "revoked", "cut"} # {}
        BY Zenon, <1>0, <1>3, <2>1, <2>3 DEF TokenTurns
    <2>8. \A x \in Grant : isRevokedGrant(grant'[x]) => "revoked" \in hist'[x]
        BY Zenon, <1>0, <1>3 DEF TokenTurns
    <2> QED BY Zenon, <2>4, <2>5, <2>6, <2>7, <2>8 DEF TokenTurns
<1> QED BY Zenon, <1>20, <1>21, <1>22, <1>23, <1>24, <1>25, <1>26, <1>27, <1>28 DEF IInv

\* A handler dies.
LEMMA DieStep ==
    ASSUME IInv, NEW r \in Request, Die(r)
    PROVE  IInv'
<1>0. /\ TypeOK /\ Exists /\ ConsentTravels /\ ConsentBeforeToken
      /\ HandlersPredateRevocation /\ RevokedForGood
      /\ FinishedFirst /\ IssuedOnce /\ TokenTurns
    BY Zenon DEF IInv
<1>1. /\ \A q \in Request : reqs[q] # Idle => reqs[q].g \in Grant
      /\ \A t \in DOMAIN tokens : tokens[t].grant \in Grant
    BY Zenon, <1>0, GrantTypes
<1> DEFINE g == reqs[r].g
<1>2. reqs[r] # Idle /\ g \in Grant
    BY Zenon, <1>0, <1>1 DEF Die
<1> DEFINE ev == IF reqs[r].at = "read" THEN {} ELSE {"cut"}
<1>3. ev \in SUBSET Events /\ "revoked" \notin ev /\ Note(g, ev)
    BY Zenon DEF Die, Events
<1>4. /\ hist' \in [Grant -> SUBSET Events]
      /\ \A x \in Grant : hist'[x] = IF x = g THEN hist[x] \cup ev ELSE hist[x]
    <2> HIDE DEF ev
    <2> QED BY Zenon, <1>0, <1>2, <1>3, Noted
<1>5. \A x \in Grant : hist[x] \subseteq hist'[x] /\ ("revoked" \in hist'[x] => "revoked" \in hist[x])
    BY Zenon, <1>3, <1>4
<1>6. /\ reqs' \in [Request -> Handlers \cup Rotations \cup {Idle}]
      /\ \A q \in Request : reqs'[q] = IF q = r THEN Idle ELSE reqs[q]
    BY Zenon, <1>0, Ended DEF Die
<1>7. UNCHANGED <<grant, interaction, waited, tokens, session>>
    BY Zenon DEF Die
<1>20. TypeOK'
    BY Zenon, <1>0, <1>4, <1>6, <1>7 DEF TypeOK
<1>21. Exists'
    BY <1>0, <1>1, <1>6, <1>7 DEF Exists, TokensAreThere, Idle
<1>22. ConsentTravels'
    BY SMTT(30), <1>0, <1>1, <1>5, <1>6, <1>7 DEF ConsentTravels, Consented, Idle
<1>23. ConsentBeforeToken'
    BY Zenon, <1>0, <1>1, <1>5, <1>7 DEF ConsentBeforeToken
<1>24. HandlersPredateRevocation'
    BY <1>0, <1>1, <1>5, <1>6, <1>7 DEF HandlersPredateRevocation, Handler, Idle
<1>25. RevokedForGood'
    BY Zenon, <1>0, <1>1, <1>5, <1>7 DEF RevokedForGood, TokensOf
<1>8. /\ \A x \in Grant : \A e \in Events \ {"cut"} : e \in hist'[x] => e \in hist[x]
      /\ reqs[r].at # "read" => "cut" \in hist'[g]
    BY Zenon, <1>2, <1>4
<1> HIDE DEF ev
<1>26. FinishedFirst'
    BY SMTT(30), <1>0, <1>1, <1>2, <1>4, <1>5, <1>6, <1>7, <1>8 DEF FinishedFirst, Exists, Events, Idle
<1>27. IssuedOnce'
    BY <1>0, <1>2, <1>4, <1>5, <1>6, <1>7, <1>8 DEF IssuedOnce, Disturbed, Finalizing, At, Events, Idle
<1>28. TokenTurns'
    <2>1. \A x \in Grant : Unrevoked(x)' = Unrevoked(x)
        BY Zenon, <1>7 DEF Unrevoked, TokensOf
    <2>2. \A x \in Grant : Locked(x) => Locked(x)' \/ "cut" \in hist'[x]
        BY Zenon, <1>6, <1>8 DEF Locked
    <2>3. \A x \in Grant : Locked(x)' => Locked(x)
        BY <1>6 DEF Locked, Idle
    <2>4. \A t \in DOMAIN tokens' : "issued" \in hist'[tokens'[t].grant]
        BY Zenon, <1>0, <1>1, <1>5, <1>7 DEF TokenTurns
    <2>5. \A q, p \in Request : At(p, {"rotate"}, "locked")' /\ At(q, {"rotate"}, "locked")'
                /\ reqs'[p].g = reqs'[q].g => p = q
        BY <1>0, <1>6 DEF TokenTurns, At, Idle
    <2>6. \A x \in Grant : "reissued" \notin hist'[x] =>
                (\A t, u \in Unrevoked(x)' : t = u) /\ (Locked(x)' => Unrevoked(x)' = {})
        BY <1>0, <1>5, <2>1, <2>3 DEF TokenTurns
    <2>7. \A x \in Grant : "issued" \in hist'[x] /\ Unrevoked(x)' = {} =>
                Locked(x)' \/ hist'[x] \cap {"dropped", "revoked", "cut"} # {}
        BY <1>0, <1>5, <1>8, <2>1, <2>2 DEF TokenTurns, Events
    <2>8. \A x \in Grant : isRevokedGrant(grant'[x]) => "revoked" \in hist'[x]
        BY Zenon, <1>0, <1>5, <1>7 DEF TokenTurns
    <2> QED BY Zenon, <2>4, <2>5, <2>6, <2>7, <2>8 DEF TokenTurns
<1> QED BY Zenon, <1>20, <1>21, <1>22, <1>23, <1>24, <1>25, <1>26, <1>27, <1>28 DEF IInv

\* A handler that begins has read a row that is not revoked.
LEMMA BeginStep ==
    ASSUME IInv, NEW r \in Request, NEW g \in Grant,
           NEW op \in {"start", "accept", "reject", "finish", "continue"},
           Begin(r, op, g), ~isRevokedGrant(grant[g]),
           op = "continue" => grant[g].state = "Approved",
           op \in {"start", "accept", "reject"} => interaction[g].state = "Pending",
           op = "finish" => interaction[g].state \in {"Approved", "Denied"},
           UNCHANGED <<grant, interaction, waited, tokens, session, hist>>
    PROVE  IInv'
<1>0. /\ TypeOK /\ Exists /\ ConsentTravels /\ ConsentBeforeToken
      /\ HandlersPredateRevocation /\ RevokedForGood
      /\ FinishedFirst /\ IssuedOnce /\ TokenTurns
    BY Zenon DEF IInv
<1>1. /\ \A q \in Request : reqs[q] # Idle => reqs[q].g \in Grant
      /\ \A t \in DOMAIN tokens : tokens[t].grant \in Grant
    BY Zenon, <1>0, GrantTypes
<1> DEFINE h == [op |-> op, g |-> g, at |-> "read", row |-> grant[g], inter |-> interaction[g]]
<1>2. h \in Handlers /\ h # Idle
    BY Zenon, <1>0 DEF TypeOK, Handlers, Idle
<1>3. \A q \in Request : reqs'[q] = IF q = r THEN h ELSE reqs[q]
    BY Zenon, <1>0 DEF TypeOK, Begin
<1>4. TypeOK'
    BY Zenon, <1>0, <1>2 DEF TypeOK, Begin
<1>5. Exists'
    BY SMTT(30), <1>0, <1>1, <1>3 DEF Exists, TokensAreThere, Begin
<1>6. ConsentTravels'
    BY SMTT(30), <1>0, <1>1, <1>3 DEF ConsentTravels, Consented
<1>7. ConsentBeforeToken'
    BY Zenon, <1>0, <1>1 DEF ConsentBeforeToken
<1>8. HandlersPredateRevocation'
    BY SMTT(30), <1>0, <1>1, <1>3 DEF HandlersPredateRevocation, Handler
<1>9. RevokedForGood'
    BY Zenon, <1>0, <1>1 DEF RevokedForGood, TokensOf
<1>10. FinishedFirst'
    <2>1. op = "start" => grant[g].state = "Pending"
        BY Zenon, <1>0 DEF FinishedFirst, TypeOK, GrantRow, States
    <2>2. op = "continue" => grant[g].kind = "direct" \/ "finished" \in hist[g]
        BY Zenon, <1>0 DEF FinishedFirst
    <2> QED BY SMTT(30), <1>0, <1>1, <1>3, <2>1, <2>2 DEF FinishedFirst
<1>11. IssuedOnce'
    BY <1>0, <1>3 DEF IssuedOnce, Disturbed, Finalizing, At, Begin, Idle
<1>12. TokenTurns'
    BY <1>0, <1>3, TurnsKept DEF At, Begin, Idle
<1> QED BY Zenon, <1>4, <1>5, <1>6, <1>7, <1>8, <1>9, <1>10, <1>11, <1>12 DEF IInv

\* createApprovedGrant inserts a grant and its token.
LEMMA CreateApprovedStep ==
    ASSUME IInv, NEW g \in Grant, createApprovedGrant(g)
    PROVE  IInv'
<1>0. /\ TypeOK /\ Exists /\ ConsentTravels /\ ConsentBeforeToken
      /\ HandlersPredateRevocation /\ RevokedForGood
      /\ FinishedFirst /\ IssuedOnce /\ TokenTurns
    BY Zenon DEF IInv
<1>1. /\ \A q \in Request : reqs[q] # Idle => reqs[q].g \in Grant
      /\ \A t \in DOMAIN tokens : tokens[t].grant \in Grant
    BY Zenon, <1>0, GrantTypes
<1>2. /\ grant' \in [Grant -> GrantRow]
      /\ \A x \in Grant : x # g => grant'[x] = grant[x]
      /\ grant'[g].kind = "direct" /\ grant'[g].state = "Approved"
    BY Zenon, <1>0 DEF createApprovedGrant, newGrant, TypeOK, GrantRow, Kinds, States, Reasons
<1>3. /\ hist' \in [Grant -> SUBSET Events]
      /\ \A x \in Grant : hist'[x] = IF x = g THEN hist[x] \cup {"issued"} ELSE hist[x]
    BY Zenon, <1>0, Noted DEF createApprovedGrant, Events
<1>4. \A x \in Grant : hist[x] \subseteq hist'[x] /\ ("revoked" \in hist'[x] => "revoked" \in hist[x])
    BY <1>3
<1>5. /\ tokens' \in Seq(TokenRow) /\ \A t \in DOMAIN tokens : t \in DOMAIN tokens'
      /\ \A t \in DOMAIN tokens' : IF t \in DOMAIN tokens THEN tokens'[t] = tokens[t]
                                    ELSE tokens'[t] = [grant |-> g, revoked |-> FALSE]
    BY Zenon, <1>0, Inserted DEF createApprovedGrant
<1>6. UNCHANGED <<interaction, waited, session, reqs>> /\ grant[g].state = "none"
    BY Zenon DEF createApprovedGrant
<1>7. \A q \in Request : reqs[q] # Idle => reqs[q].g # g
    BY Zenon, <1>0, <1>6 DEF Exists
<1>8. \A x \in Grant : Consented(x) => Consented(x)'
    BY Zenon, <1>2, <1>4 DEF Consented
<1>9. \A x \in Grant : "revoked" \in hist'[x] /\ "raced" \notin hist'[x] => x # g
    BY Zenon, <1>0, <1>3, <1>4, <1>6 DEF RevokedForGood, isRevokedGrant
<1>20. TypeOK'
    BY Zenon, <1>0, <1>2, <1>3, <1>5, <1>6 DEF TypeOK
<1>21. Exists'
    BY SMTT(30), <1>0, <1>1, <1>2, <1>4, <1>5, <1>6 DEF Exists, TokensAreThere
<1>22. ConsentTravels'
    BY <1>0, <1>1, <1>2, <1>4, <1>6, <1>7, <1>8 DEF ConsentTravels, Consented, Idle
<1>23. ConsentBeforeToken'
    BY <1>0, <1>1, <1>2, <1>5, <1>8 DEF ConsentBeforeToken, Consented
<1>24. HandlersPredateRevocation'
    BY <1>0, <1>1, <1>4, <1>6 DEF HandlersPredateRevocation, Handler, Idle
<1>25. RevokedForGood'
    BY <1>0, <1>1, <1>2, <1>4, <1>5, <1>9 DEF RevokedForGood, TokensOf
<1>10. hist[g] = {} /\ interaction[g].state = "none"
    BY Zenon, <1>0, <1>6 DEF FinishedFirst
<1>26. FinishedFirst'
    BY SMTT(30), <1>0, <1>1, <1>2, <1>3, <1>6, <1>7, <1>10 DEF FinishedFirst, Idle
<1>27. IssuedOnce'
    BY <1>0, <1>2, <1>3, <1>6 DEF IssuedOnce, Disturbed, Finalizing, At
<1>28. TokenTurns'
    <2>1. PICK n \in DOMAIN tokens' : \A x \in Grant :
                Unrevoked(x)' = IF x = g THEN Unrevoked(x) \cup {n} ELSE Unrevoked(x)
        BY Zenon, <1>0, NewToken DEF createApprovedGrant
    <2>2. ~Locked(g) /\ \A x \in Grant : Locked(x)' <=> Locked(x)
        BY <1>6, <1>7 DEF Locked, Idle
    <2>3. Unrevoked(g) = {}
        BY Zenon, <1>0, <1>6 DEF Exists, Unrevoked, TokensOf
    <2>4. \A t \in DOMAIN tokens' : "issued" \in hist'[tokens'[t].grant]
        BY <1>0, <1>1, <1>3, <1>5 DEF TokenTurns
    <2>5. \A q, p \in Request : At(p, {"rotate"}, "locked")' /\ At(q, {"rotate"}, "locked")'
                /\ reqs'[p].g = reqs'[q].g => p = q
        BY Zenon, <1>0, <1>6 DEF TokenTurns, At
    <2>6. \A x \in Grant : "reissued" \notin hist'[x] =>
                (\A t, u \in Unrevoked(x)' : t = u) /\ (Locked(x)' => Unrevoked(x)' = {})
        BY <1>0, <1>3, <2>1, <2>2, <2>3 DEF TokenTurns
    <2>7. \A x \in Grant : "issued" \in hist'[x] /\ Unrevoked(x)' = {} =>
                Locked(x)' \/ hist'[x] \cap {"dropped", "revoked", "cut"} # {}
        BY <1>0, <1>3, <2>1, <2>2 DEF TokenTurns
    <2>8. \A x \in Grant : isRevokedGrant(grant'[x]) => "revoked" \in hist'[x]
        BY Zenon, <1>0, <1>2, <1>3 DEF TokenTurns, isRevokedGrant
    <2> QED BY Zenon, <2>4, <2>5, <2>6, <2>7, <2>8 DEF TokenTurns
<1> QED BY Zenon, <1>20, <1>21, <1>22, <1>23, <1>24, <1>25, <1>26, <1>27, <1>28 DEF IInv

\* createPendingGrant inserts a grant and its interaction.
LEMMA CreatePendingStep ==
    ASSUME IInv, NEW g \in Grant, NEW kind \in {"finish", "poll"}, createPendingGrant(g, kind)
    PROVE  IInv'
<1>0. /\ TypeOK /\ Exists /\ ConsentTravels /\ ConsentBeforeToken
      /\ HandlersPredateRevocation /\ RevokedForGood
      /\ FinishedFirst /\ IssuedOnce /\ TokenTurns
    BY Zenon DEF IInv
<1>1. /\ \A q \in Request : reqs[q] # Idle => reqs[q].g \in Grant
      /\ \A t \in DOMAIN tokens : tokens[t].grant \in Grant
    BY Zenon, <1>0, GrantTypes
<1>2. /\ grant' \in [Grant -> GrantRow]
      /\ \A x \in Grant : x # g => grant'[x] = grant[x]
      /\ grant'[g].state = "Pending" /\ grant'[g].kind # "direct"
    BY Zenon, <1>0 DEF createPendingGrant, newGrant, TypeOK, GrantRow, Kinds, States, Reasons
<1>3. /\ interaction' \in [Grant -> InteractionRow]
      /\ \A x \in Grant : x # g => interaction'[x] = interaction[x]
      /\ interaction'[g].state = "Pending"
    BY Zenon, <1>0 DEF createPendingGrant, newInteraction, TypeOK, InteractionRow
<1>4. UNCHANGED <<waited, tokens, session, reqs, hist>> /\ grant[g].state = "none"
    BY Zenon DEF createPendingGrant
<1>5. /\ \A q \in Request : reqs[q] # Idle => reqs[q].g # g
      /\ \A t \in DOMAIN tokens : tokens[t].grant # g
    BY Zenon, <1>0, <1>4 DEF Exists
<1>6. "revoked" \notin hist[g] \/ "raced" \in hist[g]
    BY Zenon, <1>0, <1>4 DEF RevokedForGood, isRevokedGrant
<1>20. TypeOK'
    BY Zenon, <1>0, <1>1, <1>2, <1>3, <1>4, <1>5, <1>6 DEF TypeOK
<1>21. Exists'
    BY Zenon, <1>0, <1>1, <1>2, <1>3, <1>4, <1>5, <1>6 DEF Exists, TokensAreThere
<1>22. ConsentTravels'
    BY <1>0, <1>1, <1>2, <1>3, <1>4, <1>5 DEF ConsentTravels, Consented, Idle
<1>23. ConsentBeforeToken'
    BY Zenon, <1>0, <1>1, <1>2, <1>3, <1>4, <1>5, <1>6 DEF ConsentBeforeToken, Consented
<1>24. HandlersPredateRevocation'
    BY Zenon, <1>0, <1>1, <1>2, <1>3, <1>4, <1>5, <1>6 DEF HandlersPredateRevocation, Handler
<1>25. RevokedForGood'
    BY Zenon, <1>0, <1>1, <1>2, <1>3, <1>4, <1>5, <1>6 DEF RevokedForGood, TokensOf
<1>7. hist[g] = {}
    BY Zenon, <1>0, <1>4 DEF FinishedFirst
<1>26. FinishedFirst'
    BY SMTT(30), <1>0, <1>1, <1>2, <1>3, <1>4, <1>5, <1>7 DEF FinishedFirst, Idle
<1>27. IssuedOnce'
    BY <1>0, <1>2, <1>4, <1>7 DEF IssuedOnce, Disturbed, Finalizing, At
<1>28. TokenTurns'
    BY Zenon, <1>0, <1>2, <1>4, TurnsKept DEF At, isRevokedGrant
<1> QED BY Zenon, <1>20, <1>21, <1>22, <1>23, <1>24, <1>25, <1>26, <1>27, <1>28 DEF IInv

\* revokeGrant revokes the grant and its tokens.
LEMMA RevokeStep ==
    ASSUME IInv, NEW g \in Grant, revokeGrant(g)
    PROVE  IInv'
<1>0. /\ TypeOK /\ Exists /\ ConsentTravels /\ ConsentBeforeToken
      /\ HandlersPredateRevocation /\ RevokedForGood
      /\ FinishedFirst /\ IssuedOnce /\ TokenTurns
    BY Zenon DEF IInv
<1>1. /\ \A q \in Request : reqs[q] # Idle => reqs[q].g \in Grant
      /\ \A t \in DOMAIN tokens : tokens[t].grant \in Grant
    BY Zenon, <1>0, GrantTypes
<1>2. /\ grant' \in [Grant -> GrantRow]
      /\ \A x \in Grant : x # g => grant'[x] = grant[x]
      /\ grant'[g].kind = grant[g].kind
      /\ grant'[g].state = "Finalized" /\ grant'[g].reason = "Revoked"
    <2>1. grant \in [Grant -> GrantRow] /\ grant[g] \in GrantRow
        BY Zenon, <1>0 DEF TypeOK
    <2>2. grant' = [grant EXCEPT ![g] = finalize(grant[g], "Revoked")]
        BY Zenon DEF revokeGrant
    <2> QED BY Zenon, <2>1, <2>2, RowsWritten DEF Reasons
<1>3. /\ hist' \in [Grant -> SUBSET Events]
      /\ \A x \in Grant : hist'[x] = IF x = g THEN hist[x] \cup {"revoked"} ELSE hist[x]
    BY Zenon, <1>0, Noted DEF revokeGrant, Events
<1>4. \A x \in Grant : hist[x] \subseteq hist'[x]
    BY Zenon, <1>3
<1>5. tokens' \in Seq(TokenRow)
    <2>1. \A t \in DOMAIN tokens : tokens[t] \in TokenRow
        BY Zenon, <1>0, TokenRows
    <2>2. \A t \in DOMAIN tokens : [tokens[t] EXCEPT !.revoked = TRUE] \in TokenRow
        BY Zenon, <2>1 DEF TokenRow
    <2>3. tokens' \in [1 .. Len(tokens) -> TokenRow]
        BY Zenon, <1>0, <2>1, <2>2, TokenRows DEF revokeGrant, revokeByGrantId
    <2> QED BY <1>0, <2>3, TokenRows
<1>6. \A t \in DOMAIN tokens' : t \in DOMAIN tokens /\ tokens'[t].grant = tokens[t].grant
    <2>1. \A t \in DOMAIN tokens : tokens[t] \in TokenRow
        BY Zenon, <1>0, TokenRows
    <2> QED BY Zenon, <2>1 DEF revokeGrant, revokeByGrantId, TokenRow
<1>7. \A t \in DOMAIN tokens : tokens[t].grant = g \/ tokens[t].revoked => tokens'[t].revoked
    <2>1. \A t \in DOMAIN tokens : tokens[t] \in TokenRow
        BY Zenon, <1>0, TokenRows
    <2> QED BY Zenon, <2>1 DEF revokeGrant, revokeByGrantId, TokenRow
<1>10. \A t \in DOMAIN tokens : t \in DOMAIN tokens'
    BY Zenon DEF revokeGrant, revokeByGrantId
<1>8. UNCHANGED <<interaction, waited, session, reqs>> /\ ~Locked(g)
    BY Zenon DEF revokeGrant
<1>9. \A x \in Grant : Consented(x) => Consented(x)'
    BY Zenon, <1>2, <1>4 DEF Consented
<1>20. TypeOK'
    BY Zenon, <1>0, <1>2, <1>3, <1>5, <1>8 DEF TypeOK
<1>21. Exists'
    BY Zenon, <1>0, <1>1, <1>2, <1>6, <1>8, <1>10 DEF Exists, TokensAreThere
<1>22. ConsentTravels'
    BY SMTT(30), <1>0, <1>1, <1>2, <1>4, <1>8, <1>9 DEF ConsentTravels, Consented, Idle
<1>23. ConsentBeforeToken'
    BY Zenon, <1>0, <1>1, <1>6, <1>9 DEF ConsentBeforeToken, Consented
<1>24. HandlersPredateRevocation'
    BY <1>0, <1>1, <1>3, <1>8 DEF HandlersPredateRevocation, Handler, Locked, Idle
<1>25. RevokedForGood'
    BY Zenon, <1>0, <1>1, <1>2, <1>3, <1>6, <1>7 DEF RevokedForGood, TokensOf, isRevokedGrant
<1>26. FinishedFirst'
    BY SMTT(30), <1>0, <1>1, <1>2, <1>3, <1>8 DEF FinishedFirst, isRevokedGrant, Idle
<1>27. IssuedOnce'
    BY <1>0, <1>2, <1>3, <1>8 DEF IssuedOnce, Disturbed, Finalizing, At
<1>28. TokenTurns'
    <2>1. \A t \in DOMAIN tokens : tokens[t].grant # g => tokens'[t] = tokens[t]
        BY Zenon DEF revokeGrant, revokeByGrantId
    <2>2. \A x \in Grant : Unrevoked(x)' = IF x = g THEN {} ELSE Unrevoked(x)
        BY Zenon, <1>6, <1>7, <1>10, <2>1 DEF Unrevoked, TokensOf
    <2>3. \A x \in Grant : Locked(x)' <=> Locked(x)
        BY Zenon, <1>8 DEF Locked
    <2>4. \A t \in DOMAIN tokens' : "issued" \in hist'[tokens'[t].grant]
        BY Zenon, <1>0, <1>1, <1>4, <1>6 DEF TokenTurns
    <2>5. \A q, p \in Request : At(p, {"rotate"}, "locked")' /\ At(q, {"rotate"}, "locked")'
                /\ reqs'[p].g = reqs'[q].g => p = q
        BY Zenon, <1>0, <1>8 DEF TokenTurns, At
    <2>6. \A x \in Grant : "reissued" \notin hist'[x] =>
                (\A t, u \in Unrevoked(x)' : t = u) /\ (Locked(x)' => Unrevoked(x)' = {})
        BY <1>0, <1>4, <2>2, <2>3 DEF TokenTurns
    <2>7. \A x \in Grant : "issued" \in hist'[x] /\ Unrevoked(x)' = {} =>
                Locked(x)' \/ hist'[x] \cap {"dropped", "revoked", "cut"} # {}
        BY Zenon, <1>0, <1>3, <2>2, <2>3 DEF TokenTurns
    <2>8. \A x \in Grant : isRevokedGrant(grant'[x]) => "revoked" \in hist'[x]
        BY Zenon, <1>0, <1>2, <1>3 DEF TokenTurns
    <2> QED BY Zenon, <2>4, <2>5, <2>6, <2>7, <2>8 DEF TokenTurns
<1> QED BY Zenon, <1>20, <1>21, <1>22, <1>23, <1>24, <1>25, <1>26, <1>27, <1>28 DEF IInv

\* revokeToken revokes one token.
LEMMA RevokeTokenStep ==
    ASSUME IInv, NEW t \in DOMAIN tokens, revokeToken(t)
    PROVE  IInv'
<1>0. /\ TypeOK /\ Exists /\ ConsentTravels /\ ConsentBeforeToken
      /\ HandlersPredateRevocation /\ RevokedForGood
      /\ FinishedFirst /\ IssuedOnce /\ TokenTurns
    BY Zenon DEF IInv
<1>1. /\ \A q \in Request : reqs[q] # Idle => reqs[q].g \in Grant
      /\ \A u \in DOMAIN tokens : tokens[u].grant \in Grant
    BY Zenon, <1>0, GrantTypes
<1> DEFINE g == tokens[t].grant
<1>2. /\ hist' \in [Grant -> SUBSET Events]
      /\ \A x \in Grant : hist'[x] = IF x = g THEN hist[x] \cup {"dropped"} ELSE hist[x]
    BY Zenon, <1>0, <1>1, Noted DEF revokeToken, Events
<1>3. \A x \in Grant : hist[x] \subseteq hist'[x] /\ ("revoked" \in hist'[x] => "revoked" \in hist[x])
    BY <1>2
<1>4. tokens' \in Seq(TokenRow)
    BY Zenon, <1>0, Revoked DEF revokeToken
<1>5. \A u \in DOMAIN tokens' : u \in DOMAIN tokens /\ tokens'[u].grant = tokens[u].grant
    BY Zenon, <1>0, Revoked DEF revokeToken
<1>6. \A u \in DOMAIN tokens : u \in DOMAIN tokens' /\ (tokens[u].revoked => tokens'[u].revoked)
    BY Zenon, <1>0, Revoked DEF revokeToken
<1>7. UNCHANGED <<grant, interaction, waited, session, reqs>>
    BY Zenon DEF revokeToken
<1>8. \A x \in Grant : Consented(x) => Consented(x)'
    BY Zenon, <1>3, <1>7 DEF Consented
<1>20. TypeOK'
    BY Zenon, <1>0, <1>2, <1>4, <1>7 DEF TypeOK
<1>21. Exists'
    BY Zenon, <1>0, <1>1, <1>3, <1>5, <1>6, <1>7 DEF Exists, TokensAreThere
<1>22. ConsentTravels'
    BY <1>0, <1>1, <1>3, <1>7, <1>8 DEF ConsentTravels, Consented, Idle
<1>23. ConsentBeforeToken'
    BY Zenon, <1>0, <1>1, <1>5, <1>8 DEF ConsentBeforeToken, Consented
<1>24. HandlersPredateRevocation'
    BY SMTT(30), <1>0, <1>1, <1>3, <1>7 DEF HandlersPredateRevocation, Handler, Idle
<1>25. RevokedForGood'
    BY Zenon, <1>0, <1>1, <1>3, <1>5, <1>6, <1>7 DEF RevokedForGood, TokensOf
<1>26. FinishedFirst'
    BY SMTT(30), <1>0, <1>1, <1>2, <1>7 DEF FinishedFirst, Exists, Idle
<1>27. IssuedOnce'
    BY SMTT(30), <1>0, <1>2, <1>7 DEF IssuedOnce, Disturbed, Finalizing, At
<1>28. TokenTurns'
    <2>1. \A x \in Grant : Unrevoked(x)' = Unrevoked(x) \ {t}
        BY Zenon, <1>0, OneRevoked DEF revokeToken
    <2>2. \A x \in Grant : x # g => t \notin Unrevoked(x)
        BY Zenon DEF Unrevoked, TokensOf
    <2>3. \A x \in Grant : Locked(x)' <=> Locked(x)
        BY Zenon, <1>7 DEF Locked
    <2>4. \A u \in DOMAIN tokens' : "issued" \in hist'[tokens'[u].grant]
        BY Zenon, <1>0, <1>1, <1>3, <1>5 DEF TokenTurns
    <2>5. \A q, p \in Request : At(p, {"rotate"}, "locked")' /\ At(q, {"rotate"}, "locked")'
                /\ reqs'[p].g = reqs'[q].g => p = q
        BY Zenon, <1>0, <1>7 DEF TokenTurns, At
    <2>6. \A x \in Grant : "reissued" \notin hist'[x] =>
                (\A u, v \in Unrevoked(x)' : u = v) /\ (Locked(x)' => Unrevoked(x)' = {})
        BY Zenon, <1>0, <1>3, <2>1, <2>3 DEF TokenTurns
    <2>7. \A x \in Grant : "issued" \in hist'[x] /\ Unrevoked(x)' = {} =>
                Locked(x)' \/ hist'[x] \cap {"dropped", "revoked", "cut"} # {}
        BY <1>0, <1>1, <1>2, <2>1, <2>2, <2>3 DEF TokenTurns
    <2>8. \A x \in Grant : isRevokedGrant(grant'[x]) => "revoked" \in hist'[x]
        BY Zenon, <1>0, <1>3, <1>7 DEF TokenTurns
    <2> QED BY Zenon, <2>4, <2>5, <2>6, <2>7, <2>8 DEF TokenTurns
<1> QED BY Zenon, <1>20, <1>21, <1>22, <1>23, <1>24, <1>25, <1>26, <1>27, <1>28 DEF IInv

\* rotateToken has found the token.
LEMMA RotateStep ==
    ASSUME IInv, NEW r \in Request, NEW t \in DOMAIN tokens, rotateToken(r, t)
    PROVE  IInv'
<1>0. /\ TypeOK /\ Exists /\ ConsentTravels /\ ConsentBeforeToken
      /\ HandlersPredateRevocation /\ RevokedForGood
      /\ FinishedFirst /\ IssuedOnce /\ TokenTurns
    BY Zenon DEF IInv
<1>1. /\ \A q \in Request : reqs[q] # Idle => reqs[q].g \in Grant
      /\ \A u \in DOMAIN tokens : tokens[u].grant \in Grant
    BY Zenon, <1>0, GrantTypes
<1> DEFINE h == [op |-> "rotate", g |-> tokens[t].grant, at |-> "read", token |-> t]
<1>2. h \in Rotations /\ h # Idle
    BY SMTT(30), <1>0, <1>1, TokenRows DEF TypeOK, Rotations, Idle
<1>3. /\ \A q \in Request : reqs'[q] = IF q = r THEN h ELSE reqs[q]
      /\ reqs' \in [Request -> Handlers \cup Rotations \cup {Idle}]
    BY Zenon, <1>0, <1>2 DEF TypeOK, rotateToken
<1>4. UNCHANGED <<grant, interaction, waited, tokens, session, hist>>
    BY Zenon DEF rotateToken
<1>20. TypeOK'
    BY Zenon, <1>0, <1>1, <1>3, <1>4 DEF TypeOK
<1>21. Exists'
    BY SMTT(30), <1>0, <1>1, <1>3, <1>4 DEF Exists, TokensAreThere
<1>22. ConsentTravels'
    BY SMTT(30), <1>0, <1>1, <1>3, <1>4 DEF ConsentTravels, Consented
<1>23. ConsentBeforeToken'
    BY Zenon, <1>0, <1>1, <1>3, <1>4 DEF ConsentBeforeToken, Consented
<1>24. HandlersPredateRevocation'
    BY SMTT(30), <1>0, <1>1, <1>3, <1>4 DEF HandlersPredateRevocation, Handler
<1>25. RevokedForGood'
    BY Zenon, <1>0, <1>1, <1>3, <1>4 DEF RevokedForGood, TokensOf
<1>26. FinishedFirst'
    BY SMTT(30), <1>0, <1>1, <1>3, <1>4 DEF FinishedFirst
<1>27. IssuedOnce'
    BY SMTT(30), <1>0, <1>3, <1>4 DEF IssuedOnce, Disturbed, Finalizing, At, rotateToken, Idle
<1>28. TokenTurns'
    BY SMTT(30), <1>0, <1>3, <1>4, TurnsKept DEF At, rotateToken, Idle
<1> QED BY Zenon, <1>20, <1>21, <1>22, <1>23, <1>24, <1>25, <1>26, <1>27, <1>28 DEF IInv

-----------------------------------------------------------------------------
\* The other steps touch only the clocks.
LEMMA ClockStep ==
    ASSUME IInv, NEW g \in Grant, pollPending(g) \/ WaitOver(g) \/ Expire(g)
    PROVE  IInv'
<1>0. /\ TypeOK /\ Exists /\ ConsentTravels /\ ConsentBeforeToken
      /\ HandlersPredateRevocation /\ RevokedForGood
      /\ FinishedFirst /\ IssuedOnce /\ TokenTurns
    BY Zenon DEF IInv
<1>1. /\ \A q \in Request : reqs[q] # Idle => reqs[q].g \in Grant
      /\ \A t \in DOMAIN tokens : tokens[t].grant \in Grant
    BY Zenon, <1>0, GrantTypes
<1>2. UNCHANGED <<grant, tokens, session, reqs, hist>> /\ waited' \in [Grant -> BOOLEAN]
    BY Zenon, <1>0 DEF pollPending, WaitOver, Expire, TypeOK
<1>3. /\ interaction' \in [Grant -> InteractionRow]
      /\ \A x \in Grant : interaction'[x].state = interaction[x].state
    <2>1. CASE interaction' = interaction
        BY Zenon, <1>0, <2>1 DEF TypeOK
    <2>2. CASE interaction' = [interaction EXCEPT ![g].expired = TRUE]
        BY Zenon, <1>0, <2>2 DEF TypeOK, InteractionRow
    <2> QED BY Zenon, <2>1, <2>2 DEF pollPending, WaitOver, Expire
<1>20. TypeOK'
    BY Zenon, <1>0, <1>1, <1>2, <1>3 DEF TypeOK
<1>21. Exists'
    BY Zenon, <1>0, <1>1, <1>2, <1>3 DEF Exists, TokensAreThere
<1>22. ConsentTravels'
    BY Zenon, <1>0, <1>1, <1>2, <1>3 DEF ConsentTravels, Consented, Idle
<1>23. ConsentBeforeToken'
    BY Zenon, <1>0, <1>1, <1>2, <1>3 DEF ConsentBeforeToken, Consented
<1>24. HandlersPredateRevocation'
    BY Zenon, <1>0, <1>1, <1>2, <1>3 DEF HandlersPredateRevocation, Handler
<1>25. RevokedForGood'
    BY Zenon, <1>0, <1>1, <1>2, <1>3 DEF RevokedForGood, TokensOf
<1>26. FinishedFirst'
    BY SMTT(30), <1>0, <1>1, <1>2, <1>3 DEF FinishedFirst, Idle
<1>27. IssuedOnce'
    BY Zenon, <1>0, <1>2 DEF IssuedOnce, Disturbed, Finalizing, At
<1>28. TokenTurns'
    BY Zenon, <1>0, <1>2, TurnsKept DEF At
<1> QED BY Zenon, <1>20, <1>21, <1>22, <1>23, <1>24, <1>25, <1>26, <1>27, <1>28 DEF IInv

\* IInv is inductive.
LEMMA NextIInv == IInv /\ [Next]_vars => IInv'
<1> SUFFICES ASSUME IInv, [Next]_vars PROVE IInv'
    BY Zenon
<1>1. ASSUME NEW r \in Request, NEW g \in Grant, startInteraction(r, g) PROVE IInv'
    BY Zenon, <1>1, BeginStep DEF startInteraction
<1>2. ASSUME NEW r \in Request, NEW g \in Grant, NEW choice \in {"accept", "reject"},
             handleInteractionChoice(r, g, choice)
      PROVE  IInv'
    <2>1. /\ Begin(r, choice, g) /\ interaction[g].state = "Pending"
          /\ UNCHANGED <<grant, interaction, waited, tokens, session, hist>>
        BY <1>2 DEF handleInteractionChoice
    <2>2. ~isRevokedGrant(grant[g])
        BY <1>2 DEF handleInteractionChoice, isRevokedGrant
    <2>3. choice \in {"start", "accept", "reject", "finish", "continue"}
          /\ choice # "continue" /\ choice # "finish"
        BY <1>2
    <2> QED BY Zenon, <2>1, <2>2, <2>3, BeginStep
<1>3. ASSUME NEW r \in Request, NEW g \in Grant, finishInteraction(r, g) PROVE IInv'
    BY Zenon, <1>3, BeginStep DEF finishInteraction
<1>4. ASSUME NEW r \in Request, NEW g \in Grant, continueGrant(r, g) PROVE IInv'
    BY Zenon, <1>4, BeginStep DEF continueGrant, isRevokedGrant
<1>5. ASSUME UNCHANGED vars PROVE IInv'
    <2>1. UNCHANGED <<grant, interaction, waited, tokens, session, reqs, hist>>
        BY Zenon, <1>5 DEF vars
    <2>2. TypeOK' /\ Exists' /\ ConsentTravels'
        BY Zenon, <2>1 DEF IInv, TypeOK, Exists, TokensAreThere, ConsentTravels, Consented
    <2>3. ConsentBeforeToken' /\ HandlersPredateRevocation' /\ RevokedForGood'
        BY Zenon, <2>1 DEF IInv, ConsentBeforeToken, Consented, HandlersPredateRevocation, Handler,
           RevokedForGood, TokensOf
    <2>4. FinishedFirst' /\ IssuedOnce'
        BY SMTT(30), <2>1 DEF IInv, FinishedFirst, IssuedOnce, Disturbed, Finalizing, At
    <2>5. TokenTurns'
        BY SMTT(30), <2>1 DEF IInv, TokenTurns, Unrevoked, TokensOf, Locked, At
    <2> QED BY Zenon, <2>2, <2>3, <2>4, <2>5 DEF IInv
<1> QED BY Zenon, <1>1, <1>2, <1>3, <1>4, <1>5, MarkPendingStep, FinishStep, FinalizeStep,
              ChoiceStep, IssueStep,
           RotateRevokeStep, RotateCreateStep, DieStep, CreateApprovedStep, CreatePendingStep, RevokeStep,
           RevokeTokenStep, RotateStep, ClockStep DEF Next

\* Type correctness of the authorization server.
THEOREM TypeCorrect == Spec => []TypeOK
<1>1. IInv => TypeOK
    BY Zenon DEF IInv
<1> QED BY InitIInv, NextIInv, <1>1, PTL DEF Spec

\* For any grants and any number of overlapping handlers that may die at any
\* await, no interactive grant has a token unless its owner accepted.
THEOREM ConsentBeforeTokenAlways == Spec => []ConsentBeforeToken
<1>1. IInv => ConsentBeforeToken
    BY Zenon DEF IInv
<1> QED BY InitIInv, NextIInv, <1>1, PTL DEF Spec

\* For any grants and any number of overlapping handlers, a revoked grant and
\* all its tokens stay revoked unless a handler wrote from a row read earlier.
THEOREM RevokedForGoodAlways == Spec => []RevokedForGood
<1>1. IInv => RevokedForGood
    BY Zenon DEF IInv
<1> QED BY InitIInv, NextIInv, <1>1, PTL DEF Spec
\* For any grants and any number of overlapping handlers and rotations that may
\* die at any await: a grant issued once has at most one live token, and none
\* only if a rotation holds its lock or something took the token away; it is
\* issued again only after a race, a death, a second finish, or when it is direct.
THEOREM OneLiveTokenAlways == Spec => []OneLiveToken
<1>1. IInv => OneLiveToken
    <2> SUFFICES ASSUME IInv, NEW g \in Grant
                 PROVE  LET live == {t \in TokensOf(g) : introspect(t)}
                        IN  IF "reissued" \in hist[g]
                            THEN \/ hist[g] \cap {"raced", "cut", "refinished"} # {}
                                 \/ grant[g].kind = "direct"
                            ELSE "issued" \in hist[g] =>
                                 /\ \A t, u \in live : t = u
                                 /\ live = {} => \/ Locked(g)
                                                 \/ hist[g] \cap {"dropped", "revoked", "cut"} # {}
        BY Zenon DEF OneLiveToken
    <2> DEFINE live == {t \in TokensOf(g) : introspect(t)}
    <2>1. IssuedOnce /\ TokenTurns
        BY Zenon DEF IInv
    <2>2. "reissued" \in hist[g] =>
            hist[g] \cap {"raced", "cut", "refinished"} # {} \/ grant[g].kind = "direct"
        BY Zenon, <2>1 DEF IssuedOnce, Disturbed
    <2>3. live \subseteq Unrevoked(g) /\ (isRevokedGrant(grant[g]) \/ live = Unrevoked(g))
        BY Zenon DEF Unrevoked, introspect, TokensOf
    <2>4. "reissued" \notin hist[g] => \A t, u \in live : t = u
        BY Zenon, <2>1, <2>3 DEF TokenTurns
    <2>5. "issued" \in hist[g] /\ live = {} =>
            Locked(g) \/ hist[g] \cap {"dropped", "revoked", "cut"} # {}
        BY Zenon, <2>1, <2>3 DEF TokenTurns
    <2> QED BY Zenon, <2>2, <2>4, <2>5
<1> QED BY InitIInv, NextIInv, <1>1, PTL DEF Spec

\* Only a second finish, a write from a row read before the grant was finalized,
\* or a revocation changes a finalized grant.
LEMMA FinalStep ==
    ASSUME IInv, [Next]_vars, NEW g \in Grant, grant[g].state = "Finalized"
    PROVE  \/ grant'[g] = grant[g]
           \/ isRevokedGrant(grant'[g])
           \/ hist'[g] \cap {"raced", "refinished"} # {}
<1>0. /\ TypeOK /\ HandlersPredateRevocation /\ FinishedFirst
    BY Zenon DEF IInv
<1>1. \A r \in Request : reqs[r] # Idle => reqs[r].g \in Grant
    BY Zenon, <1>0, ReqTypes
<1>2. \A r \in Request : Raced(r) = {} => grant[reqs[r].g] = reqs[r].row
    BY Zenon DEF Raced, Stale
<1> DEFINE Kept == grant'[g] = grant[g]
           Racy == hist'[g] \cap {"raced", "refinished"} # {}
<1>3. ASSUME NEW r \in Request, markPending(r) PROVE Kept \/ Racy
    <2>1. /\ reqs[r].g \in Grant /\ reqs[r].row.state = "Pending"
          /\ grant' = [grant EXCEPT ![reqs[r].g] = pend(grant[reqs[r].g])]
          /\ Note(reqs[r].g, Raced(r))
        BY SMTT(30), <1>0, <1>1, <1>3 DEF markPending, At, FinishedFirst, Idle
    <2>2. CASE reqs[r].g # g
        BY Zenon, <1>0, <2>1, <2>2 DEF TypeOK
    <2>3. CASE reqs[r].g = g
        <3>1. Raced(r) = {"raced"}
            BY Zenon, <1>2, <2>1, <2>3 DEF Raced
        <3> QED BY Zenon, <1>0, <2>1, <2>3, <3>1 DEF TypeOK, Note
    <2> QED BY Zenon, <2>2, <2>3
<1>4. ASSUME NEW r \in Request, finalizeIssued(r) PROVE Kept \/ Racy
    <2>1. /\ reqs[r].g \in Grant /\ reqs[r].row.state = "Approved"
          /\ grant' = [grant EXCEPT ![reqs[r].g] = finalize(grant[reqs[r].g], "Issued")]
          /\ Note(reqs[r].g, Raced(r))
        BY SMTT(30), <1>0, <1>1, <1>4 DEF finalizeIssued, At, FinishedFirst, Idle
    <2>2. CASE reqs[r].g # g
        BY Zenon, <1>0, <2>1, <2>2 DEF TypeOK
    <2>3. CASE reqs[r].g = g
        <3>1. Raced(r) = {"raced"}
            BY Zenon, <1>2, <2>1, <2>3 DEF Raced
        <3> QED BY Zenon, <1>0, <2>1, <2>3, <3>1 DEF TypeOK, Note
    <2> QED BY Zenon, <2>2, <2>3
<1>5. ASSUME NEW r \in Request, handleFinish(r) PROVE Kept \/ Racy
    <2>1. /\ reqs[r].g \in Grant /\ reqs[r].op = "finish" /\ ~isRevokedGrant(reqs[r].row)
          /\ \A x \in Grant : x # reqs[r].g => grant'[x] = grant[x]
        BY SMTT(30), <1>0, <1>1, <1>5 DEF handleFinish, At, HandlersPredateRevocation, Handler,
              TypeOK, Idle
    <2>2. Note(reqs[r].g, Raced(r) \cup {IF "finished" \in hist[reqs[r].g] THEN "refinished" ELSE "finished"})
        BY Zenon, <1>5 DEF handleFinish
    <2>3. CASE reqs[r].g = g
        <3>1. isRevokedGrant(grant[g]) \/ "finished" \in hist[g]
            BY Zenon, <1>0, <2>1, <2>3 DEF FinishedFirst
        <3>2. Raced(r) = {"raced"} \/ "finished" \in hist[g]
            BY Zenon, <1>2, <2>1, <2>3, <3>1 DEF Raced
        <3> QED BY Zenon, <1>0, <2>2, <2>3, <3>2 DEF TypeOK, Note
    <2> QED BY Zenon, <2>1, <2>3
<1>6. ASSUME NEW x \in Grant, revokeGrant(x) PROVE Kept \/ isRevokedGrant(grant'[g])
    <2>1. grant' = [grant EXCEPT ![x] = finalize(grant[x], "Revoked")]
        BY Zenon, <1>6 DEF revokeGrant
    <2>2. grant[x] \in GrantRow /\ finalize(grant[x], "Revoked").state = "Finalized"
          /\ finalize(grant[x], "Revoked").reason = "Revoked"
        BY Zenon, <1>0, RowsWritten DEF TypeOK, Reasons
    <2> QED BY Zenon, <1>0, <2>1, <2>2 DEF TypeOK, isRevokedGrant
<1>7. ASSUME NEW x \in Grant, NEW row,
             grant[x].state = "none" /\ grant' = [grant EXCEPT ![x] = row]
      PROVE  Kept
    BY Zenon, <1>0, <1>7 DEF TypeOK
<1>8. ASSUME NEW x \in Grant,
             createApprovedGrant(x) \/ \E kind \in {"finish", "poll"} : createPendingGrant(x, kind)
      PROVE  Kept
    BY Zenon, <1>7, <1>8 DEF createApprovedGrant, createPendingGrant
<1>9. ASSUME NEW x \in Grant, pollPending(x) \/ WaitOver(x) \/ Expire(x) PROVE Kept
    BY Zenon, <1>9 DEF pollPending, WaitOver, Expire
<1>10. ASSUME NEW r \in Request, NEW x \in Grant,
              \/ startInteraction(r, x) \/ finishInteraction(r, x) \/ continueGrant(r, x)
              \/ \E choice \in {"accept", "reject"} : handleInteractionChoice(r, x, choice)
       PROVE  Kept
    BY Zenon, <1>10 DEF startInteraction, finishInteraction, continueGrant, handleInteractionChoice
<1>11. ASSUME NEW r \in Request,
              patchInteraction(r) \/ createAccessToken(r) \/ rotateRevoke(r) \/ rotateCreate(r) \/ Die(r)
       PROVE  Kept
    BY Zenon, <1>11 DEF patchInteraction, createAccessToken, rotateRevoke, rotateCreate, Die
<1>12. ASSUME NEW t \in DOMAIN tokens, revokeToken(t) \/ \E r \in Request : rotateToken(r, t)
       PROVE  Kept
    BY Zenon, <1>12 DEF revokeToken, rotateToken
<1>13. ASSUME UNCHANGED vars PROVE Kept
    BY Zenon, <1>13 DEF vars
<1> QED BY Zenon, <1>3, <1>4, <1>5, <1>6, <1>8, <1>9, <1>10, <1>11, <1>12, <1>13 DEF Next

\* For any grants and any number of overlapping handlers, a finalized grant
\* changes only by being revoked, unless handlers raced or the interaction was
\* finished a second time.
THEOREM FinalUnlessRefinishedAlways == Spec => FinalUnlessRefinished
<1>1. IInv /\ [Next]_vars =>
        [\A g \in Grant : grant[g].state = "Finalized" =>
            \/ grant'[g] = grant[g]
            \/ isRevokedGrant(grant'[g])
            \/ hist'[g] \cap {"raced", "refinished"} # {}]_vars
    BY Zenon, FinalStep
<1> QED BY InitIInv, NextIInv, <1>1, PTL DEF Spec, FinalUnlessRefinished
=============================================================================
