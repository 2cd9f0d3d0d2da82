------------------------- MODULE RefreshTokensProofs -------------------------
(***************************************************************************)
(* Proofs about RefreshTokens, for any number of requests, accounts and    *)
(* tokens, and for any time to live.                                       *)
(***************************************************************************)
EXTENDS RefreshTokens, TLAPS

-----------------------------------------------------------------------------
(* What the two writes to refresh_tokens do. *)

LEMMA RevokeEffect ==
    ASSUME TypeOK, NEW t \in StoredTokens, Revoke(t)
    PROVE  /\ tokens' \in [TokenIds -> Token \union {NoToken}]
           /\ StoredTokens' = StoredTokens
           /\ \A s \in StoredTokens : /\ tokens'[s].session = tokens[s].session
                                      /\ tokens'[s].expires = tokens[s].expires
           /\ \A s \in TokenIds \ {t} : tokens'[s] = tokens[s]
           /\ tokens'[t].revoked
<1> DEFINE revoked == [tokens[t] EXCEPT !.revoked = TRUE]
<1>1. tokens[t] \in Token
    BY DEF TypeOK, StoredTokens
<1>2. /\ revoked \in Token /\ revoked.revoked
      /\ revoked.session = tokens[t].session /\ revoked.expires = tokens[t].expires
    BY <1>1 DEF Token
<1>3. /\ tokens' = [tokens EXCEPT ![t] = revoked]
      /\ tokens \in [TokenIds -> Token \union {NoToken}]
    BY DEF TypeOK, Revoke
<1> HIDE DEF revoked
<1>4. QED
    BY <1>2, <1>3, AbsentAssumption DEF StoredTokens

LEMMA IssueEffect ==
    ASSUME TypeOK, NEW h \in Handlers, NEW t \in TokenIds, Issue(h, t)
    PROVE  /\ tokens' \in [TokenIds -> Token \union {NoToken}]
           /\ t \notin StoredTokens /\ StoredTokens' = StoredTokens \union {t}
           /\ \A s \in TokenIds \ {t} : tokens'[s] = tokens[s]
           /\ ~tokens'[t].revoked
           /\ tokens'[t].session = IF token[h] = NoId THEN t ELSE tokens[token[h]].session
<1> DEFINE fresh == [user    |-> IF token[h] = NoId THEN body[h]
                                 ELSE tokens[token[h]].user,
                     session |-> IF token[h] = NoId THEN t ELSE tokens[token[h]].session,
                     expires |-> now + RefreshTtl,
                     revoked |-> FALSE]
<1>1. /\ token[h] # NoId => tokens[token[h]] \in Token /\ token[h] \in StoredTokens
      /\ token[h] = NoId => body[h] \in Emails
    BY DEF Issue, TypeOK, StoredTokens
<1>2. now + RefreshTtl \in 0 .. Horizon + RefreshTtl
    BY TokenAssumption DEF TypeOK
<1>3. fresh \in Token /\ ~fresh.revoked
    BY <1>1, <1>2 DEF Token
<1>4. fresh.session = IF token[h] = NoId THEN t ELSE tokens[token[h]].session
    OBVIOUS
<1>5. /\ tokens' = [tokens EXCEPT ![t] = fresh] /\ t \notin StoredTokens
      /\ tokens \in [TokenIds -> Token \union {NoToken}]
    BY DEF Issue, TypeOK
<1> HIDE DEF fresh
<1>6. QED
    BY <1>3, <1>4, <1>5, AbsentAssumption DEF StoredTokens

-----------------------------------------------------------------------------
(* Type correctness. *)

LEMMA TypeStep == TypeOK /\ [Next]_vars => TypeOK'
<1> SUFFICES ASSUME TypeOK, [Next]_vars PROVE TypeOK'
    OBVIOUS
<1> USE TokenAssumption, AbsentAssumption
<1>1. ASSUME NEW h \in Handlers, NEW e \in Emails,
             RegisterCheck(h, e) \/ LoginFind(h, e)
      PROVE  TypeOK'
    <2>1. e # NoBody
        OBVIOUS
    <2>2. UNCHANGED StoredTokens
        BY <1>1 DEF RegisterCheck, LoginFind, tables, StoredTokens
    <2>3. QED
        BY <1>1, <2>1, <2>2
        DEF TypeOK, RegisterCheck, LoginFind, Goto, Points, tables, history
<1>2. ASSUME NEW h \in Handlers, NEW t \in TokenIds, RefreshFind(h, t) \/ LogoutFind(h, t)
      PROVE  TypeOK'
    <2>1. UNCHANGED StoredTokens /\ t \in StoredTokens /\ tokens[t].session \in StoredTokens
        BY <1>2 DEF RefreshFind, LogoutFind, Valid, Found, Find, tables, StoredTokens, TypeOK
    <2>2. contended' \subseteq StoredTokens
        BY <1>2, <2>1 DEF RefreshFind, LogoutFind, Find, NoteOverlap, TypeOK
    <2>3. t # NoId
        BY DEF StoredTokens
    <2>4. QED
        BY <1>2, <2>1, <2>2, <2>3
        DEF TypeOK, RefreshFind, LogoutFind, Find, Goto, Points, tables
<1>3. ASSUME NEW h \in Handlers, RegisterCreate(h)
      PROVE  TypeOK'
    <2>1. UNCHANGED StoredTokens
        BY <1>3 DEF RegisterCreate, StoredTokens
    <2>2. body[h] \in Emails
        BY <1>3 DEF RegisterCreate, TypeOK
    <2>3. QED
        BY <1>3, <2>1, <2>2 DEF TypeOK, RegisterCreate, Rest, Goto, Points, history
<1>4. ASSUME NEW h \in Handlers, RefreshRotate(h) \/ LogoutRevoke(h)
      PROVE  TypeOK'
    <2>1. token[h] \in StoredTokens /\ Revoke(token[h])
        BY <1>4 DEF TypeOK, RefreshRotate, LogoutRevoke
    <2>2. /\ tokens' \in [TokenIds -> Token \union {NoToken}]
          /\ StoredTokens' = StoredTokens
          /\ \A t \in StoredTokens : tokens'[t].session = tokens[t].session
        BY <2>1, RevokeEffect
    <2>3. ended' \subseteq StoredTokens
        BY <1>4, <2>1 DEF TypeOK, RefreshRotate, LogoutRevoke, history
    <2>4. CASE RefreshRotate(h)
        BY <2>2, <2>3, <2>4 DEF TypeOK, RefreshRotate, Goto, Points, history
    <2>5. CASE LogoutRevoke(h)
        BY <2>2, <2>3, <2>5 DEF TypeOK, LogoutRevoke, Rest, Goto, Points
    <2>6. QED
        BY <1>4, <2>4, <2>5
<1>5. ASSUME NEW h \in Handlers, NEW t \in TokenIds, Issue(h, t)
      PROVE  TypeOK'
    <2>1. /\ tokens' \in [TokenIds -> Token \union {NoToken}]
          /\ StoredTokens' = StoredTokens \union {t}
          /\ \A s \in TokenIds \ {t} : tokens'[s] = tokens[s]
          /\ tokens'[t].session \in StoredTokens \union {t}
        BY <1>5, IssueEffect DEF TypeOK
    <2>2. \A s \in StoredTokens' : tokens'[s].session \in StoredTokens'
        BY <2>1 DEF TypeOK, StoredTokens
    <2>3. QED
        BY <1>5, <2>1, <2>2 DEF TypeOK, Issue, Rest, Goto, Points, history
<1>6. ASSUME NEW h \in Handlers, Abort(h)
      PROVE  TypeOK'
    <2>1. UNCHANGED StoredTokens
        BY <1>6 DEF Abort, tables, StoredTokens
    <2>2. lost' \subseteq StoredTokens
        BY <1>6 DEF Abort, TypeOK
    <2>3. QED
        BY <1>6, <2>1, <2>2 DEF TypeOK, Abort, Rest, Goto, Points, tables
<1>7. CASE Tick
    BY <1>7 DEF TypeOK, Tick, tables, local, history, StoredTokens
<1>8. CASE UNCHANGED vars
    BY <1>8 DEF TypeOK, vars, StoredTokens
<1>9. QED
    BY <1>1, <1>2, <1>3, <1>4, <1>5, <1>6, <1>7, <1>8 DEF Next

\* The variables keep to their types, and every token that is referred to is
\* stored: rows of refresh_tokens are never deleted (auth.repository.ts).
THEOREM TypeCorrect == Spec => []TypeOK
<1>1. Init => TypeOK
    BY TokenAssumption, AbsentAssumption DEF Init, TypeOK, StoredTokens, Points
<1>2. QED
    BY <1>1, TypeStep, PTL DEF Spec

-----------------------------------------------------------------------------
(* The sessions.  The invariant adds that a request which is about to revoke
   a token is the only one, and the token still stands, unless requests for a
   token of that session overlapped. *)

Revoking(h) == pc[h] \in {"rotate", "logout"}

SoleRevoker(h) ==
    Revoking(h) /\ tokens[token[h]].session \notin contended
      => /\ ~tokens[token[h]].revoked
         /\ \A k \in Handlers : Revoking(k) /\ token[k] = token[h] => k = h

SessionOK(s) ==
    s \notin contended =>
        /\ AtMostOne(Holders(s))
        /\ s \in ended => Holders(s) = {}
        /\ s \in Sessions \ (ended \union lost) => Holders(s) # {}

SessionInv ==
    /\ TypeOK
    /\ \A h \in Handlers : SoleRevoker(h)
    /\ \A s \in TokenIds : SessionOK(s)

\* A step that leaves the holders of sessions alone, and ends none.
LEMMA SameHolders ==
    ASSUME SessionInv, UNCHANGED <<tokens, ended, lost>>, contended \subseteq contended',
           NEW s \in TokenIds, Issuing(s)' = Issuing(s)
    PROVE  SessionOK(s)'
<1>1. Holders(s)' = Holders(s) /\ Sessions' = Sessions
    BY DEF Holders, StoredTokens, Sessions
<1>2. s \notin contended' => s \notin contended
    OBVIOUS
<1>3. QED
    BY <1>1, <1>2 DEF SessionInv, SessionOK, AtMostOne

LEMMA FindStep ==
    ASSUME SessionInv, NEW h \in Handlers, NEW t \in TokenIds,
           RefreshFind(h, t) \/ LogoutFind(h, t), TypeOK'
    PROVE  SessionInv'
<1>1. PICK point \in {"rotate", "logout"} :
        /\ pc[h] = "idle" /\ pc' = [pc EXCEPT ![h] = point]
        /\ token' = [token EXCEPT ![h] = t] /\ UNCHANGED <<tokens, ended, lost>>
        /\ NoteOverlap(h, t) /\ t \in StoredTokens /\ ~tokens[t].revoked
    BY DEF RefreshFind, LogoutFind, Find, Found, Valid, Goto, tables
<1>2. contended \subseteq contended'
    BY <1>1 DEF NoteOverlap
<1>3. ASSUME NEW s \in TokenIds PROVE SessionOK(s)'
    <2>1. Issuing(s)' = Issuing(s)
        BY <1>1 DEF Issuing, SessionInv, TypeOK
    <2>2. QED
        BY <1>1, <1>2, <2>1, SameHolders
<1>4. ASSUME NEW k \in Handlers, Revoking(k)', tokens[token'[k]].session \notin contended'
      PROVE  /\ ~tokens[token'[k]].revoked
             /\ \A j \in Handlers : Revoking(j)' /\ token'[j] = token'[k] => j = k
    <2>1. tokens[t].session \notin contended' => ~\E j \in Handlers : Revoking(j) /\ token[j] = t
        BY <1>1 DEF NoteOverlap, Revoking
    <2>2. \A j \in Handlers \ {h} : (Revoking(j)' <=> Revoking(j)) /\ token'[j] = token[j]
        BY <1>1 DEF Revoking, SessionInv, TypeOK
    <2>3. token'[h] = t
        BY <1>1 DEF SessionInv, TypeOK
    <2>4. CASE k = h
        BY <1>1, <1>4, <2>1, <2>2, <2>3, <2>4
    <2>5. CASE k # h
        <3>1. /\ ~tokens[token[k]].revoked
              /\ \A j \in Handlers : Revoking(j) /\ token[j] = token[k] => j = k
            BY <1>2, <1>4, <2>2, <2>5 DEF SessionInv, SoleRevoker
        <3>2. token[k] # t
            BY <1>4, <2>1, <2>2, <2>5
        <3>3. QED
            BY <2>2, <2>3, <2>5, <3>1, <3>2
    <2>6. QED
        BY <2>4, <2>5
<1>5. \A k \in Handlers : SoleRevoker(k)'
    BY <1>1, <1>4 DEF SoleRevoker
<1>6. QED
    BY <1>3, <1>5 DEF SessionInv

\* Handler h, which no longer revokes anything after the step, is out of the
\* others' way.
LEMMA OthersRevoke ==
    ASSUME SessionInv, NEW h \in Handlers, TypeOK', UNCHANGED contended, ~Revoking(h)',
           \A k \in Handlers \ {h} : pc'[k] = pc[k] /\ token'[k] = token[k],
           \A k \in Handlers \ {h} : Revoking(k) /\ tokens[token[k]].session \notin contended
             => tokens'[token[k]] = tokens[token[k]],
           \A k \in Handlers : Revoking(k)
             => tokens'[token[k]].session = tokens[token[k]].session
    PROVE  \A k \in Handlers : SoleRevoker(k)'
<1> SUFFICES ASSUME NEW k \in Handlers, Revoking(k)', tokens'[token'[k]].session \notin contended
             PROVE  /\ ~tokens'[token'[k]].revoked
                    /\ \A j \in Handlers : Revoking(j)' /\ token'[j] = token'[k] => j = k
    BY DEF SoleRevoker
<1>1. k # h
    OBVIOUS
<1>2. Revoking(k) /\ token'[k] = token[k]
    BY <1>1 DEF Revoking
<1>3. SoleRevoker(k) /\ tokens[token[k]].session \notin contended
    BY <1>2 DEF SessionInv
<1>4. \A j \in Handlers : Revoking(j)' => j # h /\ Revoking(j) /\ token'[j] = token[j]
    BY DEF Revoking
<1>5. QED
    BY <1>1, <1>2, <1>3, <1>4 DEF SoleRevoker

-----------------------------------------------------------------------------
(* What each write does to the holders of the sessions: those of the session
   it is about move on, and the other sessions keep theirs. *)

LEMMA RotateHolders ==
    ASSUME SessionInv, NEW h \in Handlers, RefreshRotate(h),
           NEW s0 \in TokenIds, s0 = tokens[token[h]].session
    PROVE  /\ StoredTokens' = StoredTokens /\ Sessions' = Sessions
           /\ \A s \in TokenIds \ {s0} : Holders(s)' = Holders(s)
           /\ s0 \notin contended =>
                Holders(s0) = {token[h]} /\ Holders(s0)' = {h} /\ s0 \notin ended
<1> DEFINE t == token[h]
<1>1. /\ pc[h] = "rotate" /\ t \in StoredTokens /\ t # NoId /\ Revoke(t)
      /\ pc' = [pc EXCEPT ![h] = "issue"] /\ UNCHANGED token
    BY DEF RefreshRotate, SessionInv, TypeOK, Goto
<1>2. /\ StoredTokens' = StoredTokens /\ tokens'[t].revoked
      /\ \A s \in StoredTokens : tokens'[s].session = tokens[s].session
      /\ \A s \in TokenIds \ {t} : tokens'[s] = tokens[s]
    BY <1>1, RevokeEffect DEF SessionInv
<1>3. \A s \in TokenIds :
        Issuing(s)' = Issuing(s) \union (IF s = s0 THEN {h} ELSE {})
    <2>1. \A k \in Handlers \ {h} : pc'[k] = pc[k]
        BY <1>1 DEF SessionInv, TypeOK
    <2>2. pc'[h] = "issue" /\ \A s \in TokenIds : h \notin Issuing(s)
        BY <1>1 DEF SessionInv, TypeOK, Issuing
    <2>3. \A k \in Handlers : token[k] # NoId
            => tokens'[token[k]].session = tokens[token[k]].session
        BY <1>2 DEF SessionInv, TypeOK
    <2>4. QED
        BY <1>1, <2>1, <2>2, <2>3 DEF Issuing
<1>4. \A s \in TokenIds \ {s0} : Holders(s)' = Holders(s)
    BY <1>2, <1>3 DEF Holders, StoredTokens
<1>5. ASSUME s0 \notin contended
      PROVE  Holders(s0) = {t} /\ Holders(s0)' = {h} /\ s0 \notin ended
    <2>1. t \in Holders(s0)
        BY <1>1, <1>5 DEF Holders, SessionInv, SoleRevoker, Revoking
    <2>2. Holders(s0) = {t} /\ s0 \notin ended
        BY <1>5, <2>1 DEF SessionInv, SessionOK, AtMostOne
    <2>3. Issuing(s0) = {}
        BY <1>1, <2>2, TokenAssumption DEF Holders, Issuing, StoredTokens
    <2>4. \A u \in StoredTokens : tokens'[u].session = s0 => tokens'[u].revoked
        <3>1. ASSUME NEW u \in StoredTokens \ {t}, tokens'[u].session = s0
              PROVE  tokens'[u].revoked
            <4>1. u \notin Holders(s0) /\ tokens'[u] = tokens[u]
                BY <1>2, <2>2 DEF StoredTokens
            <4>2. QED
                BY <3>1, <4>1 DEF Holders
        <3>2. QED
            BY <1>2, <3>1
    <2>5. QED
        BY <1>2, <1>3, <2>2, <2>3, <2>4 DEF Holders
<1>6. QED
    BY <1>2, <1>4, <1>5 DEF Sessions

LEMMA LogoutHolders ==
    ASSUME SessionInv, NEW h \in Handlers, LogoutRevoke(h),
           NEW s0 \in TokenIds, s0 = tokens[token[h]].session
    PROVE  /\ StoredTokens' = StoredTokens /\ Sessions' = Sessions
           /\ \A s \in TokenIds \ {s0} : Holders(s)' = Holders(s)
           /\ s0 \notin contended => Holders(s0) = {token[h]} /\ Holders(s0)' = {}
<1> DEFINE t == token[h]
<1>1. /\ pc[h] = "logout" /\ t \in StoredTokens /\ t # NoId /\ Revoke(t)
      /\ pc'[h] = "idle"
      /\ \A k \in Handlers \ {h} : pc'[k] = pc[k] /\ token'[k] = token[k]
    BY DEF LogoutRevoke, SessionInv, TypeOK, Rest, Goto
<1>2. /\ StoredTokens' = StoredTokens /\ tokens'[t].revoked
      /\ \A s \in StoredTokens : tokens'[s].session = tokens[s].session
      /\ \A s \in TokenIds \ {t} : tokens'[s] = tokens[s]
    BY <1>1, RevokeEffect DEF SessionInv
<1>3. \A s \in TokenIds : Issuing(s)' = Issuing(s)
    <2>1. \A k \in Handlers : token[k] # NoId
            => tokens'[token[k]].session = tokens[token[k]].session
        BY <1>2 DEF SessionInv, TypeOK
    <2>2. QED
        BY <1>1, <2>1 DEF Issuing
<1>4. \A s \in TokenIds \ {s0} : Holders(s)' = Holders(s)
    BY <1>2, <1>3 DEF Holders, StoredTokens
<1>5. ASSUME s0 \notin contended
      PROVE  Holders(s0) = {t} /\ Holders(s0)' = {}
    <2>1. t \in Holders(s0)
        BY <1>1, <1>5 DEF Holders, SessionInv, SoleRevoker, Revoking
    <2>2. Holders(s0) = {t}
        BY <1>5, <2>1 DEF SessionInv, SessionOK, AtMostOne
    <2>3. Issuing(s0) = {}
        BY <1>1, <2>2, TokenAssumption DEF Holders, Issuing, StoredTokens
    <2>4. QED
        BY <1>2, <1>3, <2>2, <2>3 DEF Holders, StoredTokens
<1>6. QED
    BY <1>2, <1>4, <1>5 DEF Sessions

LEMMA IssueHolders ==
    ASSUME SessionInv, NEW h \in Handlers, NEW t \in TokenIds, Issue(h, t),
           NEW s1 \in TokenIds,
           s1 = IF token[h] = NoId THEN t ELSE tokens[token[h]].session
    PROVE  /\ t \notin StoredTokens /\ StoredTokens' = StoredTokens \union {t}
           /\ Sessions' \subseteq Sessions \union {s1}
           /\ \A s \in TokenIds \ {s1} : Holders(s)' = Holders(s)
           /\ s1 \notin contended =>
                /\ Holders(s1) = IF token[h] = NoId THEN {} ELSE {h}
                /\ Holders(s1)' = {t} /\ s1 \notin ended
<1>1. /\ pc[h] = "issue"
      /\ pc'[h] = "idle" /\ token'[h] = NoId
      /\ \A k \in Handlers \ {h} : pc'[k] = pc[k] /\ token'[k] = token[k]
    BY DEF Issue, Rest, Goto, SessionInv, TypeOK
<1>2. /\ t \notin StoredTokens /\ StoredTokens' = StoredTokens \union {t}
      /\ \A s \in TokenIds \ {t} : tokens'[s] = tokens[s]
      /\ ~tokens'[t].revoked /\ tokens'[t].session = s1
    BY IssueEffect DEF SessionInv
<1>3. \A k \in Handlers : token[k] # NoId
        => token[k] \in StoredTokens /\ tokens'[token[k]] = tokens[token[k]]
    BY <1>2 DEF SessionInv, TypeOK, StoredTokens
<1>4. \A s \in TokenIds : Issuing(s)' = Issuing(s) \ {h}
    BY <1>1, <1>3 DEF Issuing
<1>5. ASSUME NEW s \in TokenIds \ {s1} PROVE Holders(s)' = Holders(s)
    <2>1. h \notin Issuing(s)
        BY <1>5 DEF Issuing
    <2>2. QED
        BY <1>2, <1>4, <1>5, <2>1 DEF Holders, StoredTokens
<1>6. ASSUME NEW s \in Sessions', s # s1 PROVE s \in Sessions
    <2>1. s \in StoredTokens' /\ tokens'[s].session = s
        BY DEF Sessions
    <2>2. s # t /\ s \in TokenIds
        BY <1>2, <1>6, <2>1 DEF StoredTokens
    <2>3. QED
        BY <1>2, <2>1, <2>2 DEF Sessions
<1>7. ASSUME s1 \notin contended
      PROVE  /\ Holders(s1) = IF token[h] = NoId THEN {} ELSE {h}
             /\ Holders(s1)' = {t} /\ s1 \notin ended
    <2>1. /\ Holders(s1) = IF token[h] = NoId THEN {} ELSE {h}
          /\ s1 \notin ended
        <3>1. CASE token[h] = NoId
            <4>1. s1 \notin StoredTokens
                BY <1>2, <3>1
            <4>2. \A u \in StoredTokens : tokens[u].session # s1
                BY <4>1 DEF SessionInv, TypeOK
            <4>3. QED
                BY <3>1, <4>1, <4>2, <1>3 DEF Holders, Issuing, SessionInv, TypeOK
        <3>2. CASE token[h] # NoId
            <4>1. h \in Holders(s1)
                BY <1>1, <3>2 DEF Holders, Issuing
            <4>2. QED
                BY <1>7, <3>2, <4>1 DEF SessionInv, SessionOK, AtMostOne
        <3>3. QED
            BY <3>1, <3>2
    <2>2. Issuing(s1)' = {}
        BY <1>4, <2>1 DEF Holders
    <2>3. \A u \in StoredTokens : tokens[u].session = s1 => tokens[u].revoked
        BY <2>1, TokenAssumption DEF Holders, StoredTokens
    <2>4. \A u \in StoredTokens : tokens'[u] = tokens[u]
        BY <1>2 DEF StoredTokens
    <2>5. Holders(s1)' = {t}
        BY <1>2, <2>2, <2>3, <2>4 DEF Holders
    <2>6. QED
        BY <2>1, <2>5
<1>8. QED
    BY <1>2, <1>5, <1>6, <1>7

LEMMA AbortHolders ==
    ASSUME SessionInv, NEW h \in Handlers, Abort(h)
    PROVE  /\ StoredTokens' = StoredTokens /\ Sessions' = Sessions
           /\ \A s \in TokenIds :
                IF h \in Issuing(s) THEN Holders(s)' = Holders(s) \ {h} /\ s \in lost'
                                    ELSE Holders(s)' = Holders(s)
<1>1. /\ UNCHANGED tokens
      /\ pc[h] = "issue" /\ token[h] # NoId => tokens[token[h]].session \in lost'
      /\ pc'[h] = "idle"
      /\ \A k \in Handlers \ {h} : pc'[k] = pc[k] /\ token'[k] = token[k]
    BY DEF Abort, Rest, Goto, SessionInv, TypeOK, tables
<1>2. StoredTokens' = StoredTokens /\ Sessions' = Sessions
    BY <1>1 DEF Sessions, StoredTokens
<1>3. ASSUME NEW s \in TokenIds
      PROVE  IF h \in Issuing(s) THEN Holders(s)' = Holders(s) \ {h} /\ s \in lost'
                                 ELSE Holders(s)' = Holders(s)
    <2>1. Issuing(s)' = Issuing(s) \ {h}
        BY <1>1 DEF Issuing
    <2>2. h \notin StoredTokens
        BY TokenAssumption DEF StoredTokens
    <2>3. h \in Issuing(s) => s \in lost'
        BY <1>1 DEF Issuing
    <2>4. QED
        BY <1>1, <1>2, <2>1, <2>2, <2>3 DEF Holders
<1>4. QED
    BY <1>2, <1>3

-----------------------------------------------------------------------------
(* The steps keep the invariant. *)

LEMMA RotateStep ==
    ASSUME SessionInv, NEW h \in Handlers, RefreshRotate(h), TypeOK'
    PROVE  SessionInv'
<1> DEFINE t == token[h]
<1>1. /\ pc[h] = "rotate" /\ t \in StoredTokens /\ t # NoId /\ Revoke(t)
      /\ pc' = [pc EXCEPT ![h] = "issue"] /\ UNCHANGED <<token, ended, lost, contended>>
    BY DEF RefreshRotate, SessionInv, TypeOK, Goto, history
<1>2. PICK s0 \in TokenIds : s0 = tokens[t].session
    BY <1>1 DEF SessionInv, TypeOK, StoredTokens
<1>3. \A k \in Handlers : SoleRevoker(k)'
    <2>1. /\ \A s \in StoredTokens : tokens'[s].session = tokens[s].session
          /\ \A s \in TokenIds \ {t} : tokens'[s] = tokens[s]
        BY <1>1, RevokeEffect DEF SessionInv
    <2>2. \A k \in Handlers : Revoking(k) => token[k] \in StoredTokens
        BY DEF SessionInv, TypeOK, Revoking
    <2>3. ~Revoking(h)' /\ \A k \in Handlers \ {h} : pc'[k] = pc[k]
        BY <1>1 DEF SessionInv, TypeOK, Revoking
    <2>4. \A k \in Handlers \ {h} : Revoking(k) /\ tokens[token[k]].session \notin contended
            => tokens'[token[k]] = tokens[token[k]]
        BY <1>1, <2>1, <2>2 DEF StoredTokens, SessionInv, SoleRevoker, Revoking
    <2>5. QED
        BY <1>1, <2>1, <2>2, <2>3, <2>4, OthersRevoke
<1>4. \A s \in TokenIds : SessionOK(s)'
    BY <1>1, <1>2, RotateHolders DEF SessionInv, SessionOK, AtMostOne
<1>5. QED
    BY <1>3, <1>4 DEF SessionInv

LEMMA LogoutStep ==
    ASSUME SessionInv, NEW h \in Handlers, LogoutRevoke(h), TypeOK'
    PROVE  SessionInv'
<1> DEFINE t == token[h]
<1>1. /\ pc[h] = "logout" /\ t \in StoredTokens /\ Revoke(t)
      /\ pc'[h] = "idle"
      /\ \A k \in Handlers \ {h} : pc'[k] = pc[k] /\ token'[k] = token[k]
      /\ ended' = ended \union {tokens[t].session} /\ UNCHANGED <<lost, contended>>
    BY DEF LogoutRevoke, SessionInv, TypeOK, Rest, Goto
<1>2. PICK s0 \in TokenIds : s0 = tokens[t].session
    BY <1>1 DEF SessionInv, TypeOK, StoredTokens
<1>3. \A k \in Handlers : SoleRevoker(k)'
    <2>1. /\ \A s \in StoredTokens : tokens'[s].session = tokens[s].session
          /\ \A s \in TokenIds \ {t} : tokens'[s] = tokens[s]
        BY <1>1, RevokeEffect DEF SessionInv
    <2>2. \A k \in Handlers : Revoking(k) => token[k] \in StoredTokens
        BY DEF SessionInv, TypeOK, Revoking
    <2>3. ~Revoking(h)'
        BY <1>1 DEF Revoking
    <2>4. \A k \in Handlers \ {h} : Revoking(k) /\ tokens[token[k]].session \notin contended
            => tokens'[token[k]] = tokens[token[k]]
        BY <1>1, <2>1, <2>2 DEF StoredTokens, SessionInv, SoleRevoker, Revoking
    <2>5. QED
        BY <1>1, <2>1, <2>2, <2>3, <2>4, OthersRevoke
<1>4. \A s \in TokenIds : SessionOK(s)'
    BY <1>1, <1>2, LogoutHolders DEF SessionInv, SessionOK, AtMostOne
<1>5. QED
    BY <1>3, <1>4 DEF SessionInv

LEMMA IssueStep ==
    ASSUME SessionInv, NEW h \in Handlers, NEW t \in TokenIds, Issue(h, t), TypeOK'
    PROVE  SessionInv'
<1>1. /\ UNCHANGED <<ended, lost, contended>>
      /\ pc'[h] = "idle"
      /\ \A k \in Handlers \ {h} : pc'[k] = pc[k] /\ token'[k] = token[k]
    BY DEF Issue, Rest, Goto, SessionInv, TypeOK, history
<1>2. PICK s1 \in TokenIds : s1 = IF token[h] = NoId THEN t ELSE tokens[token[h]].session
    BY DEF SessionInv, TypeOK, StoredTokens
<1>3. \A k \in Handlers : SoleRevoker(k)'
    <2>1. t \notin StoredTokens /\ \A s \in TokenIds \ {t} : tokens'[s] = tokens[s]
        BY IssueEffect DEF SessionInv
    <2>2. \A k \in Handlers : Revoking(k) => tokens'[token[k]] = tokens[token[k]]
        BY <2>1 DEF SessionInv, TypeOK, StoredTokens, Revoking
    <2>3. ~Revoking(h)'
        BY <1>1 DEF Revoking
    <2>4. QED
        BY <1>1, <2>2, <2>3, OthersRevoke
<1>4. \A s \in TokenIds : SessionOK(s)'
    BY <1>1, <1>2, IssueHolders DEF SessionInv, SessionOK, AtMostOne
<1>5. QED
    BY <1>3, <1>4 DEF SessionInv

LEMMA AbortStep ==
    ASSUME SessionInv, NEW h \in Handlers, Abort(h), TypeOK'
    PROVE  SessionInv'
<1>1. /\ UNCHANGED <<tokens, ended, contended>> /\ lost \subseteq lost'
      /\ pc'[h] = "idle"
      /\ \A k \in Handlers \ {h} : pc'[k] = pc[k] /\ token'[k] = token[k]
    BY DEF Abort, Rest, Goto, SessionInv, TypeOK, tables
<1>2. \A k \in Handlers : SoleRevoker(k)'
    BY <1>1, OthersRevoke DEF Revoking
<1>3. \A s \in TokenIds : SessionOK(s)'
    BY <1>1, AbortHolders DEF SessionInv, SessionOK, AtMostOne
<1>4. QED
    BY <1>2, <1>3 DEF SessionInv

\* The steps that touch neither tokens nor the requests that have found one.
LEMMA QuietStep ==
    ASSUME SessionInv, TypeOK', UNCHANGED <<tokens, token, ended, lost, contended>>,
           \A k \in Handlers : \/ pc'[k] = pc[k]
                               \/ token[k] = NoId /\ ~Revoking(k) /\ ~Revoking(k)'
    PROVE  SessionInv'
<1>1. \A s \in TokenIds : Issuing(s)' = Issuing(s)
    BY DEF Issuing
<1>2. \A s \in TokenIds : SessionOK(s)'
    BY <1>1, SameHolders
<1>3. \A k \in Handlers : Revoking(k)' <=> Revoking(k)
    BY DEF Revoking
<1>4. \A k \in Handlers : SoleRevoker(k)'
    BY <1>3 DEF SessionInv, SoleRevoker
<1>5. QED
    BY <1>2, <1>4 DEF SessionInv

LEMMA SessionStep == SessionInv /\ [Next]_vars => SessionInv'
<1> SUFFICES ASSUME SessionInv, [Next]_vars PROVE SessionInv'
    OBVIOUS
<1>1. TypeOK'
    BY TypeStep DEF SessionInv
<1>2. ASSUME NEW h \in Handlers, NEW e \in Emails,
             RegisterCheck(h, e) \/ LoginFind(h, e)
      PROVE  SessionInv'
    <2>1. /\ UNCHANGED <<tokens, token, ended, lost, contended>> /\ pc[h] = "idle"
          /\ \A k \in Handlers \ {h} : pc'[k] = pc[k]
          /\ pc'[h] \in {"create", "issue"} /\ token[h] = NoId
        BY <1>2 DEF RegisterCheck, LoginFind, Goto, tables, history, SessionInv, TypeOK
    <2>2. \A k \in Handlers : \/ pc'[k] = pc[k]
                              \/ token[k] = NoId /\ ~Revoking(k) /\ ~Revoking(k)'
        BY <2>1 DEF Revoking
    <2>3. QED
        BY <1>1, <2>1, <2>2, QuietStep
<1>3. ASSUME NEW h \in Handlers, RegisterCreate(h)
      PROVE  SessionInv'
    <2>1. /\ UNCHANGED <<tokens, token, ended, lost, contended>> /\ pc[h] = "create"
          /\ \A k \in Handlers \ {h} : pc'[k] = pc[k]
          /\ pc'[h] = "idle" /\ token[h] = NoId
        BY <1>3 DEF RegisterCreate, Rest, Goto, history, SessionInv, TypeOK
    <2>2. \A k \in Handlers : \/ pc'[k] = pc[k]
                              \/ token[k] = NoId /\ ~Revoking(k) /\ ~Revoking(k)'
        BY <2>1 DEF Revoking
    <2>3. QED
        BY <1>1, <2>1, <2>2, QuietStep
<1>4. CASE Tick \/ UNCHANGED vars
    <2>1. UNCHANGED <<tokens, token, ended, lost, contended, pc>>
        BY <1>4 DEF Tick, vars, tables, local, history
    <2>2. QED
        BY <1>1, <2>1, QuietStep
<1>5. QED
    BY <1>1, <1>2, <1>3, <1>4, FindStep, RotateStep, LogoutStep, IssueStep, AbortStep DEF Next

THEOREM SessionInvariant == Spec => []SessionInv
<1>1. Init => TypeOK
    BY TokenAssumption, AbsentAssumption DEF Init, TypeOK, StoredTokens, Points
<1>2. Init => SessionInv
    BY <1>1 DEF Init, SessionInv, SoleRevoker, SessionOK, AtMostOne, Revoking,
                Holders, Issuing, StoredTokens, Sessions
<1>3. QED
    BY <1>2, SessionStep, PTL DEF Spec

\* Rotation leaves a session one usable token at most, or one refresh that is
\* about to store it, as long as no requests for one token overlap.
THEOREM OneToken == Spec => []OneTokenPerSession
<1>1. SessionInv => OneTokenPerSession
    BY DEF SessionInv, SessionOK, OneTokenPerSession, Sessions, StoredTokens
<1>2. QED
    BY <1>1, SessionInvariant, PTL

\* A logout that nothing overlapped leaves nothing of its session.
THEOREM LogoutEnds == Spec => []SessionEndsAtLogout
<1>1. SessionInv => SessionEndsAtLogout
    BY DEF SessionInv, SessionOK, SessionEndsAtLogout, TypeOK, StoredTokens
<1>2. QED
    BY <1>1, SessionInvariant, PTL

\* A session goes on until its own logout, unless its requests overlapped or
\* one of its refreshes died after the revocation.
THEOREM SessionGoesOn == Spec => []SessionKept
<1>1. SessionInv => SessionKept
    BY DEF SessionInv, SessionOK, SessionKept, Sessions, StoredTokens
<1>2. QED
    BY <1>1, SessionInvariant, PTL

-----------------------------------------------------------------------------
(* The action properties. *)

\* What keeps a session dead: none of its tokens comes back, and no refresh
\* of one begins.
LEMMA DeadFrame ==
    ASSUME TypeOK, TypeOK', NEW s \in TokenIds, Dead(s),
           StoredTokens \subseteq StoredTokens', now' = now \/ now' = now + 1,
           \A t \in StoredTokens :
               /\ tokens'[t].session = tokens[t].session
               /\ tokens'[t].expires = tokens[t].expires
               /\ tokens[t].revoked => tokens'[t].revoked,
           \A t \in StoredTokens' \ StoredTokens : tokens'[t].session # s,
           \A k \in Handlers : pc'[k] \in {"rotate", "issue"} /\ token'[k] # NoId
               => tokens'[token'[k]].session # s
    PROVE  Dead(s)'
<1>1. s \in Sessions'
    BY DEF Dead, Sessions
<1>2. ASSUME NEW t \in StoredTokens', tokens'[t].session = s
      PROVE  tokens'[t].revoked \/ Expired(t)'
    <2>1. t \in StoredTokens /\ tokens[t].session = s
        BY <1>2
    <2>2. tokens[t].revoked \/ Expired(t)
        BY <2>1 DEF Dead
    <2>3. tokens[t].expires \in Nat /\ now \in Nat
        BY <2>1, TokenAssumption DEF TypeOK, StoredTokens, Token
    <2>4. Expired(t) => Expired(t)'
        BY <2>1, <2>3 DEF Expired
    <2>5. QED
        BY <2>1, <2>2, <2>4
<1>3. QED
    BY <1>1, <1>2 DEF Dead

LEMMA DeadStep ==
    ASSUME TypeOK, [Next]_vars, NEW s \in TokenIds, Dead(s)
    PROVE  Dead(s)'
<1>1. TypeOK'
    BY TypeStep
<1>2. /\ \A t \in StoredTokens : tokens[t].session = s => tokens[t].revoked \/ Expired(t)
      /\ \A k \in Handlers : pc[k] \in {"rotate", "issue"} /\ token[k] # NoId
           => tokens[token[k]].session # s
      /\ s \in StoredTokens
    BY DEF Dead, Sessions
<1>3. ASSUME UNCHANGED tokens, now' = now \/ now' = now + 1,
             \A k \in Handlers : pc'[k] \in {"rotate", "issue"} /\ token'[k] # NoId
                 => tokens[token'[k]].session # s
      PROVE  Dead(s)'
    <2>1. StoredTokens' = StoredTokens
        BY <1>3 DEF StoredTokens
    <2>2. QED
        BY <1>1, <1>3, <2>1, DeadFrame
<1>4. ASSUME NEW h \in Handlers, NEW e \in Emails,
             RegisterCheck(h, e) \/ LoginFind(h, e)
      PROVE  Dead(s)'
    <2>1. /\ UNCHANGED <<tokens, now, token>> /\ token[h] = NoId
          /\ \A k \in Handlers \ {h} : pc'[k] = pc[k]
        BY <1>4 DEF RegisterCheck, LoginFind, Goto, tables, TypeOK
    <2>2. QED
        BY <1>2, <1>3, <2>1
<1>5. ASSUME NEW h \in Handlers, RegisterCreate(h) \/ Abort(h)
      PROVE  Dead(s)'
    <2>1. /\ UNCHANGED <<tokens, now>> /\ token'[h] = NoId
          /\ \A k \in Handlers \ {h} : pc'[k] = pc[k] /\ token'[k] = token[k]
        BY <1>5 DEF RegisterCreate, Abort, Rest, Goto, tables, TypeOK
    <2>2. QED
        BY <1>2, <1>3, <2>1
<1>6. ASSUME NEW h \in Handlers, NEW t \in TokenIds, RefreshFind(h, t)
      PROVE  Dead(s)'
    <2>1. /\ UNCHANGED <<tokens, now>> /\ token'[h] = t
          /\ \A k \in Handlers \ {h} : pc'[k] = pc[k] /\ token'[k] = token[k]
        BY <1>6 DEF RefreshFind, Find, Goto, tables, TypeOK
    <2>2. t \in StoredTokens /\ ~tokens[t].revoked /\ ~Expired(t)
        BY <1>6 DEF RefreshFind, Valid, Found
    <2>3. tokens[t].session # s
        BY <1>2, <2>2
    <2>4. QED
        BY <1>2, <1>3, <2>1, <2>3
<1>7. ASSUME NEW h \in Handlers, NEW t \in TokenIds, LogoutFind(h, t)
      PROVE  Dead(s)'
    <2>1. /\ UNCHANGED <<tokens, now>> /\ pc'[h] = "logout"
          /\ \A k \in Handlers \ {h} : pc'[k] = pc[k] /\ token'[k] = token[k]
        BY <1>7 DEF LogoutFind, Find, Goto, tables, TypeOK
    <2>2. QED
        BY <1>2, <1>3, <2>1
<1>8. ASSUME NEW h \in Handlers, RefreshRotate(h) \/ LogoutRevoke(h)
      PROVE  Dead(s)'
    <2>1. /\ token[h] \in StoredTokens /\ Revoke(token[h]) /\ UNCHANGED now
          /\ \A k \in Handlers \ {h} : pc'[k] = pc[k] /\ token'[k] = token[k]
        BY <1>8 DEF RefreshRotate, LogoutRevoke, Rest, Goto, TypeOK
    <2>2. /\ StoredTokens' = StoredTokens /\ tokens'[token[h]].revoked
          /\ \A t \in StoredTokens : /\ tokens'[t].session = tokens[t].session
                                     /\ tokens'[t].expires = tokens[t].expires
          /\ \A t \in TokenIds \ {token[h]} : tokens'[t] = tokens[t]
        BY <2>1, RevokeEffect
    <2>3. \A t \in StoredTokens : tokens[t].revoked => tokens'[t].revoked
        BY <2>2 DEF StoredTokens
    <2>4. \A k \in Handlers : token[k] # NoId => token[k] \in StoredTokens
        BY DEF TypeOK
    <2>5. \/ pc[h] = "rotate" /\ token'[h] = token[h] /\ token[h] # NoId
          \/ pc'[h] = "idle" /\ token'[h] = NoId
        BY <1>8 DEF RefreshRotate, LogoutRevoke, Rest, Goto, TypeOK
    <2>6. \A k \in Handlers : pc'[k] \in {"rotate", "issue"} /\ token'[k] # NoId
            => tokens'[token'[k]].session # s
        BY <1>2, <2>1, <2>2, <2>4, <2>5
    <2>7. QED
        BY <1>1, <2>1, <2>2, <2>3, <2>6, DeadFrame
<1>9. ASSUME NEW h \in Handlers, NEW t \in TokenIds, Issue(h, t)
      PROVE  Dead(s)'
    <2>1. /\ pc[h] = "issue" /\ token'[h] = NoId /\ UNCHANGED now
          /\ \A k \in Handlers \ {h} : pc'[k] = pc[k] /\ token'[k] = token[k]
        BY <1>9 DEF Issue, Rest, Goto, TypeOK
    <2>2. /\ t \notin StoredTokens /\ StoredTokens' = StoredTokens \union {t}
          /\ \A u \in TokenIds \ {t} : tokens'[u] = tokens[u]
          /\ tokens'[t].session = IF token[h] = NoId THEN t ELSE tokens[token[h]].session
        BY <1>9, IssueEffect
    <2>3. \A u \in StoredTokens : tokens'[u] = tokens[u]
        BY <2>2 DEF StoredTokens
    <2>4. tokens'[t].session # s
        BY <1>2, <2>1, <2>2
    <2>5. \A k \in Handlers : token[k] # NoId => token[k] \in StoredTokens
        BY DEF TypeOK
    <2>6. \A k \in Handlers : pc'[k] \in {"rotate", "issue"} /\ token'[k] # NoId
            => tokens'[token'[k]].session # s
        BY <1>2, <2>1, <2>3, <2>5
    <2>7. QED
        BY <1>1, <2>1, <2>2, <2>3, <2>4, <2>6, DeadFrame
<1>10. CASE Tick \/ UNCHANGED vars
    BY <1>2, <1>3, <1>10 DEF Tick, vars, tables, local, history
<1>11. QED
    BY <1>4, <1>5, <1>6, <1>7, <1>8, <1>9, <1>10 DEF Next

\* A session whose tokens are all revoked or expired is over for good, also
\* when requests overlap and die at any point.
THEOREM DeadStayDead == Spec => DeadSessionsStayDead
<1>1. TypeOK /\ [Next]_vars => \A s \in TokenIds : Dead(s) => Dead(s)'
    BY DeadStep
<1>2. QED
    BY <1>1, TypeCorrect, PTL DEF Spec, DeadSessionsStayDead

-----------------------------------------------------------------------------
(* The sessions are chains. *)

\* A step about session s0 that no other session notices.
LEMMA ChainMoves ==
    ASSUME UNCHANGED contended, NEW s0 \in TokenIds,
           \A s \in TokenIds \ {s0} : Holders(s)' = Holders(s)
    PROVE  /\ ChainHolders' = [ChainHolders EXCEPT ![s0] =
                                 IF s0 \in contended THEN {} ELSE Holders(s0)']
           /\ s0 \in contended => UNCHANGED ChainHolders
<1>1. \A s \in TokenIds : s \in contended' <=> s \in contended
    OBVIOUS
<1>2. QED
    BY <1>1 DEF ChainHolders

LEMMA ChainRests ==
    ASSUME UNCHANGED contended, \A s \in TokenIds : Holders(s)' = Holders(s)
    PROVE  UNCHANGED ChainHolders
BY DEF ChainHolders

LEMMA ChainFind ==
    ASSUME SessionInv, NEW h \in Handlers, NEW t \in TokenIds,
           RefreshFind(h, t) \/ LogoutFind(h, t)
    PROVE  SC!ChainNext \/ UNCHANGED <<StoredTokens, ChainHolders, contended>>
<1>1. PICK point \in {"rotate", "logout"} :
        /\ pc[h] = "idle" /\ pc' = [pc EXCEPT ![h] = point]
        /\ token' = [token EXCEPT ![h] = t] /\ UNCHANGED tokens
        /\ NoteOverlap(h, t) /\ t \in StoredTokens /\ ~tokens[t].revoked
    BY DEF RefreshFind, LogoutFind, Find, Found, Valid, Goto, tables
<1>2. PICK s0 \in TokenIds : s0 = tokens[t].session
    BY <1>1 DEF SessionInv, TypeOK, StoredTokens
<1>3. StoredTokens' = StoredTokens
    BY <1>1 DEF StoredTokens
<1>4. ASSUME NEW s \in TokenIds PROVE Holders(s)' = Holders(s)
    <2>1. Issuing(s)' = Issuing(s)
        BY <1>1 DEF Issuing, SessionInv, TypeOK
    <2>2. QED
        BY <1>1, <1>3, <2>1 DEF Holders
<1>5. CASE UNCHANGED contended
    BY <1>3, <1>4, <1>5, ChainRests
<1>6. CASE contended' = contended \union {s0} /\ s0 \notin contended
    <2>1. t \in Holders(s0)
        BY <1>1, <1>2 DEF Holders
    <2>2. /\ ChainHolders[s0] # {}
          /\ ChainHolders' = [ChainHolders EXCEPT ![s0] = {}]
        BY <1>4, <1>6, <2>1 DEF ChainHolders
    <2>3. SC!Overlap(s0)
        BY <1>3, <1>6, <2>2 DEF SC!Overlap, SC!Hold
    <2>4. QED
        BY <2>3 DEF SC!ChainNext
<1>7. \/ UNCHANGED contended
      \/ contended' = contended \union {s0} /\ s0 \notin contended
    BY <1>1, <1>2 DEF NoteOverlap
<1>8. QED
    BY <1>5, <1>6, <1>7

LEMMA ChainRotate ==
    ASSUME SessionInv, NEW h \in Handlers, RefreshRotate(h)
    PROVE  SC!ChainNext \/ UNCHANGED <<StoredTokens, ChainHolders, contended>>
<1>1. token[h] \in StoredTokens /\ UNCHANGED contended
    BY DEF RefreshRotate, SessionInv, TypeOK, history
<1>2. PICK s0 \in TokenIds : s0 = tokens[token[h]].session
    BY <1>1 DEF SessionInv, TypeOK, StoredTokens
<1>3. /\ StoredTokens' = StoredTokens
      /\ \A s \in TokenIds \ {s0} : Holders(s)' = Holders(s)
      /\ s0 \notin contended => Holders(s0) = {token[h]} /\ Holders(s0)' = {h}
    BY <1>2, RotateHolders
<1>4. CASE s0 \in contended
    BY <1>1, <1>3, <1>4, ChainMoves
<1>5. CASE s0 \notin contended
    <2>1. /\ ChainHolders[s0] = {token[h]}
          /\ ChainHolders' = [ChainHolders EXCEPT ![s0] = {h}]
        BY <1>1, <1>3, <1>5, ChainMoves DEF ChainHolders
    <2>2. SC!Exchange(s0, token[h], h)
        BY <1>1, <1>3, <1>5, <2>1 DEF SC!Exchange, SC!Hold
    <2>3. QED
        BY <1>1, <2>2 DEF SC!ChainNext, StoredTokens
<1>6. QED
    BY <1>4, <1>5

LEMMA ChainLogout ==
    ASSUME SessionInv, NEW h \in Handlers, LogoutRevoke(h)
    PROVE  SC!ChainNext \/ UNCHANGED <<StoredTokens, ChainHolders, contended>>
<1>1. token[h] \in StoredTokens /\ UNCHANGED contended
    BY DEF LogoutRevoke, SessionInv, TypeOK
<1>2. PICK s0 \in TokenIds : s0 = tokens[token[h]].session
    BY <1>1 DEF SessionInv, TypeOK, StoredTokens
<1>3. /\ StoredTokens' = StoredTokens
      /\ \A s \in TokenIds \ {s0} : Holders(s)' = Holders(s)
      /\ s0 \notin contended => Holders(s0) = {token[h]} /\ Holders(s0)' = {}
    BY <1>2, LogoutHolders
<1>4. CASE s0 \in contended
    BY <1>1, <1>3, <1>4, ChainMoves
<1>5. CASE s0 \notin contended
    <2>1. /\ ChainHolders[s0] # {}
          /\ ChainHolders' = [ChainHolders EXCEPT ![s0] = {}]
        BY <1>1, <1>3, <1>5, ChainMoves DEF ChainHolders
    <2>2. SC!End(s0)
        BY <1>1, <1>3, <1>5, <2>1 DEF SC!End, SC!Hold
    <2>3. QED
        BY <2>2 DEF SC!ChainNext
<1>6. QED
    BY <1>4, <1>5

\* A login's first token starts its session; the next token of a refresh
\* carries the session on.
LEMMA ChainIssue ==
    ASSUME SessionInv, NEW h \in Handlers, NEW t \in TokenIds, Issue(h, t)
    PROVE  SC!ChainNext
<1>1. UNCHANGED contended
    BY DEF Issue, history
<1>2. PICK s1 \in TokenIds : s1 = IF token[h] = NoId THEN t ELSE tokens[token[h]].session
    BY DEF SessionInv, TypeOK, StoredTokens
<1>3. /\ t \notin StoredTokens /\ StoredTokens' = StoredTokens \union {t}
      /\ \A s \in TokenIds \ {s1} : Holders(s)' = Holders(s)
      /\ s1 \notin contended =>
           /\ Holders(s1) = IF token[h] = NoId THEN {} ELSE {h}
           /\ Holders(s1)' = {t}
    BY <1>2, IssueHolders
<1>4. /\ s1 \in contended => UNCHANGED ChainHolders
      /\ s1 \notin contended => ChainHolders' = [ChainHolders EXCEPT ![s1] = {t}]
    BY <1>1, <1>3, ChainMoves
<1>5. CASE s1 \in contended
    <2>1. SC!FreeDraw(t)
        BY <1>1, <1>3, <1>4, <1>5 DEF SC!FreeDraw
    <2>2. QED
        BY <2>1 DEF SC!ChainNext
<1>6. CASE s1 \notin contended /\ token[h] = NoId
    <2>1. SC!Start(s1)
        BY <1>1, <1>2, <1>3, <1>4, <1>6 DEF SC!Start, SC!Hold
    <2>2. QED
        BY <2>1 DEF SC!ChainNext
<1>7. CASE s1 \notin contended /\ token[h] # NoId
    <2>1. ChainHolders[s1] = {h}
        BY <1>3, <1>7 DEF ChainHolders
    <2>2. SC!Renew(s1, h, t)
        BY <1>1, <1>3, <1>4, <1>7, <2>1 DEF SC!Renew, SC!Hold
    <2>3. QED
        BY <2>2 DEF SC!ChainNext
<1>8. QED
    BY <1>5, <1>6, <1>7

LEMMA ChainAbort ==
    ASSUME SessionInv, NEW h \in Handlers, Abort(h)
    PROVE  SC!ChainNext \/ UNCHANGED <<StoredTokens, ChainHolders, contended>>
<1>1. UNCHANGED contended /\ StoredTokens' = StoredTokens
    BY AbortHolders DEF Abort
<1>2. CASE \E s0 \in TokenIds : h \in Issuing(s0)
    <2>1. PICK s0 \in TokenIds : h \in Issuing(s0)
        BY <1>2
    <2>2. \A s \in TokenIds \ {s0} : Holders(s)' = Holders(s)
        BY <2>1, AbortHolders DEF Issuing
    <2>3. CASE s0 \in contended
        BY <1>1, <2>2, <2>3, ChainMoves
    <2>4. CASE s0 \notin contended
        <3>1. h \in Holders(s0) /\ AtMostOne(Holders(s0))
            BY <2>1, <2>4 DEF Holders, SessionInv, SessionOK
        <3>2. Holders(s0)' = {}
            BY <2>1, <3>1, AbortHolders DEF AtMostOne
        <3>3. /\ ChainHolders[s0] # {}
              /\ ChainHolders' = [ChainHolders EXCEPT ![s0] = {}]
            BY <1>1, <2>2, <2>4, <3>1, <3>2, ChainMoves DEF ChainHolders
        <3>4. SC!End(s0)
            BY <1>1, <2>4, <3>3 DEF SC!End, SC!Hold
        <3>5. QED
            BY <3>4 DEF SC!ChainNext
    <2>5. QED
        BY <2>3, <2>4
<1>3. CASE \A s \in TokenIds : h \notin Issuing(s)
    <2>1. \A s \in TokenIds : Holders(s)' = Holders(s)
        BY <1>3, AbortHolders
    <2>2. QED
        BY <1>1, <2>1, ChainRests
<1>4. QED
    BY <1>2, <1>3

\* The steps before a token is found or drawn change no chain.
LEMMA ChainQuiet ==
    ASSUME UNCHANGED <<tokens, token, contended>>,
           \A k \in Handlers : pc'[k] = pc[k] \/ token[k] = NoId
    PROVE  UNCHANGED <<StoredTokens, ChainHolders, contended>>
<1>1. StoredTokens' = StoredTokens
    BY DEF StoredTokens
<1>2. \A s \in TokenIds : Issuing(s)' = Issuing(s)
    BY DEF Issuing
<1>3. \A s \in TokenIds : Holders(s)' = Holders(s)
    BY <1>1, <1>2 DEF Holders
<1>4. QED
    BY <1>1, <1>3, ChainRests

LEMMA ChainStep == SessionInv /\ [Next]_vars => [SC!ChainNext]_(SC!chainVars)
<1> SUFFICES ASSUME SessionInv, [Next]_vars
             PROVE  SC!ChainNext \/ UNCHANGED <<StoredTokens, ChainHolders, contended>>
    BY DEF SC!chainVars
<1>1. ASSUME NEW h \in Handlers,
             \/ RegisterCreate(h)
             \/ \E e \in Emails : RegisterCheck(h, e) \/ LoginFind(h, e)
      PROVE  UNCHANGED <<StoredTokens, ChainHolders, contended>>
    <2>1. /\ UNCHANGED <<tokens, contended>> /\ token[h] = NoId /\ token' = token
          /\ \A k \in Handlers \ {h} : pc'[k] = pc[k]
        BY <1>1 DEF RegisterCheck, LoginFind, RegisterCreate, Rest, Goto, tables, history,
                    SessionInv, TypeOK
    <2>2. QED
        BY <2>1, ChainQuiet
<1>2. ASSUME Tick \/ UNCHANGED vars
      PROVE  UNCHANGED <<StoredTokens, ChainHolders, contended>>
    BY <1>2, ChainQuiet DEF Tick, vars, tables, local, history
<1>3. QED
    BY <1>1, <1>2, ChainFind, ChainRotate, ChainLogout, ChainIssue, ChainAbort DEF Next

\* Login, refresh and logout implement the chains, whatever dies half way and
\* whoever presents which token when.
THEOREM ImplementsSessionChain == Spec => SessionsAreChains
<1>1. Init => SC!ChainInit
    BY AbsentAssumption
    DEF Init, SC!ChainInit, StoredTokens, ChainHolders, Holders, Issuing
<1>2. QED
    BY <1>1, ChainStep, SessionInvariant, PTL DEF Spec, SessionsAreChains, SC!ChainSpec

=============================================================================
