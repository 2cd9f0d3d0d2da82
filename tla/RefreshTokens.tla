---------------------------- MODULE RefreshTokens ----------------------------
(***************************************************************************)
(* Accounts and refresh tokens: auth.service.ts over the tables users and  *)
(* refresh_tokens.  A handler is one request in progress; a step is one    *)
(* round trip to PostgreSQL and the code up to the next one.               *)
(*                                                                         *)
(* A session is what a login starts and refreshes carry on: the tokens     *)
(* that descend from the login's token, which also names the session.  The *)
(* code keeps no such record; the properties need it.                      *)
(***************************************************************************)
EXTENDS Naturals

CONSTANTS
    Handlers,     \* slots for the requests in progress
    Emails,
    TokenIds,     \* the refresh tokens that are ever drawn
    RefreshTtl,   \* JWT_REFRESH_EXPIRY, in ticks of the clock
    Horizon,      \* bound: the clock stops here
    Crashes,      \* whether requests may die half way
    NoToken, NoId, NoBody

ASSUME TokenAssumption ==
    /\ RefreshTtl \in Nat /\ Horizon \in Nat
    /\ Crashes \in BOOLEAN
    /\ Handlers \intersect TokenIds = {}

\* A row of refresh_tokens; the session is not in the table.
Token == [user : Emails, session : TokenIds,
          expires : 0 .. Horizon + RefreshTtl, revoked : BOOLEAN]

ASSUME AbsentAssumption ==
    NoToken \notin Token /\ NoId \notin TokenIds /\ NoBody \notin Emails

VARIABLES
    accounts,   \* the addresses that the table users has a row for
    tokens,     \* the table refresh_tokens
    now,
    pc,         \* pc[h]: the round trip that handler h makes next
    body,       \* body[h]: the address that h registers or logs in
    token,      \* token[h]: the stored token h found for its request
    ended,      \* history: the sessions of which a logout revoked the token
    lost,       \* history: those whose refresh died after the revocation
    contended   \* history: those with overlapping requests for one token

tables == <<accounts, tokens>>
local == <<pc, body, token>>
history == <<ended, lost, contended>>
vars == <<accounts, tokens, now, pc, body, token, ended, lost, contended>>

Points == {"idle", "create", "issue", "rotate", "logout"}

StoredTokens == {t \in TokenIds : tokens[t] # NoToken}

TypeOK ==
    /\ accounts \subseteq Emails
    /\ tokens \in [TokenIds -> Token \union {NoToken}]
    /\ now \in 0 .. Horizon
    /\ pc \in [Handlers -> Points]
    /\ body \in [Handlers -> Emails \union {NoBody}]
    /\ token \in [Handlers -> TokenIds \union {NoId}]
    /\ \A t \in StoredTokens : tokens[t].session \in StoredTokens
    /\ \A h \in Handlers :
        /\ token[h] = NoId \/ token[h] \in StoredTokens
        /\ pc[h] \in {"rotate", "logout"} => token[h] # NoId
        /\ pc[h] \in {"idle", "create"} => token[h] = NoId
        /\ body[h] # NoBody <=> pc[h] \in {"create", "issue"} /\ token[h] = NoId
    /\ ended \subseteq StoredTokens
    /\ lost \subseteq StoredTokens
    /\ contended \subseteq StoredTokens

Init ==
    /\ accounts = {}
    /\ tokens = [t \in TokenIds |-> NoToken]
    /\ now = 0
    /\ pc = [h \in Handlers |-> "idle"]
    /\ body = [h \in Handlers |-> NoBody]
    /\ token = [h \in Handlers |-> NoId]
    /\ ended = {} /\ lost = {} /\ contended = {}

Goto(h, point) == pc' = [pc EXCEPT ![h] = point]

\* The request is answered, or dies.
Rest(h) ==
    /\ Goto(h, "idle")
    /\ body' = [body EXCEPT ![h] = NoBody]
    /\ token' = [token EXCEPT ![h] = NoId]

-----------------------------------------------------------------------------
(* register and login.  An address that is taken, or a wrong address or
   password at login, is answered 409 or 401 and changes no state. *)

RegisterCheck(h, e) ==
    /\ pc[h] = "idle"
    /\ e \notin accounts
    /\ Goto(h, "create")
    /\ body' = [body EXCEPT ![h] = e]
    /\ UNCHANGED <<tables, now, token, history>>

\* The address is unique: when it was taken meanwhile, Prisma throws P2002,
\* which is answered 500.
RegisterCreate(h) ==
    /\ pc[h] = "create"
    /\ accounts' = accounts \union {body[h]}
    /\ Rest(h)
    /\ UNCHANGED <<tokens, now, history>>

\* The password is right.
LoginFind(h, e) ==
    /\ pc[h] = "idle"
    /\ e \in accounts
    /\ Goto(h, "issue")
    /\ body' = [body EXCEPT ![h] = e]
    /\ UNCHANGED <<tables, now, token, history>>

-----------------------------------------------------------------------------
(* refresh and logout.  A token that is not found, or that has expired, is
   answered 401 (200 for a logout) and changes no state. *)

\* Mutant: without the condition that the token is not revoked.
FoundRevokedToo(t) == t \in StoredTokens

\* Mutant: the expiry is not compared.
ValidForever(t) == t \in StoredTokens /\ ~tokens[t].revoked

\* findRefreshTokenByHash: only tokens that are not revoked are found, so
\* that the answer TOKEN_REVOKED of refresh is never given.
Found(t) == t \in StoredTokens /\ ~tokens[t].revoked

Expired(t) == tokens[t].expires < now

Valid(t) == Found(t) /\ ~Expired(t)

\* History: another request that found the same token is still to revoke it.
NoteOverlap(h, t) ==
    LET overlap == \E k \in Handlers : pc[k] \in {"rotate", "logout"} /\ token[k] = t
    IN contended' = contended \union (IF overlap THEN {tokens[t].session} ELSE {})

Find(h, t, point) ==
    /\ pc[h] = "idle"
    /\ Goto(h, point)
    /\ token' = [token EXCEPT ![h] = t]
    /\ NoteOverlap(h, t)
    /\ UNCHANGED <<tables, now, body, ended, lost>>

RefreshFind(h, t) == Valid(t) /\ Find(h, t, "rotate")

LogoutFind(h, t) == Found(t) /\ Find(h, t, "logout")

\* Mutant: the row is deleted.
DeleteToken(t) == tokens' = [tokens EXCEPT ![t] = NoToken]

\* Mutant: revokeAllUserRefreshTokens, which the repository also has.
RevokeAll(t) ==
    tokens' = [s \in TokenIds |->
                 IF s \in StoredTokens /\ tokens[s].user = tokens[t].user
                 THEN [tokens[s] EXCEPT !.revoked = TRUE] ELSE tokens[s]]

\* revokeRefreshToken: by id, whether or not it was revoked meanwhile.
Revoke(t) == tokens' = [tokens EXCEPT ![t] = [@ EXCEPT !.revoked = TRUE]]

\* refresh: the old token is revoked; its user is there, for users are never
\* deleted, and gets a new pair.
RefreshRotate(h) ==
    /\ pc[h] = "rotate"
    /\ Revoke(token[h])
    /\ Goto(h, "issue")
    /\ UNCHANGED <<accounts, now, body, token, history>>

LogoutRevoke(h) ==
    /\ pc[h] = "logout"
    /\ Revoke(token[h])
    /\ ended' = ended \union {tokens[token[h]].session}
    /\ Rest(h)
    /\ UNCHANGED <<accounts, now, lost, contended>>

\* generateTokenPair, at the end of login and of refresh: a new token is
\* stored and the request is answered with it.
Issue(h, t) ==
    /\ pc[h] = "issue"
    /\ t \notin StoredTokens
    /\ tokens' = [tokens EXCEPT ![t] =
         [user    |-> IF token[h] = NoId THEN body[h] ELSE tokens[token[h]].user,
          session |-> IF token[h] = NoId THEN t ELSE tokens[token[h]].session,
          expires |-> now + RefreshTtl,
          revoked |-> FALSE]]
    /\ Rest(h)
    /\ UNCHANGED <<accounts, now, history>>

-----------------------------------------------------------------------------

\* The process stops, or PostgreSQL reports an error, before the next round
\* trip of the request (and after the last one, whose effect remains).
Abort(h) ==
    /\ Crashes
    /\ pc[h] # "idle"
    /\ lost' = lost \union (IF pc[h] = "issue" /\ token[h] # NoId
                            THEN {tokens[token[h]].session} ELSE {})
    /\ Rest(h)
    /\ UNCHANGED <<tables, now, ended, contended>>

Tick ==
    /\ now < Horizon
    /\ now' = now + 1
    /\ UNCHANGED <<tables, local, history>>

Next ==
    \/ \E h \in Handlers :
        \/ \E e \in Emails : RegisterCheck(h, e) \/ LoginFind(h, e)
        \/ \E t \in TokenIds : RefreshFind(h, t) \/ LogoutFind(h, t) \/ Issue(h, t)
        \/ RegisterCreate(h) \/ RefreshRotate(h) \/ LogoutRevoke(h) \/ Abort(h)
    \/ Tick

Spec == Init /\ [][Next]_vars

-----------------------------------------------------------------------------
(* Properties. *)

Sessions == {t \in StoredTokens : tokens[t].session = t}

\* The refreshes of session s between the revocation and the new token.
Issuing(s) ==
    {h \in Handlers : /\ pc[h] = "issue" /\ token[h] # NoId
                      /\ tokens[token[h]].session = s}

\* What keeps session s going: its tokens that are not revoked, and the
\* refreshes that are about to store one.
Holders(s) ==
    {t \in StoredTokens : tokens[t].session = s /\ ~tokens[t].revoked} \union Issuing(s)

AtMostOne(S) == \A x, y \in S : x = y

\* Rotation keeps one usable token per session, whatever fails in between and
\* whoever refreshes again with an old token, unless requests for one token
\* overlap (auth.service.ts 60-85).
OneTokenPerSession ==
    \A s \in Sessions \ contended : AtMostOne(Holders(s))

\* After a logout nothing of the session is left, neither a token nor a
\* refresh that will store one, again unless requests for one token overlap.
\* (A logout with a token that was already exchanged is answered 200 too, but
\* revokes nothing and ends no session: auth.service.ts 88-96.)
SessionEndsAtLogout ==
    \A s \in ended \ contended : Holders(s) = {}

\* A session goes on until it is logged out or expires: logins, refreshes and
\* logouts of other sessions leave it alone, also those of the same user.  The
\* one exception is a refresh that fails between its two writes, since the
\* revocation is not undone (auth.service.ts 77-85).  This is about the table:
\* when the answer is lost after the second write, the session goes on there
\* with a token that its client never got.
SessionKept ==
    \A s \in Sessions \ (ended \union contended \union lost) : Holders(s) # {}

\* What carries each session, as far as anything is promised of it.
ChainHolders == [s \in TokenIds |-> IF s \in contended THEN {} ELSE Holders(s)]

SC == INSTANCE SessionChain WITH
        drawn <- StoredTokens, holder <- ChainHolders, free <- contended

\* The requests of login, refresh and logout amount to chains of tokens
\* (auth.service.ts 46-103): only a login starts a session, which then goes
\* from token to token through one refresh at a time and ends for good, and
\* an overlap in one session does no harm to the others.
SessionsAreChains == SC!ChainSpec

\* Session s can no longer be carried on.
Dead(s) ==
    /\ s \in Sessions
    /\ \A t \in StoredTokens :
         tokens[t].session = s => tokens[t].revoked \/ Expired(t)
    /\ \A h \in Handlers :
         pc[h] \in {"rotate", "issue"} /\ token[h] # NoId
           => tokens[token[h]].session # s

\* A session whose tokens have all been revoked or have expired is over for
\* good: no token of it, presented by whomever at whatever time, starts it again.
DeadSessionsStayDead ==
    [][\A s \in TokenIds : Dead(s) => Dead(s)']_vars

\* README 213: "Each refresh invalidates the previous token, preventing
\* replay".  So no token is exchanged for two.
RefreshInvalidatesPrevious ==
    \A s \in Sessions : AtMostOne(Holders(s))

=============================================================================
