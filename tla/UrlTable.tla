------------------------------ MODULE UrlTable ------------------------------
(***************************************************************************)
(* The "urls" table of PostgreSQL as url.repository.ts uses it.  A table   *)
(* is a function from the ids a link may have to the row stored under the  *)
(* id, or NoRow.  The queries are operators on a table; each runs in one   *)
(* statement, so each is one read of the table.                            *)
(***************************************************************************)
EXTENDS Naturals

CONSTANTS
    Ids,        \* the uuids a row may be given
    Users,      \* the owners of links
    Names,      \* what may be written after the slash: codes and aliases
    Targets,    \* the original URLs
    Expiries,   \* the instants a link may expire at
    NoRow,      \* the absence of a row
    NoAlias,    \* SQL NULL in the column custom_alias
    Never       \* SQL NULL in the column expires_at

ASSUME SentinelAssumption ==
    /\ NoAlias \notin Names
    /\ Never \notin Nat
    /\ Expiries \subseteq Nat

Expiry == Expiries \union {Never}

Row == [owner: Users, code: Names, alias: Names \union {NoAlias},
        target: Targets, active: BOOLEAN, expires: Expiry]

ASSUME NoRowAssumption == NoRow \notin Row

Tables == [Ids -> Row \union {NoRow}]

Stored(t) == {i \in Ids : t[i] # NoRow}

(***************************************************************************)
(* The lookups by one UNIQUE column, findUnique in the code.               *)
(***************************************************************************)
FindByShortCode(t, n) == {i \in Stored(t) : t[i].code = n}

FindByCustomAlias(t, n) == {i \in Stored(t) : t[i].alias = n}

(***************************************************************************)
(* The lookup of the redirect: one OR over the two columns.  Each column   *)
(* is unique, the pair is not: two rows may match, and findFirst has no    *)
(* ORDER BY, so that either of them may be the answer.                     *)
(***************************************************************************)
FindByCodeOrAlias(t, n) == FindByShortCode(t, n) \union FindByCustomAlias(t, n)

FindByIdAndUserId(t, i, u) == i \in Stored(t) /\ t[i].owner = u

(***************************************************************************)
(* The two UNIQUE indexes.  NULL is distinct from NULL, as in SQL.         *)
(***************************************************************************)
UniqueViolation(t, code, alias) ==
    \/ FindByShortCode(t, code) # {}
    \/ alias # NoAlias /\ FindByCustomAlias(t, alias) # {}

Expired(expires, instant) == expires # Never /\ expires <= instant

=============================================================================
