----------------------------- MODULE LinkQueries -----------------------------
(***************************************************************************)
(* The queries of an owner: one link, and the list of his links by page    *)
(* with filters, from the query string through the validation to Prisma.   *)
(*                                                                         *)
(* A value of JavaScript is a pair of its type and what it says: the       *)
(* string "20" is <<"string", 20>>, the number 20 is <<"number", 20>>.     *)
(***************************************************************************)
EXTENDS UrlTable, Integers, FiniteSets, TLAPS

undefined == <<"undefined">>
NaN == <<"NaN">>
Texts(S) == {"string"} \X S
number(n) == <<"number", n>>
boolean(b) == <<"boolean", b>>

\* The parameters of the query string, of which each may be missing.  Those
\* of the order and the search are left out.
Queries == [page: Texts(Int) \union {undefined}, limit: Texts(Int) \union {undefined},
            isActive: Texts(BOOLEAN) \union {undefined},
            expired: Texts(BOOLEAN) \union {undefined}]

-----------------------------------------------------------------------------
(* Validation. *)

\* What listUrlsSchema accepts.
Valid(q) ==
    /\ q.page # undefined => q.page[2] >= 1
    /\ q.limit # undefined => q.limit[2] \in 1 .. 100

ValidQueries == {q \in Queries : Valid(q)}

asBoolean(v) == IF v = undefined THEN undefined ELSE boolean(v[2])

\* What it makes of a query: numbers, booleans and defaults.
Parsed(q) ==
    [page |-> number(IF q.page = undefined THEN 1 ELSE q.page[2]),
     limit |-> number(IF q.limit = undefined THEN 20 ELSE q.limit[2]),
     isActive |-> asBoolean(q.isActive),
     expired |-> asBoolean(q.expired)]

\* What validate() hands on: the query as it came, since Express 5 does not let
\* it be assigned.
Validated(q) == q

-----------------------------------------------------------------------------
(* listByUser. *)

\* (page - 1) * limit, in numbers, with strings converted.
Skip(q) ==
    IF undefined \in {q.page, q.limit} THEN NaN ELSE number((q.page[2] - 1) * q.limit[2])

\* What Prisma takes for an optional argument of a type.
Takes(type, v) == v[1] \in {type, "undefined"}

Accepted(q) ==
    /\ Takes("number", Skip(q)) /\ Takes("number", q.limit)
    /\ Takes("boolean", q.isActive)

\* The flag expired is compared with === to true and to false.
Where(row, q, u, instant) ==
    /\ row.owner = u
    /\ q.isActive # undefined => row.active = q.isActive[2]
    /\ q.expired = boolean(TRUE) => Expired(row.expires, instant)
    /\ q.expired = boolean(FALSE) => ~Expired(row.expires, instant)

Matching(t, q, u, instant) == {i \in Stored(t) : Where(t[i], q, u, instant)}

\* The places, in the order that was asked for, of the links on a page.
OnPage(q, total) == {n \in 1 .. total : Skip(q)[2] < n /\ n <= Skip(q)[2] + q.limit[2]}

TotalPages(q, total) == (total + q.limit[2] - 1) \div q.limit[2]

listUrls(t, q, u, instant) ==
    IF Accepted(q)
      THEN LET total == Cardinality(Matching(t, q, u, instant))
           IN  [total |-> total, totalPages |-> TotalPages(q, total),
                data |-> OnPage(q, total)]
      ELSE "internal error"

\* GET /api/v1/urls
list(t, q, u, instant) == listUrls(t, Validated(q), u, instant)

getUrl(t, i, u) == IF FindByIdAndUserId(t, i, u) THEN t[i] ELSE NoRow

-----------------------------------------------------------------------------
(* Theorems. *)

\* Every listing fails: with a limit Prisma gets a string where it takes a
\* number, without one it gets NaN (url.repository.ts 102-108).
THEOREM ListingsRefused ==
    ASSUME NEW q \in ValidQueries, NEW t, NEW u, NEW instant
    PROVE  list(t, q, u, instant) = "internal error"
<1>1. CASE q.limit = undefined
    <2>1. Skip(q) = NaN
        BY <1>1 DEF Skip
    <2>2. ~Accepted(q)
        BY <2>1 DEF Accepted, Takes, NaN
    <2>3. QED
        BY <2>2 DEF list, listUrls, Validated
<1>2. CASE q.limit # undefined
    <2>1. q.limit[1] = "string"
        BY <1>2 DEF ValidQueries, Queries, Texts
    <2>2. ~Accepted(q)
        BY <2>1 DEF Accepted, Takes
    <2>3. QED
        BY <2>2 DEF list, listUrls, Validated
<1>3. QED
    BY <1>1, <1>2

LEMMA ParsedTypes ==
    ASSUME NEW q \in ValidQueries
    PROVE  \E p \in Nat \ {0}, n \in 1 .. 100 :
              /\ Parsed(q).page = number(p) /\ Parsed(q).limit = number(n)
              /\ Skip(Parsed(q)) = number((p - 1) * n)
<1> DEFINE p == IF q.page = undefined THEN 1 ELSE q.page[2]
           n == IF q.limit = undefined THEN 20 ELSE q.limit[2]
<1>1. q.page = undefined \/ (q.page[2] \in Int /\ q.page[2] >= 1)
    BY DEF ValidQueries, Queries, Texts, Valid
<1>2. q.limit = undefined \/ q.limit[2] \in 1 .. 100
    BY DEF ValidQueries, Valid
<1>3. p \in Nat \ {0} /\ n \in 1 .. 100
    BY <1>1, <1>2
<1>4. Parsed(q).page = number(p) /\ Parsed(q).limit = number(n)
    BY DEF Parsed
<1> HIDE DEF p, n
<1>5. undefined \notin {number(p), number(n)} /\ number(p)[2] = p /\ number(n)[2] = n
    BY DEF undefined, number
<1>6. Skip(Parsed(q)) = number((p - 1) * n)
    BY <1>4, <1>5 DEF Skip
<1>7. QED
    BY <1>3, <1>4, <1>6

\* It is the validation that makes them fail: what the schema returned is
\* accepted (validate.middleware.ts 21-24).
THEOREM ParsedAccepted ==
    ASSUME NEW q \in ValidQueries
    PROVE  Accepted(Parsed(q))
<1>1. Skip(Parsed(q))[1] = "number" /\ Parsed(q).limit[1] = "number"
    BY ParsedTypes DEF number
<1>2. Parsed(q).isActive[1] \in {"boolean", "undefined"}
    BY DEF Parsed, asBoolean, boolean, undefined
<1>3. QED
    BY <1>1, <1>2 DEF Accepted, Takes

\* Division with remainder, counted from 1.
LEMMA Pages ==
    ASSUME NEW n \in 1 .. 100, NEW m \in Nat \ {0}
    PROVE  LET p == (m - 1) \div n + 1
           IN  p \in Nat \ {0} /\ (p - 1) * n < m /\ m <= (p - 1) * n + n
<1>1. ((m - 1) \div n) \in Nat
    OBVIOUS
<1>2. m - 1 = (n * ((m - 1) \div n)) + ((m - 1) % n) /\ ((m - 1) % n) \in 0 .. (n - 1)
    OBVIOUS
<1> DEFINE d == (m - 1) \div n
           e == (m - 1) % n
<1>3. d \in Nat /\ e \in 0 .. n - 1 /\ m - 1 = n * d + e
    BY <1>1, <1>2
<1> HIDE DEF d, e
<1>4. d + 1 \in Nat \ {0} /\ (d + 1 - 1) * n < m /\ m <= (d + 1 - 1) * n + n
    BY <1>3
<1>5. QED
    BY <1>4 DEF d

\* Every link is on one of the pages, and none on two: the links of a listing are in one
\* order, of which a page has the places from skip on (url.repository.ts 102-109).
THEOREM PagesCover ==
    ASSUME NEW n \in 1 .. 100, NEW total \in Nat, NEW m \in 1 .. total
    PROVE  LET query(p) == [page |-> number(p), limit |-> number(n)]
           IN  \E p \in Nat \ {0} :
                 /\ p <= TotalPages(query(p), total)
                 /\ m \in OnPage(query(p), total)
                 /\ \A o \in Nat \ {0} : m \in OnPage(query(o), total) => o = p
<1> DEFINE query(p) == [page |-> number(p), limit |-> number(n)]
<1>1. PICK p \in Nat \ {0} : (p - 1) * n < m /\ m <= (p - 1) * n + n
    <2>1. m \in Nat \ {0}
        OBVIOUS
    <2>2. QED
        BY <2>1, Pages
<1>2. ASSUME NEW o \in Nat \ {0}
      PROVE  m \in OnPage(query(o), total) <=> (o - 1) * n < m /\ m <= (o - 1) * n + n
    <2>1. Skip(query(o)) = number((o - 1) * n) /\ query(o).limit = number(n)
        BY DEF Skip, number, undefined
    <2>2. QED
        BY <2>1 DEF OnPage, number
<1>3. ASSUME NEW o \in Nat \ {0}, (o - 1) * n < m /\ m <= (o - 1) * n + n PROVE o = p
    <2>1. ASSUME NEW a \in Nat, NEW b \in Nat, a < b,
                 m <= a * n + n, b * n < m
          PROVE  FALSE
        <3>1. a + 1 <= b
            BY <2>1
        <3>2. (a + 1) * n <= b * n /\ (a + 1) * n = a * n + n
            BY <3>1
        <3>3. QED
            BY <2>1, <3>2
    <2>2. o - 1 \in Nat /\ p - 1 \in Nat
        OBVIOUS
    <2>3. QED
        BY <1>1, <1>3, <2>1, <2>2
<1>4. p <= TotalPages(query(p), total)
    <2> DEFINE c == (total + n - 1) \div n
               e == (total + n - 1) % n
    <2>1. c \in Nat
        OBVIOUS
    <2>2. total + n - 1 = (n * c) + e /\ e \in 0 .. (n - 1)
        OBVIOUS
    <2>3. TotalPages(query(p), total) = c
        BY DEF TotalPages, number
    <2> HIDE DEF c, e, query
    <2>4. total <= c * n
        BY <2>1, <2>2
    <2>5. ASSUME c <= p - 1 PROVE FALSE
        <3>1. p - 1 \in Nat
            OBVIOUS
        <3>2. c * n <= (p - 1) * n
            BY <2>1, <2>5, <3>1
        <3>3. m <= total /\ m \in Nat /\ c * n \in Nat /\ (p - 1) * n \in Nat
            BY <2>1, <3>1
        <3>4. QED
            BY <1>1, <2>4, <3>2, <3>3
    <2>6. p <= c
        BY <2>1, <2>5
    <2>7. QED
        BY <2>3, <2>6
<1>5. QED
    BY <1>1, <1>2, <1>3, <1>4

\* As a string, the flag expired selects nothing and refuses nothing, where
\* the flags true and false of the schema part the links in two
\* (url.repository.ts 84-88).
THEOREM ExpiredFilter ==
    ASSUME NEW t \in Tables, NEW u \in Users, NEW instant \in Nat, NEW q \in Queries
    PROVE  LET with(v) == Matching(t, [q EXCEPT !.expired = v], u, instant)
           IN  /\ with(q.expired) = with(undefined)
               /\ with(boolean(TRUE)) \union with(boolean(FALSE)) = with(undefined)
               /\ with(boolean(TRUE)) \intersect with(boolean(FALSE)) = {}
<1>1. q.expired \notin {boolean(TRUE), boolean(FALSE)}
    <2>1. q.expired \in Texts(BOOLEAN) \union {undefined}
        BY DEF Queries
    <2>2. CASE q.expired = undefined
        BY <2>2 DEF undefined, boolean
    <2>3. CASE q.expired \in Texts(BOOLEAN)
        <3>1. q.expired[1] = "string" /\ boolean(TRUE)[1] = "boolean" /\ boolean(FALSE)[1] = "boolean"
            BY <2>3 DEF Texts, boolean
        <3>2. QED
            BY <3>1
    <2>4. QED
        BY <2>1, <2>2, <2>3
<1>2. undefined \notin {boolean(TRUE), boolean(FALSE)} /\ boolean(TRUE) # boolean(FALSE)
    BY DEF undefined, boolean
<1>3. QED
    BY <1>1, <1>2 DEF Matching, Where, Queries

=============================================================================
