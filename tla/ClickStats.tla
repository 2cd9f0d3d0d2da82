------------------------------ MODULE ClickStats ------------------------------
(***************************************************************************)
(* The statistics of a link, as the queries on the table click_events      *)
(* compute them: the summary, and the clicks of every day.                 *)
(*                                                                         *)
(* A table of clicks is a finite set of records; instants are milliseconds *)
(* since 1970, and dates the days since, in UTC.                           *)
(***************************************************************************)
EXTENDS UrlTable, Integers, FiniteSetTheorems, TLAPS

DAY == 24 * 60 * 60 * 1000

ClickTable(C) == IsFiniteSet(C) /\ \A c \in C : c.clickedAt \in Nat

daysAgo(now, days) == now - days * DAY

\* WHERE url_id = link AND clicked_at >= since.
ClicksSince(C, link, since) == {c \in C : c.urlId = link /\ c.clickedAt >= since}

AllClicks(C, link) == {c \in C : c.urlId = link}

getAnalyticsSummary(C, link, now) ==
    [totalClicks |-> Cardinality(AllClicks(C, link)),
     clicksLast24Hours |-> Cardinality(ClicksSince(C, link, daysAgo(now, 1))),
     clicksLast7Days |-> Cardinality(ClicksSince(C, link, daysAgo(now, 7))),
     clicksLast30Days |-> Cardinality(ClicksSince(C, link, daysAgo(now, 30)))]

DATE(instant) == instant \div DAY

\* The groups of the query: a number for each date that has clicks.
getDailyAnalytics(C, link, now, days) ==
    LET counted == ClicksSince(C, link, daysAgo(now, days))
    IN  [d \in {DATE(c.clickedAt) : c \in counted} |->
            Cardinality({c \in counted : DATE(c.clickedAt) = d})]

\* The parameter days of the daily statistics: Number() reads it for the
\* validation, parseInt() for the query.
ValidDays(param) == param.given => param.Number \in 1 .. 365

daysOf(param) == IF param.given /\ param.string THEN param.parseInt ELSE 30

\* Whether the statistics of a link are answered to a user.
verifyOwnership(t, link, user) ==
    IF link \notin Stored(t) THEN "not found"
    ELSE IF t[link].owner # user THEN "forbidden" ELSE "ok"

-----------------------------------------------------------------------------
(* Theorems. *)

LEMMA CountsOrdered ==
    ASSUME NEW C, ClickTable(C), NEW S \in SUBSET C, NEW T \in SUBSET S
    PROVE  /\ Cardinality(T) \in Nat /\ Cardinality(S) \in Nat
           /\ Cardinality(T) <= Cardinality(S)
BY FS_Subset, FS_CardinalityType DEF ClickTable

\* The numbers of a summary are nested, whatever the clicks are: the four
\* counts are of one statement, with one instant (analytics.repository.ts 31-52).
THEOREM SummaryNested ==
    ASSUME NEW C, ClickTable(C), NEW link, NEW now \in Nat
    PROVE  LET s == getAnalyticsSummary(C, link, now)
           IN  /\ s.clicksLast24Hours <= s.clicksLast7Days
               /\ s.clicksLast7Days <= s.clicksLast30Days
               /\ s.clicksLast30Days <= s.totalClicks
<1> DEFINE days(n) == ClicksSince(C, link, daysAgo(now, n))
<1>1. /\ days(1) \subseteq days(7) /\ days(7) \subseteq days(30)
      /\ days(30) \subseteq AllClicks(C, link) /\ AllClicks(C, link) \subseteq C
    BY DEF ClicksSince, AllClicks, ClickTable, daysAgo, DAY
<1> HIDE DEF days
<1>2. /\ Cardinality(days(1)) <= Cardinality(days(7))
      /\ Cardinality(days(7)) <= Cardinality(days(30))
      /\ Cardinality(days(30)) <= Cardinality(AllClicks(C, link))
    BY <1>1, CountsOrdered
<1>3. QED
    BY <1>2 DEF getAnalyticsSummary, days

LEMMA DateTypes ==
    ASSUME NEW s \in Int, NEW t \in Int, s <= t
    PROVE  DATE(s) \in Int /\ DATE(s) <= DATE(t)
BY DEF DATE, DAY

LEMMA DateDaysAgo ==
    ASSUME NEW now \in Nat, NEW days \in Nat
    PROVE  DATE(daysAgo(now, days)) = DATE(now) - days /\ daysAgo(now, days) \in Int
BY DEF DATE, daysAgo, DAY

\* The statistics by day have at most one entry more than there are days, if
\* no click is in the future: the first is of the rest of a day.
THEOREM DailyEntries ==
    ASSUME NEW C, ClickTable(C), NEW link, NEW now \in Nat, NEW days \in Nat,
           \A c \in C : c.clickedAt <= now
    PROVE  Cardinality(DOMAIN getDailyAnalytics(C, link, now, days)) <= days + 1
<1> DEFINE D == DOMAIN getDailyAnalytics(C, link, now, days)
           counted == ClicksSince(C, link, daysAgo(now, days))
           first == DATE(now) - days
<1>1. D = {DATE(c.clickedAt) : c \in counted}
    BY DEF getDailyAnalytics
<1>2. DATE(now) \in Int /\ first \in Int
    BY DateTypes
<1>3. ASSUME NEW c \in counted PROVE DATE(c.clickedAt) \in first .. DATE(now)
    <2>1. c.clickedAt \in Int /\ daysAgo(now, days) <= c.clickedAt /\ c.clickedAt <= now
        BY DateDaysAgo DEF ClicksSince, ClickTable
    <2>2. /\ DATE(c.clickedAt) \in Int /\ DATE(c.clickedAt) <= DATE(now)
          /\ DATE(daysAgo(now, days)) <= DATE(c.clickedAt)
        BY <2>1, DateTypes, DateDaysAgo
    <2>3. QED
        BY <1>2, <2>2, DateDaysAgo
<1> HIDE DEF D, counted
<1>4. D \subseteq first .. DATE(now)
    BY <1>1, <1>3
<1>5. IsFiniteSet(first .. DATE(now)) /\ Cardinality(first .. DATE(now)) = days + 1
    BY <1>2, FS_Interval
<1>6. Cardinality(D) <= days + 1
    BY <1>4, <1>5, FS_Subset
<1>7. QED
    BY <1>6 DEF D

\* The entry of a date does not depend on the number of days that was asked
\* for, except for the first date: it counts all the clicks of the link on that
\* date (analytics.repository.ts 68-79).
THEOREM DailyComplete ==
    ASSUME NEW C, ClickTable(C), NEW link, NEW now \in Nat, NEW days \in Nat,
           NEW d \in DOMAIN getDailyAnalytics(C, link, now, days), d # DATE(now) - days
    PROVE  getDailyAnalytics(C, link, now, days)[d]
              = Cardinality({c \in AllClicks(C, link) : DATE(c.clickedAt) = d})
<1> DEFINE counted == ClicksSince(C, link, daysAgo(now, days))
<1>1. d \in {DATE(c.clickedAt) : c \in counted}
    BY DEF getDailyAnalytics
<1>2. ASSUME NEW c \in counted PROVE DATE(now) - days <= DATE(c.clickedAt)
    <2>1. c.clickedAt \in Int /\ daysAgo(now, days) <= c.clickedAt
        BY DEF ClicksSince, ClickTable
    <2>2. QED
        BY <2>1, DateTypes, DateDaysAgo
<1>3. DATE(now) - days < d
    <2>1. PICK c \in counted : d = DATE(c.clickedAt)
        BY <1>1
    <2>2. d \in Int /\ DATE(now) \in Int
        BY <2>1, DateTypes DEF ClicksSince, ClickTable
    <2>3. QED
        BY <1>2, <2>1, <2>2
<1>4. ASSUME NEW c \in AllClicks(C, link), DATE(c.clickedAt) = d PROVE c \in counted
    <2>1. c.clickedAt \in Int /\ c \in C /\ c.urlId = link
        BY DEF AllClicks, ClickTable
    <2>2. CASE c.clickedAt < daysAgo(now, days)
        <3>1. DATE(c.clickedAt) <= DATE(now) - days
            BY <2>1, <2>2, DateTypes, DateDaysAgo
        <3>2. DATE(c.clickedAt) \in Int /\ DATE(now) \in Int
            BY <2>1, DateTypes
        <3>3. QED
            BY <1>3, <1>4, <3>1, <3>2
    <2>3. CASE c.clickedAt >= daysAgo(now, days)
        BY <2>1, <2>3 DEF ClicksSince
    <2>4. QED
        BY <2>1, <2>2, <2>3, DateDaysAgo
<1>5. {c \in counted : DATE(c.clickedAt) = d} = {c \in AllClicks(C, link) : DATE(c.clickedAt) = d}
    BY <1>4 DEF ClicksSince, AllClicks
<1>6. QED
    BY <1>1, <1>5 DEF getDailyAnalytics

=============================================================================
