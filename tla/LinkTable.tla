------------------------------ MODULE LinkTable ------------------------------
(***************************************************************************)
(* How the table of links evolves, whoever writes it: the ground that      *)
(* UrlCreate and UrlCache have in common.  Each of them sees the other's   *)
(* requests only as steps of this table.                                   *)
(***************************************************************************)
EXTENDS UrlTable

VARIABLES
    urls,    \* the table
    used     \* the ids that were ever given out

tableVars == <<urls, used>>

TableInit ==
    /\ urls \in Tables
    /\ used = Stored(urls)

OnlyRow(i) == urls' = [urls EXCEPT ![i] = urls'[i]]

\* A link is stored active, under a new id and under names that are free in
\* the columns they go to.
Add(i) ==
    /\ i \notin used
    /\ urls'[i] \in Row
    /\ urls'[i].active
    /\ ~UniqueViolation(urls, urls'[i].code, urls'[i].alias)
    /\ OnlyRow(i)
    /\ used' = used \union {i}

\* A link keeps its owner and its names as long as it lives.
Amend(i) ==
    /\ i \in Stored(urls)
    /\ urls'[i] \in Row
    /\ urls'[i].owner = urls[i].owner
    /\ urls'[i].code = urls[i].code
    /\ urls'[i].alias = urls[i].alias
    /\ OnlyRow(i)
    /\ UNCHANGED used

\* And it is gone for good.
Remove(i) ==
    /\ i \in Stored(urls)
    /\ urls' = [urls EXCEPT ![i] = NoRow]
    /\ UNCHANGED used

TableNext == \E i \in Ids : Add(i) \/ Amend(i) \/ Remove(i)

TableSpec == TableInit /\ [][TableNext]_tableVars

=============================================================================
