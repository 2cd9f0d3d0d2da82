---------------------------- MODULE LinkCreation ----------------------------
(***************************************************************************)
(* What createUrl promises to its callers and to the readers of the table: *)
(* each request takes effect in one step.  In that step it stores its row  *)
(* and is answered, or it is refused for a reason that is true of the      *)
(* table at that moment.  An internal error tells nothing, and its row may *)
(* come after the answer, but even then at most one row is stored.         *)
(***************************************************************************)
EXTENDS UrlTable

CONSTANTS Requests, Inputs, Codes, Reserved, NoInput

VARIABLES
    urls,    \* the table
    used,    \* the ids that were ever given out
    asked,   \* asked[p]: what request p asks for
    reply,   \* reply[p]: how request p was answered
    doubt    \* the requests whose row may come after their internal error

creationVars == <<urls, used, asked, reply, doubt>>

CreationInit ==
    /\ urls = [i \in Ids |-> NoRow]
    /\ used = {}
    /\ asked = [p \in Requests |-> NoInput]
    /\ reply = [p \in Requests |-> "none"]
    /\ doubt = {}

\* A reserved alias is refused at once.
Ask(p, in) ==
    /\ asked[p] = NoInput
    /\ asked' = [asked EXCEPT ![p] = in]
    /\ reply' = IF in.alias \in Reserved
                THEN [reply EXCEPT ![p] = "ALIAS_RESERVED"] ELSE reply
    /\ UNCHANGED <<urls, used, doubt>>

Waiting(p) == asked[p] # NoInput /\ reply[p] = "none"

\* The row that request p asked for is stored.
Put(p, i, code) ==
    /\ i \notin used
    /\ ~UniqueViolation(urls, code, asked[p].alias)
    /\ urls' = [urls EXCEPT ![i] =
         [owner |-> asked[p].owner, code |-> code, alias |-> asked[p].alias,
          target |-> asked[p].target, active |-> TRUE, expires |-> asked[p].expires]]
    /\ used' = used \union {i}

Create(p, i, code) ==
    /\ Waiting(p)
    /\ Put(p, i, code)
    /\ \E r \in {"CREATED", "INTERNAL_ERROR"} : reply' = [reply EXCEPT ![p] = r]
    /\ UNCHANGED <<asked, doubt>>

CreateLate(p, i, code) ==
    /\ p \in doubt
    /\ Put(p, i, code)
    /\ doubt' = doubt \ {p}
    /\ UNCHANGED <<asked, reply>>

\* The reasons that are true of the table.
Reasons(in) ==
    {r \in {"ALIAS_ALREADY_EXISTS", "SHORT_CODE_GENERATION_FAILED", "INTERNAL_ERROR"} :
        /\ r = "ALIAS_ALREADY_EXISTS" =>
             in.alias # NoAlias /\ FindByCodeOrAlias(urls, in.alias) # {}
        /\ r = "SHORT_CODE_GENERATION_FAILED" =>
             \E code \in Codes : UniqueViolation(urls, code, in.alias)}

Refuse(p) ==
    /\ Waiting(p)
    /\ \E r \in Reasons(asked[p]) :
         /\ reply' = [reply EXCEPT ![p] = r]
         /\ \/ UNCHANGED doubt
            \/ r = "INTERNAL_ERROR" /\ doubt' = doubt \union {p}
    /\ UNCHANGED <<urls, used, asked>>

Remove(i) ==
    /\ i \in Stored(urls)
    /\ urls' = [urls EXCEPT ![i] = NoRow]
    /\ UNCHANGED <<used, asked, reply, doubt>>

CreationNext ==
    \/ \E p \in Requests :
         \/ \E in \in Inputs : Ask(p, in)
         \/ \E i \in Ids, code \in Codes : Create(p, i, code) \/ CreateLate(p, i, code)
         \/ Refuse(p)
    \/ \E i \in Ids : Remove(i)

CreationSpec == CreationInit /\ [][CreationNext]_creationVars

=============================================================================
