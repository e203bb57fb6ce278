------------------------------- MODULE Reports -------------------------------
(***************************************************************************)
(* The two pages the node serves (server/server.go).  GetTotalSummary      *)
(* tells how many transfers each pair of chains had, how many of them      *)
(* succeeded, and what they moved and earned per token; GetTransfer lists  *)
(* the latest rows.                                                        *)
(*                                                                         *)
(* Each takes its rows from one query and goes through them once, in the   *)
(* order the database returns them.  A summary is made for a pair of       *)
(* chains by the first row that is about that pair, be it an OUT, with a   *)
(* count of transfers, or an IN, without one.  A query whose connection    *)
(* breaks ends like one that is through: the error is not asked for.       *)
(*                                                                         *)
(* Left out: names and decimals, which only format what is printed, and    *)
(* the total of gas, which is not printed.                                 *)
(***************************************************************************)
EXTENDS Integers, Sequences, FiniteSetsExt, Functions

CONSTANTS
    Chains, Tokens,
    Tables,           \* the tables a request may find
    Limits,           \* the limits asked for; NoLimit is one that is no number
    DefaultLimit,     \* 500
    NoLimit

(* Every IN has the OUT it answers, on the mirrored pair of chains: an IN is *)
(* inserted by the callback that has inserted its OUT before, and neither is *)
(* ever deleted; that is InsPaired in RelayNodeInvariants.                   *)
ASSUME TablesAssumption ==
    \A table \in Tables :
    /\ IsFiniteSet(table)
    /\ \A row \in table :
       /\ {"id", "type", "status", "chain", "related", "token", "amount", "fee", "created"} = DOMAIN row
       /\ row.type \in {"OUT", "IN"}
       /\ row.chain \in Chains /\ row.related \in Chains
       /\ row.token \in Tokens
       /\ row.amount \in Nat /\ row.fee \in Nat /\ row.created \in Nat
    /\ \A row \in table : row.type = "IN" =>
          \E out \in table : /\ out.type = "OUT" /\ out.id = row.id
                             /\ out.chain = row.related /\ out.related = row.chain
    /\ \A row, other \in table : row.id = other.id /\ row.type = other.type => row = other

ASSUME LimitAssumption == Limits \subseteq Nat \union {NoLimit} /\ DefaultLimit \in Nat

VARIABLES
    table,      \* the rows of the database
    read,       \* those the query returned
    remaining,  \* those of them that have not been counted yet
    summary,    \* by pair of chains, source first
    limit,      \* of the rows GetTransfer lists, or NoLimit
    page        \* its lines

vars == <<table, read, remaining, summary, limit, page>>

NoFee == [volume |-> 0, fee |-> 0]
NoSummary == [outs |-> 0, successes |-> 0, fees |-> [t \in {} |-> NoFee]]

Init ==
    /\ table \in Tables
    /\ read = {}
    /\ remaining = {}
    /\ summary = [key \in {} |-> NoSummary]
    /\ limit = NoLimit
    /\ page = <<>>

-----------------------------------------------------------------------------
\* GetTotalSummary

\* The rows, or some of them if the connection breaks.
GetAllTransfers ==
    /\ read = {} /\ limit = NoLimit
    /\ read' \in SUBSET table
    /\ remaining' = read'
    /\ UNCHANGED <<table, summary, limit, page>>

Lookup(f, key, none) == IF key \in DOMAIN f THEN f[key] ELSE none
Store(f, key, value) == [k \in DOMAIN f \union {key} |-> IF k = key THEN value ELSE f[k]]

\* Fault: the summary is made by the OUT, over one that an IN has made already.
RecordOutAnew(row) ==
    LET key == <<row.chain, row.related>>
    IN  summary' = Store(summary, key,
                         [NoSummary EXCEPT !.outs = Lookup(summary, key, NoSummary).outs + 1])

RecordOut(row) ==
    LET key == <<row.chain, row.related>>
        s == Lookup(summary, key, NoSummary)
    IN  summary' = Store(summary, key, [s EXCEPT !.outs = @ + 1])

\* Fault: the fee of the last transfer stands for all.
EarnLast(s, row) ==
    LET f == Lookup(s.fees, row.token, NoFee)
    IN  [s EXCEPT !.fees = Store(@, row.token, [volume |-> f.volume + row.amount, fee |-> row.fee])]

Earn(s, row) ==
    LET f == Lookup(s.fees, row.token, NoFee)
    IN  [s EXCEPT !.fees = Store(@, row.token, [volume |-> f.volume + row.amount,
                                                fee |-> f.fee + row.fee])]

Sent == {"LOCKED", "REFUNDED", "CONFIRMED"}

\* Fault: every IN that was sent is one that succeeded.
RecordInSent(row) ==
    LET key == <<row.related, row.chain>>
        s == Lookup(summary, key, NoSummary)
    IN  summary' = IF row.status \notin Sent THEN summary
                   ELSE Store(summary, key, Earn([s EXCEPT !.successes = @ + 1], row))

RecordIn(row) ==
    LET key == <<row.related, row.chain>>
        s == Lookup(summary, key, NoSummary)
    IN  summary' = IF row.status \notin Sent THEN summary
                   ELSE Store(summary, key,
                              IF row.status # "CONFIRMED" THEN s
                              ELSE Earn([s EXCEPT !.successes = @ + 1], row))

RecordTransfer(row) ==
    /\ row \in remaining
    /\ remaining' = remaining \ {row}
    /\ \/ row.type = "OUT" /\ RecordOut(row)
       \/ row.type = "IN" /\ RecordIn(row)
    /\ UNCHANGED <<table, read, limit, page>>

-----------------------------------------------------------------------------
\* GetTransfer

\* Fault: the oldest rows come first.
OldestFirst(r, s) == r.created <= s.created

NewestFirst(r, s) == r.created >= s.created

Line(row) ==
    [id |-> row.id, type |-> row.type, status |-> row.status,
     transferAmount |-> row.amount + row.fee, created |-> row.created,
     route |-> IF row.type = "IN" THEN <<row.related, row.chain>> ELSE <<row.chain, row.related>>]

\* A limit that is no number is refused.
GetTransfer(asked) ==
    /\ read = {} /\ limit = NoLimit
    /\ asked # NoLimit
    /\ limit' = IF asked = 0 THEN DefaultLimit ELSE asked
    /\ UNCHANGED <<table, read, remaining, summary, page>>

\* Rows of one instant come in any order; the page may be written after any row.
GetAllTransfersWithLimit ==
    /\ limit # NoLimit
    /\ Len(page) < limit
    /\ \E row \in table :
          /\ Line(row) \notin Range(page)
          /\ \A other \in table : Line(other) \notin Range(page) => NewestFirst(row, other)
          /\ page' = Append(page, Line(row))
    /\ UNCHANGED <<table, read, remaining, summary, limit>>

-----------------------------------------------------------------------------
Next ==
    \/ GetAllTransfers
    \/ \E row \in table : RecordTransfer(row)
    \/ \E asked \in Limits : GetTransfer(asked)
    \/ GetAllTransfersWithLimit

Spec == Init /\ [][Next]_vars

-----------------------------------------------------------------------------
Written == read # {} /\ remaining = {}

\* What rows tell of the pair of chains from c to d.
Outs(rows, c, d) == {row \in rows : row.type = "OUT" /\ row.chain = c /\ row.related = d}
Ins(rows, c, d) == {row \in rows : row.type = "IN" /\ row.chain = d /\ row.related = c}
SentIns(rows, c, d) == {row \in Ins(rows, c, d) : row.status \in Sent}
Confirmed(rows, c, d) == {row \in Ins(rows, c, d) : row.status = "CONFIRMED"}
Paid(rows, c, d, t) == {row \in Confirmed(rows, c, d) : row.token = t}

Volume(rows) == MapThenSumSet(LAMBDA row : row.amount, rows)
Fees(rows) == MapThenSumSet(LAMBDA row : row.fee, rows)

\* The summary these rows call for.
SummaryOf(rows, c, d) ==
    [outs |-> Cardinality(Outs(rows, c, d)),
     successes |-> Cardinality(Confirmed(rows, c, d)),
     fees |-> [t \in {t \in Tokens : Paid(rows, c, d, t) # {}} |->
                  [volume |-> Volume(Paid(rows, c, d, t)), fee |-> Fees(Paid(rows, c, d, t))]]]

\* Whatever the order of the rows, a report all of them went into says of each pair
\* of chains how many transfers there were, how many succeeded, and what these
\* moved and earned; and it has no part for a pair without transfers.
ReportMatchesTable ==
    Written /\ read = table =>
       summary = [key \in {key \in Chains \X Chains : Outs(table, key[1], key[2]) # {}} |->
                     SummaryOf(table, key[1], key[2])]

\* A report that only some of the rows went into, as when the connection to the
\* database broke, claims nothing the table does not hold.
ReportNeverOverstates ==
    \A key \in DOMAIN summary :
       LET s == summary[key]
           c == key[1]
           d == key[2]
       IN  /\ s.outs <= Cardinality(Outs(table, c, d))
           /\ s.successes <= Cardinality(Confirmed(table, c, d))
           /\ \A t \in DOMAIN s.fees :
                 /\ s.fees[t].volume <= Volume(Paid(table, c, d, t))
                 /\ s.fees[t].fee <= Fees(Paid(table, c, d, t))

\* While the rows are gone through, the summaries sum up those that were counted:
\* an IN that was sent has made one as much as an OUT has.
Counted == read \ remaining

Routes(rows) == {key \in Chains \X Chains : \/ Outs(rows, key[1], key[2]) # {}
                                             \/ SentIns(rows, key[1], key[2]) # {}}

SummariesInv ==
    /\ table \in Tables /\ read \subseteq table /\ remaining \subseteq read
    /\ summary = [key \in Routes(Counted) |-> SummaryOf(Counted, key[1], key[2])]

\* Nothing newer is left out for what is listed, and the two rows of a transfer are
\* listed with the same pair of chains.
PageShowsLatest ==
    /\ \A k \in DOMAIN page : \A row \in table :
          row.created > page[k].created =>
             \E l \in 1 .. k : page[l].id = row.id /\ page[l].type = row.type
    /\ \A k, l \in DOMAIN page : page[k].id = page[l].id => page[k].route = page[l].route

\* The invariant behind these: what has been counted, and what is listed, is of the
\* table.
ReportsInv ==
    /\ SummariesInv
    /\ page \in Seq({Line(row) : row \in table})
    /\ PageShowsLatest
=============================================================================
