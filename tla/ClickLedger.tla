---------------------------- MODULE ClickLedger ----------------------------
(***************************************************************************)
(* What the click store promises whoever reads it: a batch is entered as a *)
(* whole, rows and counters together, or not at all, and a purge takes a   *)
(* link away together with its rows.  The other models use RecordBatch and *)
(* PurgeExpired as single steps in this sense.                              *)
(***************************************************************************)
EXTENDS Integers, FiniteSets

CONSTANTS Links, Clicks, LinkOf

VARIABLES
    rows,    \* the clicks table
    count,   \* click_count of each link
    gone     \* links that have been hard-deleted

vars == <<rows, count, gone>>

ClicksOn(S, l) == {c \in S : LinkOf[c] = l}

Init == rows = {} /\ count = [l \in Links |-> 0] /\ gone = {}

Enter(B) ==
    /\ B # {} /\ B \subseteq Clicks \ rows
    /\ \A c \in B : LinkOf[c] \notin gone
    /\ rows' = rows \cup B
    /\ count' = [l \in Links |-> count[l] + Cardinality(ClicksOn(B, l))]
    /\ UNCHANGED gone

Remove(L) ==
    /\ L # {} /\ L \subseteq Links \ gone
    /\ gone' = gone \cup L
    /\ rows' = {c \in rows : LinkOf[c] \notin L}
    /\ count' = [l \in Links |-> IF l \in L THEN 0 ELSE count[l]]

\* What was entered or removed is what a step adds to rows or to gone.
Next == Enter(rows' \ rows) \/ Remove(gone' \ gone)

Spec == Init /\ [][Next]_vars
=============================================================================
