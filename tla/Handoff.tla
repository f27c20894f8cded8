------------------------------ MODULE Handoff ------------------------------
(***************************************************************************)
(* What an asynchronous hand-off promises its callers, whatever buffers,   *)
(* worker pools, batches and timers are behind it: an item is taken or     *)
(* turned away, once and for all; a taken item is dealt with exactly once; *)
(* and a shutdown that reports success has dealt with everything taken     *)
(* before it was asked for.  The analytics pipeline and the webhook        *)
(* dispatcher both implement it.                                            *)
(***************************************************************************)
CONSTANT Items

VARIABLES
    status,     \* where each item stands
    closed,     \* whether a shutdown has been asked for
    promised,   \* the items that shutdown owes
    report      \* what the shutdown has reported

vars == <<status, closed, promised, report>>

In(s) == {i \in Items : status[i] = s}

Init ==
    /\ status = [i \in Items |-> "new"]
    /\ closed = FALSE /\ promised = {} /\ report = "none"

\* An item may be taken even after the shutdown has reported: callers look at
\* the quit signal before they send.  Only what was taken before is owed.
Answer(i, s) ==
    /\ status[i] = "new" /\ s \in {"taken", "refused"}
    /\ status' = [status EXCEPT ![i] = s]
    /\ UNCHANGED <<closed, promised, report>>

\* Items are dealt with alone or in batches.
Settle(S) ==
    /\ S # {} /\ S \subseteq In("taken")
    /\ status' = [i \in Items |-> IF i \in S THEN "settled" ELSE status[i]]
    /\ UNCHANGED <<closed, promised, report>>

\* Owed is what is taken and not dealt with yet; whether the shutdown also
\* lists what is settled already makes no difference.
Close ==
    /\ ~closed /\ closed' = TRUE
    /\ In("taken") \subseteq promised'
    /\ promised' \subseteq In("taken") \cup In("settled")
    /\ UNCHANGED <<status, report>>

Report(r) ==
    /\ closed /\ report = "none"
    /\ \/ r = "drained" /\ promised \subseteq In("settled")
       \/ r = "deadline"
    /\ report' = r
    /\ UNCHANGED <<status, closed, promised>>

Next ==
    \/ \E i \in Items, s \in {"taken", "refused"} : Answer(i, s)
    \/ \E S \in SUBSET Items : Settle(S)
    \/ Close
    \/ \E r \in {"drained", "deadline"} : Report(r)

Safety == Init /\ [][Next]_vars

\* While nobody asks for a shutdown, what is taken is dealt with.
Progress == \A i \in Items : status[i] = "taken" ~> status[i] = "settled" \/ closed

Spec == Safety /\ Progress
=============================================================================
