---------------------------- MODULE MCClickStore ----------------------------
(* Two workers can each batch clicks of both links, in either order.        *)
EXTENDS ClickStore, TLC

CONSTANTS l1, l2, t1, t2, c1, c2, c3, c4, phone, laptop

Links4 == [c \in Clicks |-> IF c \in {c1, c3} THEN l1 ELSE l2]
Times4 == [c \in Clicks |-> IF c = c3 THEN 1 ELSE 0]
Labels4 == [c \in Clicks |-> IF c = c3 THEN phone ELSE laptop]
Ask(t, from, to, bucket) ==
    [tenant |-> t, link |-> l1, from |-> from, to |-> to, bucket |-> bucket]
\* The default window of two clocks, and what is refused.
SomeQueries == {Ask(t1, Absent, Absent, "day"),
                Ask(t1, 0, Bad, "day"), Ask(t1, 1, 1, "day"),
                Ask(t1, 0, 1, "other"), Ask(t2, 0, 1, "hour")}
OneOwner == [l \in Links |-> t1]

\* Workers are interchangeable, and so are two clicks that agree in everything.
Symmetry == Permutations(Workers) \cup Permutations({c2, c4})
=============================================================================
