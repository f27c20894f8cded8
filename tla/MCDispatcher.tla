---------------------------- MODULE MCDispatcher ----------------------------
(* Small instances of Dispatcher for TLC.                                   *)
EXTENDS Dispatcher, TLC

CONSTANTS t1, t2

\* Every event is a link.clicked of t1.
OfT1 == [e \in Events |-> t1]
Clicked == [e \in Events |-> "link.clicked"]

\* A plain registration; and with it another type, a list with a repetition,
\* and bodies that are refused.
PlainBody == {[url |-> TRUE, events |-> <<"link.clicked">>]}
AllBodies ==
    {[url |-> TRUE, events |-> <<"link.created">>],
     [url |-> TRUE, events |-> <<"link.clicked", "link.clicked">>],
     [url |-> TRUE, events |-> <<"link.clicked", "unknown">>],
     [url |-> TRUE, events |-> <<>>],
     [url |-> FALSE, events |-> <<"link.clicked">>]}

Symmetry == Permutations(Events) \cup Permutations(Hooks) \cup Permutations(Senders)
=============================================================================
