--------------------------- MODULE MCLinkService ---------------------------
(* Small instances of LinkService for TLC.                                  *)
EXTENDS LinkService, TLC

Body(code, target, expires, max) ==
    [code |-> code, target |-> target, expires |-> expires, max |-> max,
     valid |-> TRUE]
Patch(target, expires, max) ==
    [target |-> target, expires |-> expires, max |-> max, valid |-> TRUE]

CONSTANTS c1, c2, x, y

\* Requests, calls and row ids are interchangeable.
Symmetry == Permutations(Requests) \cup Permutations(Calls) \cup Permutations(Ids)

\* Redirect path: an alias with a click limit, a retarget.
CacheCreates == {Body(c1, x, None, 1)}
CacheUpdates == {Patch(y, Keep, Keep)}

\* Table and demo policy: an alias and generated codes without an expiry, an
\* expiry in the past; an expiry cleared, one beyond the cap, an invalid body.
TableCreates == {Body(c1, x, None, None), Body(None, x, None, None),
                 Body(c1, x, 0, None)}
TableUpdates == {Patch(Keep, None, Keep), Patch(y, 3, Keep),
                 [Patch(y, Keep, Keep) EXCEPT !.valid = FALSE]}

\* Click batches over two links, one of them a demo link.
BatchCreates == {Body(None, x, None, None)}
NoUpdates == {}
=============================================================================
