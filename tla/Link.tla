-------------------------------- MODULE Link --------------------------------
(***************************************************************************)
(* The link entity (internal/domain/link.go), the validation and the       *)
(* demo-expiry policy that internal/service/link.go applies to it, and the *)
(* meaning of a PATCH body.  Constant-level: no state.                      *)
(*                                                                         *)
(* A target stands for the URL together with its redirect type.  Whether   *)
(* URL, redirect type and max_clicks pass validation is the input's        *)
(* "valid" field; only the expiry check depends on the clock.               *)
(***************************************************************************)
EXTENDS Integers

CONSTANTS
    Ids,          \* primary keys of the links table
    Tenants,
    Codes,        \* public short codes
    Targets,
    None,         \* SQL NULL / Go nil
    Keep,         \* a field a PATCH body does not mention
    DemoTenant,   \* the tenant the demo policy applies to (or None)
    DemoMaxTTL    \* 0 disables the policy

ASSUME NoneAssumption ==
    /\ None \notin Ids \cup Tenants \cup Codes \cup Targets \cup Int
    /\ Keep \notin Targets \cup Int \cup {None}
ASSUME DemoMaxTTLAssumption == DemoMaxTTL \in Nat

\* A row of the links table, and what the Go code calls *domain.Link.
Links == [id: Ids, tenant: Tenants, code: Codes, target: Targets,
          expires: Int \cup {None}, max: Nat \cup {None}, clicks: Nat,
          created: Nat, deleted: Nat \cup {None}]

\* A link under construction: no id before the INSERT, no code before one is
\* allocated.
Drafts == [id: Ids \cup {None}, tenant: Tenants, code: Codes \cup {None},
           target: Targets, expires: Int \cup {None}, max: Nat \cup {None},
           clicks: Nat, created: Nat, deleted: Nat \cup {None}]

\* POST /links bodies (code None: generate one) and PATCH /links/:id bodies
\* (Keep: field absent; None: field explicitly cleared).
CreateInputs == [code: Codes \cup {None}, target: Targets,
                 expires: Int \cup {None}, max: Nat \cup {None}, valid: BOOLEAN]
UpdateInputs == [target: Targets \cup {Keep}, expires: Int \cup {None, Keep},
                 max: Nat \cup {None, Keep}, valid: BOOLEAN]

IsExpired(l, t) == l.expires # None /\ ~(t < l.expires)

IsExhausted(l) == l.max # None /\ l.clicks >= l.max

IsActive(l, t) == l.deleted = None /\ ~IsExpired(l, t) /\ ~IsExhausted(l)

\* validateURL, normalizeRedirectType, validateMaxClicks and ValidAlias.
Valid(in) == in.valid

\* validateExpiry: a given expiry must lie in the future.
ValidExpiry(e, t) == e = None \/ e > t

\* The mistake of letting an absent expiry through the demo cap.
ClampOnlyLong(tenant, requested, t) ==
    IF tenant = DemoTenant /\ DemoMaxTTL > 0 /\ requested # None
    THEN IF requested < t + DemoMaxTTL THEN requested ELSE t + DemoMaxTTL
    ELSE requested
ClampDemoExpiry(tenant, requested, t) ==
    IF DemoMaxTTL <= 0 \/ tenant # DemoTenant THEN requested
    ELSE IF requested # None /\ requested < t + DemoMaxTTL
         THEN requested
         ELSE t + DemoMaxTTL

\* The in-memory link LinkService.Create hands to the repository.
NewDraft(tenant, in, t) ==
    [id |-> None, tenant |-> tenant, code |-> in.code, target |-> in.target,
     expires |-> ClampDemoExpiry(tenant, in.expires, t), max |-> in.max,
     clicks |-> 0, created |-> 0, deleted |-> None]

\* One patched field: its old value when the body does not mention it.
Patched(new, old) == IF new = Keep THEN old ELSE new

\* The in-memory link LinkService.Update writes back: the row as it was read,
\* the mentioned fields replaced, and the demo cap applied again.
ApplyUpdate(l, in, t) ==
    [l EXCEPT !.target  = Patched(in.target, @),
              !.expires = ClampDemoExpiry(l.tenant, Patched(in.expires, @), t),
              !.max     = Patched(in.max, @)]

\* The snapshot kept in Redis: fromDomain drops the timestamps, toDomain
\* leaves DeletedAt nil.
Snapshot(l) == [l EXCEPT !.created = 0, !.deleted = None]
=============================================================================
