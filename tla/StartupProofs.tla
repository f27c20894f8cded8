--------------------------- MODULE StartupProofs ---------------------------
(***************************************************************************)
(* Proofs about Startup and the Config it loads, for any servers, any      *)
(* environments and any number of starts, crashes and lost answers.         *)
(***************************************************************************)
EXTENDS Startup, WellFoundedInduction, TLAPS

-----------------------------------------------------------------------------
(* config.Load.                                                             *)

\* The durations that the retries and the TTL cap work with.
Numbers(c) == c.BaseBackoff \in Int /\ c.MaxBackoff \in Int /\ c.MaxLinkTTL \in Int

\* Durations come out as numbers, whatever the environment holds: what does not
\* parse is replaced by the default (getEnvDuration).
LEMMA ResolvedNumbers == ASSUME NEW env PROVE Numbers(Resolved(env))
<1>1. ASSUME NEW k, NEW d \in Int PROVE getEnvDuration(env, k, d) \in Int
  BY DEF getEnvDuration, Durations
<1>2. Second \in Int /\ 300 * Second \in Int /\ 0 \in Int
  BY SecondAssumption
<1> QED
  BY <1>1, <1>2 DEF Resolved, Numbers

-----------------------------------------------------------------------------
(* Powers of two.  The provers cannot instantiate the library's induction    *)
(* theorems, whose parameter is a predicate, so induction is stated with a   *)
(* set in its place and derived from the well-foundedness of < on Nat.       *)

LEMMA LeastNumber ==
    ASSUME NEW S \in SUBSET Nat, S # {}
    PROVE  \E m \in S : \A k \in S : m <= k
<1>1. PICK m \in S : \A k \in S : ~ (<<k, m>> \in OpToRel(<, Nat))
  BY WFMin, NatLessThanWellFounded, Zenon
<1>2. ASSUME NEW k \in S PROVE ~ (k < m)
  <2>1. ~ (<<k, m>> \in {p \in Nat \X Nat : p[1] < p[2]})
    BY <1>1, Zenon DEF OpToRel
  <2> QED
    BY <2>1
<1> QED
  BY <1>2

LEMMA SetInduction ==
    ASSUME NEW S, 0 \in S, \A n \in Nat : n \in S => n + 1 \in S
    PROVE  \A n \in Nat : n \in S
<1> SUFFICES ASSUME Nat \ S # {} PROVE FALSE
  OBVIOUS
<1>1. PICK m \in Nat \ S : \A k \in Nat \ S : m <= k
  BY LeastNumber
<1> QED
  BY <1>1

\* The first n + 1 powers of two.
Powers(g, n) ==
    /\ g \in [0..n -> Nat \ {0}]
    /\ g[0] = 1 /\ \A i \in 1..n : g[i] = 2 * g[i - 1]

LEMMA PowersExist == \A n \in Nat : \E g : Powers(g, n)
<1> DEFINE S == {n \in Nat : \E g : Powers(g, n)}
<1>1. 0 \in S
  <2>1. Powers([i \in 0..0 |-> 1], 0)
    BY DEF Powers
  <2> QED
    BY <2>1
<1>2. ASSUME NEW n \in Nat, n \in S PROVE n + 1 \in S
  <2>1. PICK g : Powers(g, n)
    BY <1>2
  <2> DEFINE h == [i \in 0..n + 1 |-> IF i <= n THEN g[i] ELSE 2 * g[n]]
  <2>2. g[n] \in Nat \ {0} /\ \A i \in 0..n : g[i] \in Nat \ {0}
    BY <2>1 DEF Powers
  <2>3. h \in [0..n + 1 -> Nat \ {0}]
    BY <2>2
  <2>4. h[0] = 1 /\ \A i \in 1..n + 1 : h[i] = 2 * h[i - 1]
    BY <2>1, <2>2 DEF Powers
  <2>5. Powers(h, n + 1)
    BY <2>3, <2>4 DEF Powers
  <2> QED
    BY <2>5
<1> HIDE DEF S
<1>3. \A n \in Nat : n \in S
  BY <1>1, <1>2, SetInduction
<1> QED
  BY <1>3 DEF S

LEMMA PowersAgree ==
    ASSUME NEW m \in Nat, NEW n \in Nat, NEW g, NEW h, Powers(g, m), Powers(h, n)
    PROVE  \A i \in 0..m : i <= n => g[i] = h[i]
<1> DEFINE S == {i \in Nat : i <= m /\ i <= n => g[i] = h[i]}
<1>1. 0 \in S
  BY DEF Powers
<1>2. ASSUME NEW i \in Nat, i \in S PROVE i + 1 \in S
  <2> SUFFICES ASSUME i + 1 <= m, i + 1 <= n PROVE g[i + 1] = h[i + 1]
    OBVIOUS
  <2>1. g[i] = h[i]
    BY <1>2
  <2>2. i + 1 \in 1..m /\ i + 1 \in 1..n /\ (i + 1) - 1 = i
    OBVIOUS
  <2>3. g[i + 1] = 2 * g[i] /\ h[i + 1] = 2 * h[i]
    BY <2>2 DEF Powers
  <2> QED
    BY <2>1, <2>3
<1> HIDE DEF S
<1>3. \A i \in Nat : i \in S
  BY <1>1, <1>2, SetInduction
<1> QED
  BY <1>3 DEF S

\* The recursive definition of Pow2 defines a function.
LEMMA Pow2Def == Pow2 = [k \in Nat |-> IF k = 0 THEN 1 ELSE 2 * Pow2[k - 1]]
<1> DEFINE G(k) == CHOOSE g : Powers(g, k)
           f == [k \in Nat |-> G(k)[k]]
<1>1. \A k \in Nat : Powers(G(k), k)
  BY PowersExist
<1> HIDE DEF G
<1>2. f[0] = 1
  BY <1>1 DEF Powers
<1>3. ASSUME NEW k \in Nat, k # 0 PROVE f[k] = 2 * f[k - 1]
  <2>1. k - 1 \in Nat /\ k \in 1..k /\ k - 1 \in 0..k - 1 /\ k - 1 <= k
    BY <1>3
  <2>2. G(k)[k] = 2 * G(k)[k - 1]
    BY <1>1, <2>1 DEF Powers
  <2>3. Powers(G(k - 1), k - 1) /\ Powers(G(k), k)
    BY <1>1, <2>1
  <2>4. G(k - 1)[k - 1] = G(k)[k - 1]
    BY <2>1, <2>3, PowersAgree
  <2> QED
    BY <2>1, <2>2, <2>4
<1>4. f = [k \in Nat |-> IF k = 0 THEN 1 ELSE 2 * f[k - 1]]
  BY <1>2, <1>3
<1>5. \E p : p = [k \in Nat |-> IF k = 0 THEN 1 ELSE 2 * p[k - 1]]
  BY <1>4
<1> QED
  BY <1>5 DEF Pow2

LEMMA Pow2Steps == Pow2[0] = 1 /\ \A k \in Nat : Pow2[k + 1] = 2 * Pow2[k]
<1>1. \A k \in Nat : Pow2[k] = IF k = 0 THEN 1 ELSE 2 * Pow2[k - 1]
  BY Pow2Def
<1> QED
  BY <1>1

LEMMA Pow2Type == \A k \in Nat : Pow2[k] \in Nat \ {0}
<1> DEFINE S == {k \in Nat : Pow2[k] \in Nat \ {0}}
<1>1. 0 \in S /\ \A k \in Nat : k \in S => k + 1 \in S
  BY Pow2Steps
<1> HIDE DEF S
<1>2. \A k \in Nat : k \in S
  BY <1>1, SetInduction
<1> QED
  BY <1>2 DEF S

LEMMA Pow2Sum == \A i, j \in Nat : Pow2[i + j] = Pow2[i] * Pow2[j]
<1> SUFFICES ASSUME NEW i \in Nat PROVE \A j \in Nat : Pow2[i + j] = Pow2[i] * Pow2[j]
  OBVIOUS
<1> DEFINE S == {j \in Nat : Pow2[i + j] = Pow2[i] * Pow2[j]}
<1>1. 0 \in S
  BY Pow2Steps, Pow2Type
<1>2. ASSUME NEW j \in Nat, j \in S PROVE j + 1 \in S
  <2>1. Pow2[i + j] = Pow2[i] * Pow2[j] /\ i + (j + 1) = (i + j) + 1 /\ i + j \in Nat
    BY <1>2
  <2>2. Pow2[i + (j + 1)] = 2 * Pow2[i + j] /\ Pow2[j + 1] = 2 * Pow2[j]
    BY <2>1, Pow2Steps
  <2>3. Pow2[i] \in Nat /\ Pow2[j] \in Nat
    BY Pow2Type
  <2> QED
    BY <2>1, <2>2, <2>3
<1> HIDE DEF S
<1>3. \A j \in Nat : j \in S
  BY <1>1, <1>2, SetInduction
<1> QED
  BY <1>3 DEF S

-----------------------------------------------------------------------------
(* Dispatcher.backoff.                                                      *)

LEMMA Division ==
    ASSUME NEW x \in Int, NEW w \in Nat \ {0}
    PROVE  x \div w \in Int /\ x % w \in 0..w - 1 /\ x = w * (x \div w) + (x % w)
  OBVIOUS

LEMMA Remainder ==
    ASSUME NEW w \in Nat \ {0}, NEW q \in Int, NEW r \in 0..w - 1
    PROVE  (w * q + r) % w = r
  OBVIOUS

\* A product of positive numbers is at least each of them, and monotonic.
LEMMA Products ==
    ASSUME NEW q \in Nat \ {0}, NEW m \in Nat, NEW n \in Nat
    PROVE  q * m \in Nat /\ q * m >= m /\ (m <= n => q * m <= q * n)
<1>1. q * m \in Nat /\ q * n \in Nat
  OBVIOUS
<1>2. q * m >= m
  <2>1. (q - 1) * m >= 0 /\ (q - 1) * m = q * m - m
    OBVIOUS
  <2> QED
    BY <1>1, <2>1
<1>3. m <= n => q * m <= q * n
  <2>1. m <= n => q * (n - m) >= 0
    OBVIOUS
  <2>2. q * (n - m) = q * n - q * m
    OBVIOUS
  <2> QED
    BY <1>1, <2>1, <2>2
<1> QED
  BY <1>1, <1>2, <1>3

\* Shifting base q * 2^k by n: exact while the result fits, and otherwise zero,
\* negative or a multiple of 2^(k + n), which is beyond every cap m that
\* leaves q * m in range.
LEMMA ShiftedBase ==
    ASSUME NEW q \in Nat \ {0}, NEW m \in Nat \ {0}, NEW k \in 0..Width, NEW n \in Nat,
           q * m < Pow2[Width - 1]
    PROVE  LET b == q * Pow2[k] IN
           \/ Shl(b, n) = b * Pow2[n]
           \/ b * Pow2[n] > m /\ (Shl(b, n) <= 0 \/ Shl(b, n) > m)
<1> DEFINE H == Pow2[Width - 1]
           W == Pow2[Width]
           M == Pow2[k + n]
           b == q * Pow2[k]
           bits == (b * Pow2[n]) % W
<1>1. /\ Width - 1 \in Nat /\ Width \in Nat /\ (Width - 1) + 1 = Width
      /\ k \in Nat /\ k + n \in Nat
  BY WidthAssumption
<1>2. H \in Nat \ {0} /\ W \in Nat \ {0} /\ M \in Nat \ {0} /\ W = 2 * H
  BY <1>1, Pow2Type, Pow2Steps
<1>3. b * Pow2[n] = q * M
  <2>1. Pow2[k] \in Nat /\ Pow2[n] \in Nat /\ M = Pow2[k] * Pow2[n]
    BY <1>1, Pow2Type, Pow2Sum
  <2> HIDE DEF M
  <2> QED
    BY <2>1
<1>4. Shl(b, n) = IF bits >= H THEN bits - W ELSE bits
  BY DEF Shl
<1>5. bits = (q * M) % W
  BY <1>3
<1> HIDE DEF H, W, M, b, bits
<1>6. q * M \in Nat /\ q * m \in Nat /\ q * m < H
  BY <1>2, Products DEF H
<1>7. CASE q * M < H
  <2>1. q * M \in 0..W - 1 /\ q * M = W * 0 + q * M
    BY <1>2, <1>6, <1>7
  <2>2. (W * 0 + q * M) % W = q * M
    BY <1>2, <2>1, Remainder
  <2>3. bits = q * M
    BY <1>5, <2>1, <2>2
  <2> QED
    BY <1>2, <1>3, <1>4, <1>6, <1>7, <2>3 DEF b
<1>8. CASE q * M >= H
  <2>1. m < M
    <3>1. M <= m => q * M <= q * m
      BY <1>2, Products
    <3> QED
      BY <1>2, <1>6, <1>8, <3>1
  <2>2. b * Pow2[n] > m
    <3>1. q * m >= m
      BY Products
    <3> QED
      BY <1>2, <1>3, <1>6, <1>8, <3>1
  <2>3. CASE k + n >= Width
    <3> DEFINE P == Pow2[k + n - Width]
    <3>1. k + n - Width \in Nat /\ Width + (k + n - Width) = k + n
      BY <1>1, <2>3
    <3>2. P \in Nat /\ M = W * P
      <4>1. Pow2[Width + (k + n - Width)] = W * P
        BY <1>1, <3>1, Pow2Sum DEF W
      <4> QED
        BY <3>1, <4>1, Pow2Type DEF M
    <3> HIDE DEF P
    <3>3. q * M = W * (q * P) + 0 /\ q * P \in Int /\ 0 \in 0..W - 1
      BY <1>2, <3>2
    <3>4. (W * (q * P) + 0) % W = 0
      BY <1>2, <3>3, Remainder
    <3>5. bits = 0
      BY <1>5, <3>3, <3>4
    <3> QED
      BY <1>2, <1>4, <2>2, <3>5 DEF b
  <2>4. CASE k + n < Width
    <3> DEFINE P == Pow2[Width - (k + n)]
               d == (q * M) \div W
    <3>1. Width - (k + n) \in Nat /\ (k + n) + (Width - (k + n)) = Width
      BY <1>1, <2>4
    <3>2. P \in Nat /\ W = M * P
      <4>1. Pow2[(k + n) + (Width - (k + n))] = M * P
        BY <1>1, <3>1, Pow2Sum DEF M
      <4> QED
        BY <3>1, <4>1, Pow2Type DEF W
    <3>3. d \in Int /\ bits \in 0..W - 1 /\ q * M = W * d + bits
      <4> DEFINE x == q * M
      <4>1. x \in Int
        BY <1>6
      <4> HIDE DEF x
      <4>2. x \div W \in Int /\ x % W \in 0..W - 1 /\ x = W * (x \div W) + (x % W)
        BY <1>2, <4>1, Division
      <4> QED
        BY <1>5, <4>2 DEF x
    <3> HIDE DEF P, d
    <3>4. bits = M * (q - P * d)
      <4>1. bits = q * M - (M * P) * d
        BY <1>2, <1>6, <3>2, <3>3
      <4> QED
        BY <1>2, <3>2, <3>3, <4>1
    <3>5. bits - W = M * (q - P * d - P)
      BY <1>2, <3>2, <3>3, <3>4
    <3>6. ASSUME NEW z \in Int PROVE M * z <= 0 \/ M * z > m
      <4>1. CASE z <= 0
        <5>1. -z \in Nat /\ M * (-z) \in Nat /\ M * z = -(M * (-z))
          BY <1>2, <4>1
        <5> QED
          BY <5>1
      <4>2. CASE z >= 1
        <5>1. z \in Nat \ {0} /\ z * M >= M /\ z * M = M * z /\ M * z \in Nat
          BY <1>2, <4>2, Products
        <5> QED
          BY <1>2, <2>1, <5>1
      <4> QED
        BY <4>1, <4>2
    <3>7. q - P * d \in Int /\ q - P * d - P \in Int
      BY <3>2, <3>3
    <3>8. Shl(b, n) <= 0 \/ Shl(b, n) > m
      BY <1>4, <3>4, <3>5, <3>6, <3>7
    <3> QED
      BY <2>2, <3>8 DEF b
  <2> QED
    BY <1>1, <2>3, <2>4
<1> QED
  BY <1>2, <1>6, <1>7, <1>8

\* With a base and a cap that fit, wrapping around never shows.
LEMMA BackoffExact ==
    ASSUME NEW c, c.BaseBackoff \in Int, c.MaxBackoff \in Int, BackoffFits(c), NEW n \in Nat
    PROVE  CappedDelay(c, n) = IF c.BaseBackoff * Pow2[n] < c.MaxBackoff
                               THEN c.BaseBackoff * Pow2[n] ELSE c.MaxBackoff
<1> DEFINE b == c.BaseBackoff
           m == c.MaxBackoff
<1>1. b \in Nat \ {0} /\ m \in Nat \ {0}
  BY DEF BackoffFits
<1>2. PICK k \in 0..Width : b % Pow2[k] = 0 /\ (b \div Pow2[k]) * m < Pow2[Width - 1]
  BY DEF BackoffFits
<1>3. Pow2[k] \in Nat \ {0} /\ Pow2[n] \in Nat \ {0}
  BY WidthAssumption, Pow2Type
<1> DEFINE q == b \div Pow2[k]
<1>4. q \in Int /\ b = Pow2[k] * q + 0
  BY <1>1, <1>2, <1>3, Division
<1>5. q * m < Pow2[Width - 1]
  BY <1>2
<1> HIDE DEF b, m, q
<1>6. q \in Nat \ {0} /\ b = q * Pow2[k]
  <2>1. b = Pow2[k] * q
    BY <1>3, <1>4
  <2>2. q > 0
    <3> SUFFICES ASSUME q <= 0 PROVE FALSE
      BY <1>4
    <3>1. -q \in Nat /\ Pow2[k] * (-q) \in Nat /\ Pow2[k] * q = -(Pow2[k] * (-q))
      BY <1>3, <1>4
    <3> QED
      BY <1>1, <2>1, <3>1
  <2> QED
    BY <1>3, <1>4, <2>1, <2>2
<1>7. \/ Shl(b, n) = b * Pow2[n]
      \/ b * Pow2[n] > m /\ (Shl(b, n) <= 0 \/ Shl(b, n) > m)
  BY <1>1, <1>5, <1>6, ShiftedBase
<1>8. b * Pow2[n] \in Nat \ {0}
  BY <1>1, <1>3
<1>9. CappedDelay(c, n) = IF Shl(b, n) <= 0 \/ Shl(b, n) > m THEN m ELSE Shl(b, n)
  BY DEF CappedDelay, b, m
<1>10. CappedDelay(c, n) = IF b * Pow2[n] < m THEN b * Pow2[n] ELSE m
  BY <1>1, <1>7, <1>8, <1>9
<1> QED
  BY <1>10 DEF b, m

-----------------------------------------------------------------------------
(* seed.Demo.                                                               *)

\* FindByName returns a row of the table.
LEMMA FirstTenantExists ==
    ASSUME TypeOK, tenants # {}
    PROVE  FirstTenant \in tenants
<1> DEFINE live == {n \in DOMAIN born : born[n] \in tenants}
           Before == {ss \in Nat \X Nat : ss[1] < ss[2]}
<1>1. live \subseteq Nat /\ live # {}
  <2>1. DOMAIN born = 1..Len(born) /\ Len(born) \in Nat
    BY DEF TypeOK
  <2> QED
    BY <2>1 DEF TypeOK
<1>2. IsWellFoundedOn(Before, Nat)
  BY NatLessThanWellFounded, Zenon DEF OpToRel
<1> HIDE DEF live
<1>3. PICK n \in live : \A m \in live : ~(<<m, n>> \in Before)
  BY <1>1, <1>2, WFMin
<1>4. ASSUME NEW m \in live PROVE n <= m
  <2>1. <<m, n>> \in Before <=> m < n
    BY <1>1
  <2> QED
    BY <1>1, <1>3, <2>1
<1>5. (CHOOSE k \in live : \A m \in live : k <= m) \in live
  BY <1>4
<1> QED
  BY <1>5 DEF FirstTenant, live

-----------------------------------------------------------------------------
(* The inductive invariant.                                                 *)

Ids == {born[n] : n \in DOMAIN born}

\* What a process has in memory at each stage of run.
MemoryInv ==
    \A s \in Servers :
        /\ pc[s] # "down" => \E env \in Envs : cfg[s] = Resolved(env) /\ Validate(cfg[s])
        /\ pc[s] = "down" => found[s] = None
        /\ pc[s] = "serving" =>
              /\ janitor[s] = found[s]
              /\ policy[s] = IF cfg[s].MaxLinkTTL > 0 THEN found[s] ELSE None
        /\ pc[s] # "serving" => policy[s] = None /\ janitor[s] = None
        /\ pc[s] = "insert_tenant" => found[s] \in Ids
        /\ pc[s] \in {"get_key", "insert_key"} => found[s] \in tenants

\* One process at a time seeds until there is a key; so there is one tenant,
\* and everyone who comes later finds it.
SoloInv ==
    /\ \A s, o \in Servers : key = None /\ Seeding(s) /\ Seeding(o) => s = o
    /\ \A t, u \in tenants : t = u
    /\ key # None => tenants = {key}
    /\ \A s \in Servers :
        /\ key # None => pc[s] \notin {"create", "insert_tenant", "insert_key"}
        /\ pc[s] \in {"create", "insert_tenant"} => tenants = {}
        /\ pc[s] \in {"get_key", "insert_key"} => tenants = {found[s]}
        /\ pc[s] \in {"wire", "serving"} =>
              /\ found[s] \in {key, None}
              /\ WantsDemo(cfg[s]) /\ s \notin failed => key # None /\ found[s] = key

Inv == TypeOK /\ MemoryInv /\ (~raced => SoloInv)

\* Before the first start the tables are empty and nobody runs.
LEMMA InitInv == Init => Inv
<1> SUFFICES ASSUME Init PROVE Inv
  OBVIOUS
<1>1. TypeOK
  <2>1. raced \in BOOLEAN
    BY Zenon DEF Init
  <2> QED
    BY <2>1 DEF Init, TypeOK
<1>2. MemoryInv /\ SoloInv
  BY DEF Init, MemoryInv, SoloInv, Seeding
<1> QED
  BY <1>1, <1>2 DEF Inv

\* An INSERT that begins adds its id, and no other, to those handed out.
LEMMA CreateTenantBorn ==
    ASSUME TypeOK, NEW s \in Servers, NEW t \in TenantIds, CreateTenant(s, t)
    PROVE  /\ born' \in Seq(TenantIds)
           /\ \A m, n \in DOMAIN born' : born'[m] = born'[n] => m = n
           /\ Ids' = Ids \cup {t}
<1>1. /\ born' = Append(born, t) /\ born \in Seq(TenantIds)
      /\ DOMAIN born = 1..Len(born) /\ Len(born) \in Nat
      /\ DOMAIN born' = 1..(Len(born) + 1)
  BY DEF CreateTenant, TypeOK
<1>2. /\ \A n \in 1..Len(born) : born'[n] = born[n] /\ born[n] # t
      /\ born'[Len(born) + 1] = t
  BY <1>1 DEF CreateTenant
<1>3. /\ \A n \in 1..(Len(born) + 1) : n \in 1..Len(born) \/ n = Len(born) + 1
      /\ 1..Len(born) \subseteq 1..(Len(born) + 1) /\ Len(born) + 1 \in 1..(Len(born) + 1)
  BY <1>1
<1>4. \A m, n \in DOMAIN born' : born'[m] = born'[n] => m = n
  BY <1>1, <1>2, <1>3 DEF TypeOK
<1>5. Ids' = Ids \cup {t}
  BY <1>1, <1>2, <1>3 DEF Ids
<1> QED
  BY <1>1, <1>4, <1>5

\* The tables keep their keys through every step, answered or not.
LEMMA TypeStep == TypeOK /\ MemoryInv /\ [Next]_vars => TypeOK'
<1> SUFFICES ASSUME TypeOK, MemoryInv, [Next]_vars PROVE TypeOK'
  OBVIOUS
<1> USE DEF TypeOK
<1>1. ASSUME NEW s \in Servers, NEW env \in Envs, Load(s, env) PROVE TypeOK'
  <2>1. raced' \in BOOLEAN
    BY <1>1, Zenon DEF Load
  <2> QED
    BY <1>1, <2>1 DEF Load
<1>2. ASSUME NEW s \in Servers, FindByName(s) PROVE TypeOK'
  <2>1. tenants # {} => FirstTenant \in TenantIds
    BY FirstTenantExists
  <2> QED
    BY <1>2, <2>1 DEF FindByName
<1>3. ASSUME NEW s \in Servers, NEW t \in TenantIds, CreateTenant(s, t) PROVE TypeOK'
  <2>1. /\ born' \in Seq(TenantIds)
        /\ \A m, n \in DOMAIN born' : born'[m] = born'[n] => m = n
        /\ Ids' = Ids \cup {t}
    BY <1>3, CreateTenantBorn
  <2>2. tenants' \subseteq Ids'
    BY <1>3, <2>1 DEF CreateTenant, Ids
  <2> QED
    BY <1>3, <2>1, <2>2 DEF CreateTenant, Ids
<1>4. ASSUME NEW s \in Servers, TenantCommitted(s) PROVE TypeOK'
  BY <1>4 DEF TenantCommitted, MemoryInv, Ids
<1>5. ASSUME NEW s \in Servers, GetByHash(s) \/ CreateKey(s) PROVE TypeOK'
  BY <1>5 DEF GetByHash, CreateKey, Return, MemoryInv
<1>6. ASSUME NEW s \in Servers, Unanswered(s)
      PROVE  /\ tenants' \subseteq Ids' /\ key' \in tenants' \cup {None}
             /\ born' = born /\ raced' = raced
  BY <1>6 DEF Unanswered, MemoryInv, Ids
<1>7. ASSUME NEW s \in Servers, SeedFails(s) PROVE TypeOK'
  BY <1>6, <1>7 DEF SeedFails, Return, Ids
<1>8. ASSUME NEW s \in Servers, Wire(s) PROVE TypeOK'
  BY <1>8 DEF Wire
<1>9. ASSUME NEW s \in Servers, Panics(s) PROVE TypeOK'
  BY <1>9 DEF Panics, Dies
<1>10. ASSUME NEW s \in Servers, Stop(s) PROVE TypeOK'
  BY <1>6, <1>10 DEF Stop, Dies, Ids
<1>11. CASE UNCHANGED vars
  BY <1>11 DEF vars
<1> QED
  BY <1>1, <1>2, <1>3, <1>4, <1>5, <1>7, <1>8, <1>9, <1>10, <1>11 DEF Next

\* What the stages of run mean for the memory of the process.
LEMMA MemoryStep == TypeOK /\ MemoryInv /\ [Next]_vars => MemoryInv'
<1> SUFFICES ASSUME TypeOK, MemoryInv, [Next]_vars PROVE MemoryInv'
  OBVIOUS
<1> USE DEF TypeOK, MemoryInv
<1>1. ASSUME NEW s \in Servers, NEW env \in Envs, Load(s, env) PROVE MemoryInv'
  BY <1>1 DEF Load, Ids
<1>2. ASSUME NEW s \in Servers, FindByName(s) PROVE MemoryInv'
  <2>1. tenants # {} => FirstTenant \in tenants
    BY FirstTenantExists
  <2> QED
    BY <1>2, <2>1 DEF FindByName, Ids
<1>3. ASSUME NEW s \in Servers, NEW t \in TenantIds, CreateTenant(s, t) PROVE MemoryInv'
  <2>1. Ids' = Ids \cup {t}
    BY <1>3, CreateTenantBorn
  <2> QED
    BY <1>3, <2>1 DEF CreateTenant
<1>4. ASSUME NEW s \in Servers, TenantCommitted(s) PROVE MemoryInv'
  BY <1>4 DEF TenantCommitted, Ids
<1>5. ASSUME NEW s \in Servers, GetByHash(s) \/ CreateKey(s) PROVE MemoryInv'
  BY <1>5 DEF GetByHash, CreateKey, Return, Ids
<1>6. ASSUME NEW s \in Servers, SeedFails(s) PROVE MemoryInv'
  <2>1. tenants \subseteq tenants' /\ Ids' = Ids
    BY <1>6 DEF SeedFails, Unanswered, Ids
  <2> QED
    BY <1>6, <2>1 DEF SeedFails, Return, Seeding
<1>7. ASSUME NEW s \in Servers, Wire(s) PROVE MemoryInv'
  BY <1>7 DEF Wire, Ids
<1>8. ASSUME NEW s \in Servers, Panics(s) \/ Stop(s) PROVE MemoryInv'
  <2>1. tenants \subseteq tenants' /\ Ids' = Ids /\ Dies(s)
    BY <1>8 DEF Panics, Stop, Unanswered, Ids
  <2> QED
    BY <2>1 DEF Dies
<1>9. CASE UNCHANGED vars
  BY <1>9 DEF vars, Ids
<1> QED
  BY <1>1, <1>2, <1>3, <1>4, <1>5, <1>6, <1>7, <1>8, <1>9 DEF Next

\* Unless two processes seeded together before there was a key, no step brings
\* a second tenant or a key that is not its tenant's.
LEMMA SoloStep == Inv /\ [Next]_vars /\ ~raced' => SoloInv'
<1> SUFFICES ASSUME Inv, [Next]_vars, ~raced' PROVE SoloInv'
  OBVIOUS
<1>0. TypeOK /\ MemoryInv
  BY DEF Inv
<1>1. SoloInv
  <2>1. ~raced
    BY DEF Next, vars, Load, FindByName, CreateTenant, TenantCommitted, GetByHash, CreateKey,
       SeedFails, Unanswered, Wire, Panics, Stop
  <2> QED
    BY <2>1 DEF Inv
<1>2. None \notin tenants /\ tenants \subseteq TenantIds
  BY <1>0, NoneAssumption DEF TypeOK
<1> USE DEF TypeOK
<1>3. ASSUME NEW s \in Servers, NEW env \in Envs, Load(s, env) PROVE SoloInv'
  <2>1. /\ pc[s] = "down" /\ found[s] = None
        /\ cfg' = [cfg EXCEPT ![s] = Resolved(env)]
        /\ pc' = [pc EXCEPT ![s] = IF WantsDemo(Resolved(env)) THEN "find" ELSE "wire"]
        /\ failed' = failed \ {s}
        /\ UNCHANGED <<tenants, key, found>>
        /\ WantsDemo(Resolved(env)) /\ key = None => \A o \in Servers : ~Seeding(o)
    BY <1>0, <1>3 DEF Load, MemoryInv
  <2> QED
    BY <1>0, <1>1, <2>1 DEF SoloInv, Seeding
<1>4. ASSUME NEW s \in Servers, FindByName(s) PROVE SoloInv'
  <2>1. tenants # {} => FirstTenant \in tenants
    BY <1>0, FirstTenantExists
  <2>2. tenants # {} => tenants = {FirstTenant}
    BY <1>1, <2>1 DEF SoloInv
  <2> QED
    BY <1>0, <1>1, <1>4, <2>1, <2>2 DEF SoloInv, Seeding, FindByName
<1>5. ASSUME NEW s \in Servers, NEW t \in TenantIds, CreateTenant(s, t) PROVE SoloInv'
  BY <1>0, <1>1, <1>5 DEF SoloInv, Seeding, CreateTenant
<1>6. ASSUME NEW s \in Servers, TenantCommitted(s) PROVE SoloInv'
  BY <1>0, <1>1, <1>6 DEF SoloInv, Seeding, TenantCommitted
<1>7. ASSUME NEW s \in Servers, GetByHash(s) PROVE SoloInv'
  BY <1>0, <1>1, <1>2, <1>7 DEF SoloInv, Seeding, GetByHash, Return, MemoryInv
<1>8. ASSUME NEW s \in Servers, CreateKey(s) PROVE SoloInv'
  BY <1>0, <1>1, <1>2, <1>8 DEF SoloInv, Seeding, CreateKey, Return, MemoryInv
<1>9. ASSUME NEW s \in Servers, SeedFails(s) PROVE SoloInv'
  BY <1>0, <1>1, <1>2, <1>9 DEF SoloInv, Seeding, SeedFails, Unanswered, Return, MemoryInv
<1>10. ASSUME NEW s \in Servers, Wire(s) PROVE SoloInv'
  BY <1>0, <1>1, <1>10 DEF SoloInv, Seeding, Wire
<1>11. ASSUME NEW s \in Servers, Panics(s) PROVE SoloInv'
  BY <1>0, <1>1, <1>11 DEF SoloInv, Seeding, Panics, Dies
<1>12. ASSUME NEW s \in Servers, Stop(s) PROVE SoloInv'
  BY <1>0, <1>1, <1>2, <1>12 DEF SoloInv, Seeding, Stop, Unanswered, Dies, MemoryInv
<1>13. CASE UNCHANGED vars
  BY <1>1, <1>13 DEF vars, SoloInv, Seeding
<1> QED
  BY <1>3, <1>4, <1>5, <1>6, <1>7, <1>8, <1>9, <1>10, <1>11, <1>12, <1>13 DEF Next

\* Every run of any number of servers satisfies the inductive invariant.
THEOREM Invariance == Spec => []Inv
<1>1. Inv /\ [Next]_vars => Inv'
  BY TypeStep, MemoryStep, SoloStep DEF Inv
<1> QED
  BY <1>1, InitInv, PTL DEF Spec

\* Ids stay unique, the demo key's row points to a committed tenant, and what
\* a process holds is what config.Load and seed.Demo gave it.
THEOREM TypeCorrect == Spec => []TypeOK
<1>1. Inv => TypeOK
  BY DEF Inv
<1> QED
  BY <1>1, Invariance, PTL

\* What seed.Demo and run promise of the playground: unless two first starts
\* met, the TTL cap and the janitor guard the tenant of the demo key.
THEOREM PolicyGuardsKeyCorrect == Spec => []PolicyGuardsKey
<1>1. Inv => PolicyGuardsKey
  <2> SUFFICES ASSUME Inv, ~raced, NEW s \in Servers
               PROVE  /\ policy[s] \in {key, None} /\ janitor[s] \in {key, None}
                      /\ Serving(s) /\ key # None /\ WantsDemo(cfg[s]) /\ s \notin failed =>
                            janitor[s] = key /\ (policy[s] = key \/ cfg[s].MaxLinkTTL = 0)
    BY DEF PolicyGuardsKey
  <2>1. MemoryInv /\ SoloInv
    BY DEF Inv
  <2>2. CASE pc[s] # "serving"
    BY <2>1, <2>2 DEF MemoryInv, Serving
  <2>3. CASE pc[s] = "serving"
    <3>1. PICK env \in Envs : cfg[s] = Resolved(env) /\ Validate(cfg[s])
      BY <2>1, <2>3 DEF MemoryInv
    <3>2. cfg[s].MaxLinkTTL \in Int /\ cfg[s].MaxLinkTTL >= 0
      BY <3>1, ResolvedNumbers DEF Numbers, Validate
    <3> QED
      BY <2>1, <2>3, <3>2 DEF MemoryInv, SoloInv
  <2> QED
    BY <2>2, <2>3
<1> QED
  BY <1>1, Invariance, PTL

\* A committed tenant stays, none is added without an INSERT that is under way,
\* and the order of creation is only ever continued.
LEMMA TablesStep ==
    ASSUME Inv, [Next]_vars, Settled
    PROVE  tenants' = tenants /\ born' = born /\ key \in {key', None}
<1>1. \A s \in Servers : pc[s] \notin {"create", "insert_tenant"}
  BY DEF Settled
<1> QED
  BY <1>1 DEF Next, vars, Load, FindByName, CreateTenant, TenantCommitted, GetByHash,
     CreateKey, SeedFails, Unanswered, Wire, Panics, Stop

\* What seed.Demo promises of repeated runs, raced or not: once there is a demo
\* tenant and the creations under way have ended, no start creates another, all
\* of them find the same one, and the demo key stays with its tenant.
THEOREM SeedSettlesCorrect == Spec => SeedSettles
<1>1. ASSUME Inv, [Next]_vars, Settled
      PROVE  Settled' /\ FirstTenant' = FirstTenant /\ key \in {key', None}
  <2>1. tenants' = tenants /\ born' = born /\ key \in {key', None}
    BY <1>1, TablesStep
  <2>2. ASSUME NEW o \in Servers PROVE pc'[o] \notin {"create", "insert_tenant"}
    <3>1. /\ tenants # {} /\ \A s \in Servers : pc[s] \notin {"create", "insert_tenant"}
          /\ pc \in [Servers -> {"down", "find", "create", "insert_tenant",
                                 "get_key", "insert_key", "wire", "serving"}]
      BY <1>1 DEF Settled, Inv, TypeOK
    <3> QED
      BY <1>1, <3>1 DEF Next, vars, Load, FindByName, CreateTenant, TenantCommitted,
         GetByHash, CreateKey, SeedFails, Return, Wire, Panics, Stop, Dies
  <2>3. Settled'
    BY <1>1, <2>1, <2>2 DEF Settled
  <2>4. FirstTenant' = FirstTenant
    BY <2>1 DEF FirstTenant
  <2> QED
    BY <2>1, <2>3, <2>4
<1>2. Inv /\ [Next]_vars =>
        [Settled => Settled' /\ FirstTenant' = FirstTenant /\ key \in {key', None}]_vars
  BY <1>1
<1> QED
  BY <1>2, Invariance, PTL DEF Spec, SeedSettles

\* The retries of a serving process back off exponentially up to the cap, for
\* every width of a Duration, every number of retries and every base and cap in
\* range: the overflow of baseBackoff << attempt never shows in a delay.
THEOREM BackoffCorrect == Spec => []BackoffSane
<1>1. Inv => BackoffSane
  <2> SUFFICES ASSUME Inv, NEW s \in Servers, Serving(s), BackoffFits(cfg[s]),
                      NEW n \in 0..cfg[s].MaxRetries - 1
               PROVE  CappedDelay(cfg[s], n) =
                        IF cfg[s].BaseBackoff * Pow2[n] < cfg[s].MaxBackoff
                        THEN cfg[s].BaseBackoff * Pow2[n] ELSE cfg[s].MaxBackoff
    BY DEF BackoffSane
  <2>1. Numbers(cfg[s])
    BY ResolvedNumbers DEF Inv, MemoryInv, Serving
  <2> QED
    BY <2>1, BackoffExact DEF Numbers
<1> QED
  BY <1>1, Invariance, PTL
=============================================================================
