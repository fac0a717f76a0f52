--------------------------- MODULE PackagesProofs ---------------------------
(***************************************************************************)
(* The lockfile pins the newest version the manifest allows; a vendor      *)
(* directory that was completed is whole, and answers all imports: for any *)
(* packages, any finite set of versions and whatever users, the registry   *)
(* and crashes do between the commands and between their writes.           *)
(***************************************************************************)
EXTENDS Packages, FiniteSetTheorems, WellFoundedInduction, NaturalsInduction, TLAPS

-----------------------------------------------------------------------------
(* The half-open ranges the resolver computes mean what the operators say. *)

\* VersionRange.contains of the range of _parse_constraint accepts exactly the
\* versions the operator is documented to accept, for all versions: the bounds
\* of "^" below 1.0 and the step to the next patch for ">" and "<=" are right.
THEOREM RangesMeanWhatTheySay ==
    ASSUME NEW op \in Comparators, NEW b \in Version, NEW v \in Version
    PROVE  InRange(RangeOf(op, b), v) <=> Compatible(op, b, v)
<1>0. /\ b = <<b[1], b[2], b[3]>> /\ b[1] \in Nat /\ b[2] \in Nat /\ b[3] \in Nat
      /\ v = <<v[1], v[2], v[3]>> /\ v[1] \in Nat /\ v[2] \in Nat /\ v[3] \in Nat
  BY DEF Version
<1>1. CASE op = "^"
  <2>1. RangeOf(op, b) = [lower |-> b, upper |-> CaretUpperBound(b)]
    BY <1>1 DEF RangeOf
  <2>2. CaretUpperBound(b) # NoBound
    BY DEF CaretUpperBound, NoBound
  <2>3. InRange(RangeOf(op, b), v) <=> ~Older(v, b) /\ Older(v, CaretUpperBound(b))
    BY <2>1, <2>2 DEF InRange
  <2>4. Compatible(op, b, v) <=> ~Older(v, b) /\ \A i \in 1 .. 3 : i <= Breaking(b) => v[i] = b[i]
    BY <1>1 DEF Compatible
  <2>5. CASE b[1] # 0
    BY <2>3, <2>4, <2>5, <1>0 DEF CaretUpperBound, Breaking, Older
  <2>6. CASE b[1] = 0 /\ b[2] # 0
    BY <2>3, <2>4, <2>6, <1>0 DEF CaretUpperBound, Breaking, Older
  <2>7. CASE b[1] = 0 /\ b[2] = 0
    BY <2>3, <2>4, <2>7, <1>0 DEF CaretUpperBound, Breaking, Older
  <2> QED BY <2>5, <2>6, <2>7, <1>0
<1>2. CASE op = "~"
  BY <1>2, <1>0 DEF RangeOf, Compatible, InRange, Older, NoBound
<1>3. CASE op = ">="
  BY <1>3, <1>0 DEF RangeOf, Compatible, InRange
<1>4. CASE op = ">"
  BY <1>4, <1>0 DEF RangeOf, Compatible, InRange, Older, NextPatch
<1>5. CASE op = "<="
  <2>1. NextPatch(b) # NoBound
    BY DEF NextPatch, NoBound
  <2>2. InRange(RangeOf(op, b), v) <=> Older(v, NextPatch(b))
    BY <1>5, <2>1, <1>0 DEF RangeOf, InRange, Older
  <2> QED BY <2>2, <1>5, <1>0 DEF Compatible, Older, NextPatch
<1>6. CASE op = "<"
  BY <1>6, <1>0 DEF RangeOf, Compatible, InRange, Older, NoBound
<1> QED BY <1>1, <1>2, <1>3, <1>4, <1>5, <1>6 DEF Comparators

\* So a whole constraint accepts what it is documented to accept.
THEOREM MatchesIsAllowed ==
    ASSUME NEW constraint, NEW v \in Version,
           \A token \in constraint :
               /\ token.op \in Comparators \cup {"="}
               /\ NormalizeVersion(token.base) \in Version
    PROVE  Matches(constraint, v) <=> Allowed(constraint, v)
<1>1. ASSUME NEW token \in constraint, token.op # "="
      PROVE  InRange(RangeOf(token.op, NormalizeVersion(token.base)), v)
                 <=> Compatible(token.op, NormalizeVersion(token.base), v)
  <2>1. token.op \in Comparators /\ NormalizeVersion(token.base) \in Version
    BY <1>1
  <2> QED BY <2>1, RangesMeanWhatTheySay
<1> QED BY <1>1 DEF Matches, Allowed

-----------------------------------------------------------------------------
\* The order of versions is a strict order.
LEMMA OlderIsStrict ==
    ASSUME NEW u \in Version, NEW v \in Version, NEW w \in Version
    PROVE  ~Older(v, v) /\ (Older(u, v) /\ Older(v, w) => Older(u, w))
  BY DEF Older, Version

\* Every number of a set of naturals is at least the least of them.
LEMMA LeastNatural ==
    ASSUME NEW S \in SUBSET Nat, S # {}
    PROVE  \E m \in S : \A n \in S : m <= n
<1>1. PICK m \in S : \A n \in S : ~(<<n, m>> \in OpToRel(<, Nat))
  BY WFMin, NatLessThanWellFounded, Zenon
<1>2. \A n \in S : ~(n < m)
  BY <1>1, Zenon DEF OpToRel
<1> QED
  BY <1>2

\* A finite set of versions has a newest, which Best picks: one with the fewest
\* newer ones has none.
LEMMA BestIsNewest ==
    ASSUME NEW S, IsFiniteSet(S), S \subseteq Version, S # {}
    PROVE  Best(S) \in S /\ \A w \in S : ~Older(Best(S), w)
<1> DEFINE Newer(v) == {w \in S : Older(v, w)}
           Counts == {Cardinality(Newer(v)) : v \in S}
<1>1. \A v \in S : IsFiniteSet(Newer(v)) /\ Cardinality(Newer(v)) \in Nat
  <2> SUFFICES ASSUME NEW v \in S PROVE IsFiniteSet(Newer(v)) /\ Cardinality(Newer(v)) \in Nat
    OBVIOUS
  <2>1. IsFiniteSet(Newer(v))
    BY FS_Subset
  <2> QED
    BY <2>1, FS_CardinalityType
<1>2. PICK v \in S : \A u \in S : Cardinality(Newer(v)) <= Cardinality(Newer(u))
  <2>1. Counts \subseteq Nat /\ Counts # {}
    BY <1>1
  <2>2. PICK m \in Counts : \A n \in Counts : m <= n
    BY <2>1, LeastNatural
  <2> QED
    BY <2>2
<1>3. ASSUME NEW w \in S, Older(v, w) PROVE FALSE
  <2>1. Newer(w) \subseteq Newer(v)
    BY <1>3, OlderIsStrict
  <2>2. w \in Newer(v) /\ w \notin Newer(w)
    BY <1>3, OlderIsStrict
  <2>3. Cardinality(Newer(w)) <= Cardinality(Newer(v))
    BY <1>1, <2>1, FS_Subset
  <2>4. Cardinality(Newer(v)) = Cardinality(Newer(w))
    BY <1>1, <1>2, <2>3
  <2> QED
    BY <1>1, <2>1, <2>2, <2>4, FS_Subset
<1> QED
  BY <1>3 DEF Best

-----------------------------------------------------------------------------
\* What the type of a manifest, of the registry and of the checkouts is, and that
\* only manifests are written.
Manifests == [deps : [KeySet -> Entries \cup {None}], over : SUBSET Names]

Types == /\ manifest \in Manifests
         /\ index \in [Names \X Versions -> Bytes]
         /\ dist \in [Names \X Versions -> Bytes]
         /\ checkout \in [Names -> Bytes]
         /\ cache \in [Names \X Versions -> Bytes]

OnlyManifests == /\ "op" \in DOMAIN cmd
                 /\ cmd.op = "manifest" => cmd.new \in Manifests

LEMMA KeyNames == \A k \in KeySet : k[2] \in Names
  BY DEF KeySet, Names

LEMMA EmptyIsManifest == EmptyManifest \in Manifests
  BY DEF EmptyManifest, Manifests

\* Whatever is downloaded or removed, the cache holds bytes.
LEMMA CacheChange ==
    ASSUME Types, NEW bytes \in {None, cache[Release], dist[Release]},
           cache' = [cache EXCEPT ![Release] = bytes]
    PROVE  cache' \in [Names \X Versions -> Bytes]
<1>1. Release \in Names \X Versions => bytes \in Bytes
  BY DEF Types, Bytes
<1> QED
  BY <1>1 DEF Types

LEMMA TypesStep == Types /\ OnlyManifests /\ [Next]_vars => Types'
<1> SUFFICES ASSUME Types, OnlyManifests, [Next]_vars PROVE Types'
  OBVIOUS
<1> USE DEF Types
<1>1. CASE InitProject \/ Add \/ Remove \/ Update
  BY <1>1 DEF InitProject, Add, Remove, Update, Begin, files, outside
<1>2. CASE WriteManifest
  BY <1>2 DEF WriteManifest, OnlyManifests, outside
<1>3. CASE WriteLock \/ ResolveFails \/ VendorStart \/ VendorEnd
  BY <1>3 DEF WriteLock, ResolveFails, VendorStart, VendorEnd, files, outside
<1>4. CASE Clear \/ Copy
  BY <1>4 DEF Clear, Copy, InVendor, outside
<1>10. CASE Fetch
  <2>1. UNCHANGED <<manifest, index, dist, checkout>>
    BY <1>10 DEF Fetch, InVendor, outside
  <2>2. \/ UNCHANGED cache
        \/ \E bytes \in {None, cache[Release], dist[Release]} : cache' = [cache EXCEPT ![Release] = bytes]
    BY <1>10, Zenon DEF Fetch
  <2> QED
    BY <2>1, <2>2, CacheChange
<1>5. CASE Crash
  <2>1. UNCHANGED <<index, dist, checkout>> /\ (manifest' = EmptyManifest \/ UNCHANGED manifest)
    BY <1>5 DEF Crash, files, outside
  <2>2. UNCHANGED cache \/ cache' = [cache EXCEPT ![Release] = dist[Release]]
    BY <1>5 DEF Crash, files, outside
  <2> QED
    BY <2>1, <2>2, CacheChange, EmptyIsManifest
<1>6. CASE EditManifest
  <2>1. UNCHANGED <<outside, cache>>
    BY <1>6 DEF EditManifest, Changes
  <2>2. ASSUME NEW k \in KeySet, NEW entry \in Entries \cup {None},
               manifest' = [manifest EXCEPT !.deps[k] = entry]
        PROVE  manifest' \in Manifests
    BY <2>2 DEF Manifests
  <2>3. ASSUME NEW n \in Names, manifest' = [manifest EXCEPT !.over = @ \cup {n}]
        PROVE  manifest' \in Manifests
    BY <2>3 DEF Manifests
  <2> QED
    BY <1>6, <2>1, <2>2, <2>3 DEF EditManifest, outside
<1>7. CASE RegistryChanges
  <2>1. UNCHANGED <<manifest, checkout, cache>>
    BY <1>7 DEF RegistryChanges, Changes
  <2>2. Digests \subseteq Bytes /\ None \in Bytes
    BY DEF Bytes
  <2> QED
    BY <1>7, <2>1, <2>2 DEF RegistryChanges
<1>8. CASE CheckoutChanges
  BY <1>8 DEF CheckoutChanges, Changes
<1>9. CASE UNCHANGED vars
  BY <1>9 DEF vars, files, outside
<1> QED
  BY <1>1, <1>2, <1>3, <1>4, <1>5, <1>6, <1>7, <1>8, <1>9, <1>10 DEF Next

LEMMA OnlyManifestsStep == Types /\ OnlyManifests /\ [Next]_vars => OnlyManifests'
<1> SUFFICES ASSUME Types, OnlyManifests, [Next]_vars PROVE OnlyManifests'
  OBVIOUS
<1> USE DEF OnlyManifests
<1>1. ASSUME NEW m \in Manifests, Begin(WriteNext(m)) PROVE OnlyManifests'
  BY <1>1 DEF Begin, WriteNext
<1>2. CASE InitProject
  BY <1>1, <1>2, EmptyIsManifest DEF InitProject
<1>3. CASE Add
  <2>1. PICK k \in KeySet, entry \in Entries : Begin(WriteNext([manifest EXCEPT !.deps[k] = entry]))
    BY <1>3 DEF Add
  <2>2. [manifest EXCEPT !.deps[k] = entry] \in Manifests
    BY DEF Types, Manifests
  <2> QED
    BY <1>1, <2>1, <2>2
<1>4. CASE Remove
  <2>1. PICK n \in Names : Begin(WriteNext(Without(n)))
    BY <1>4 DEF Remove
  <2>2. Without(n) \in Manifests
    BY DEF Without, Types, Manifests
  <2> QED
    BY <1>1, <2>1, <2>2
<1>5. CASE Update \/ WriteManifest \/ WriteLock \/ ResolveFails \/ VendorStart \/ VendorEnd \/ Crash
  BY <1>5 DEF Update, Begin, WriteManifest, WriteLock, ResolveFails, VendorStart, VendorEnd,
              Crash, Idle, Locking
<1>6. CASE Fetch \/ Clear \/ Copy
  <2>1. cmd.op = "vendor"
    BY <1>6 DEF Fetch, Clear, Copy, InVendor
  <2>2. "op" \in DOMAIN cmd' /\ (cmd'.op = "vendor" \/ cmd'.op = "idle")
    <3> DEFINE Next1(s) == [cmd EXCEPT !.stage = s]
               Next2(s, x) == [cmd EXCEPT !.stage = s, !.sum = x]
               Next3(s, x, i) == [cmd EXCEPT !.stage = s, !.sum = x, !.at = i]
    <3>1. \/ cmd' = Idle
          \/ \E s : cmd' = Next1(s)
          \/ \E s, x : cmd' = Next2(s, x)
          \/ \E s, x, i : cmd' = Next3(s, x, i)
      BY <1>6 DEF Fetch, Clear, Copy, GoesOn, Fails
    <3>2. \A s : "op" \in DOMAIN Next1(s) /\ Next1(s).op = cmd.op
      OBVIOUS
    <3>3. \A s, x : "op" \in DOMAIN Next2(s, x) /\ Next2(s, x).op = cmd.op
      OBVIOUS
    <3>4. \A s, x, i : "op" \in DOMAIN Next3(s, x, i) /\ Next3(s, x, i).op = cmd.op
      OBVIOUS
    <3> HIDE DEF Next1, Next2, Next3
    <3> QED
      BY <2>1, <3>1, <3>2, <3>3, <3>4 DEF Idle
  <2> QED
    BY <2>2
<1>7. CASE EditManifest \/ RegistryChanges \/ CheckoutChanges
  BY <1>7 DEF EditManifest, RegistryChanges, CheckoutChanges, Changes
<1>8. CASE UNCHANGED vars
  BY <1>8 DEF vars
<1> QED
  BY <1>2, <1>3, <1>4, <1>5, <1>6, <1>7, <1>8 DEF Next

-----------------------------------------------------------------------------
\* An entry as it is written and, when its directory exists, as it is overridden.
LEMMA EffectiveEntry ==
    ASSUME Types, NEW k \in Wanted
    PROVE  /\ manifest.deps[k] \in Entries
           /\ Effective(k).want = manifest.deps[k].want
           /\ Effective(k).kind \in {"path", "git", "registry"}
           /\ Effective(k).want = Undeclared \/ IsConstraint(Effective(k).want)
<1>1. manifest.deps[k] \in Entries
  BY DEF Types, Manifests, Wanted
<1> DEFINE entry == manifest.deps[k]
<1>2. /\ entry = [kind |-> entry.kind, want |-> entry.want]
      /\ entry.kind \in {"path", "git", "registry"}
      /\ entry.want = Undeclared \/ IsConstraint(entry.want)
  BY <1>1, PackagesAssumption
<1>3. Effective(k) = entry \/ Effective(k) = [kind |-> "path", want |-> entry.want]
  <2>1. [entry EXCEPT !.kind = "path"] = [kind |-> "path", want |-> entry.want]
    BY <1>2
  <2> QED
    BY <2>1, Zenon DEF Effective
<1> QED
  BY <1>1, <1>2, <1>3

\* An exact constraint stands for one version.
LEMMA ExactIsOne ==
    ASSUME NEW want, IsConstraint(want), want # Undeclared, IsExact(want)
    PROVE  /\ ExactVersion(want) \in Version
           /\ \A v : Allowed(Tokens(want), v) <=> v = ExactVersion(want)
<1>1. PICK token \in want : token.op = "="
  BY DEF IsExact
<1>2. want = {token} /\ NormalizeVersion(token.base) \in Version
  BY <1>1 DEF IsConstraint
<1>3. ExactVersion(want) = NormalizeVersion(token.base)
  BY <1>1, <1>2 DEF ExactVersion
<1>4. \A v : Allowed({token}, v) <=> v = NormalizeVersion(token.base)
  BY <1>1 DEF Allowed
<1> QED
  BY <1>2, <1>3, <1>4 DEF Tokens

\* What the registry is asked for: the newest version listed that the constraint
\* allows, or the exact version when it is not listed.
LEMMA RegistryNewest ==
    ASSUME NEW n, NEW want, want = Undeclared \/ IsConstraint(want),
           Candidates(n, want) # {} \/ IsExact(want)
    PROVE  LET newest == FromRegistry(n, want).version
           IN /\ newest \in Version
              /\ newest \in Listed(n) \/ Candidates(n, want) = {}
              /\ Allowed(Tokens(want), newest)
              /\ \A v \in Listed(n) : Allowed(Tokens(want), v) => ~Older(newest, v)
<1> DEFINE newest == FromRegistry(n, want).version
<1>1. /\ Listed(n) \subseteq Versions /\ Versions \subseteq Version
      /\ Candidates(n, want) \subseteq Listed(n)
  BY PackagesAssumption DEF Listed, Candidates
<1>2. \A v \in Version : Matches(Tokens(want), v) <=> Allowed(Tokens(want), v)
  <2>1. \A token \in Tokens(want) : /\ token.op \in Comparators \cup {"="}
                                    /\ NormalizeVersion(token.base) \in Version
    BY DEF Tokens, IsConstraint
  <2> QED
    BY <2>1, MatchesIsAllowed
<1>3. CASE Candidates(n, want) # {}
  <2>1. newest = Best(Candidates(n, want))
    BY <1>3 DEF FromRegistry
  <2>2. IsFiniteSet(Candidates(n, want))
    BY <1>1, PackagesAssumption, FS_Subset
  <2>3. /\ newest \in Candidates(n, want)
        /\ \A w \in Candidates(n, want) : ~Older(newest, w)
    BY <1>1, <1>3, <2>1, <2>2, BestIsNewest
  <2>4. \A v \in Listed(n) : v \in Candidates(n, want) <=> Allowed(Tokens(want), v)
    BY <1>1, <1>2 DEF Candidates
  <2> QED
    BY <1>1, <2>3, <2>4
<1>4. CASE Candidates(n, want) = {}
  <2>1. IsExact(want) /\ want # Undeclared /\ IsConstraint(want)
    BY <1>4 DEF IsExact
  <2>2. newest = ExactVersion(want)
    BY <1>4 DEF FromRegistry
  <2>3. \A v : Allowed(Tokens(want), v) <=> v = newest
    BY <2>1, <2>2, ExactIsOne
  <2>4. newest \in Version
    BY <2>1, <2>2, ExactIsOne
  <2> QED
    BY <1>4, <2>3, <2>4, OlderIsStrict
<1> QED
  BY <1>3, <1>4

\* What is resolved is an entry of a lockfile, so that it is told from no entry.
LEMMA ResolvedIsPin ==
    ASSUME Types, NEW k \in Wanted, CanResolve(k)
    PROVE  Resolved(k) \in Pins
<1> DEFINE entry == Effective(k)
<1>0. /\ k[2] \in Names /\ None \in Bytes
      /\ entry.kind \in {"path", "git", "registry"}
      /\ entry.want = Undeclared \/ IsConstraint(entry.want)
  BY EffectiveEntry, KeyNames DEF Wanted, Bytes
<1> HIDE DEF entry
<1>1. CASE entry.kind = "registry"
  <2>1. Candidates(k[2], entry.want) # {} \/ IsExact(entry.want)
    BY <1>1 DEF CanResolve, entry
  <2> DEFINE pin == FromRegistry(k[2], entry.want)
  <2>2. pin.version \in Version /\ (pin.version \in Listed(k[2]) \/ Candidates(k[2], entry.want) = {})
    BY <1>0, <2>1, RegistryNewest
  <2>3. /\ pin = [source |-> "registry", version |-> pin.version, checksum |-> pin.checksum]
        /\ pin.checksum = IF Candidates(k[2], entry.want) = {} THEN None
                          ELSE index[<<k[2], pin.version>>]
    BY DEF FromRegistry
  <2>4. pin.checksum \in Bytes
    BY <1>0, <2>2, <2>3 DEF Types, Listed
  <2>5. pin \in Pins
    BY <2>2, <2>3, <2>4 DEF Pins
  <2> QED
    BY <1>1, <2>5 DEF Resolved, entry
<1>2. CASE entry.kind # "registry"
  <2>1. DeclaredVersion(entry.want) \in Version
    <3>1. CASE IsExact(entry.want)
      BY <1>0, <3>1, ExactIsOne DEF DeclaredVersion, IsExact
    <3>2. CASE ~IsExact(entry.want)
      BY <3>2 DEF DeclaredVersion, NoVersion, Version
    <3> QED
      BY <3>1, <3>2
  <2>2. checkout[k[2]] \in Bytes
    BY <1>0 DEF Types
  <2> QED
    BY <1>0, <1>2, <2>1, <2>2 DEF Resolved, Pins, entry
<1> QED
  BY <1>1, <1>2

\* Writing the lockfile does what the property says.
LEMMA NewestLocked ==
    ASSUME Types, \A k \in Wanted : CanResolve(k), lock' = ResolvedManifest
    PROVE  /\ lock'.hash = manifest
           /\ \A k \in KeySet :
                /\ (lock'.deps[k] # None) <=> (manifest.deps[k] # None)
                /\ lock'.deps[k] # None /\ lock'.deps[k].source = "registry" =>
                     LET want == Tokens(manifest.deps[k].want)
                         newest == lock'.deps[k].version
                     IN /\ Allowed(want, newest)
                        /\ \A v \in Listed(k[2]) : Allowed(want, v) => ~Older(newest, v)
<1>1. /\ lock'.hash = manifest
      /\ \A k \in KeySet : lock'.deps[k] = IF k \in Wanted THEN Resolved(k) ELSE None
  BY DEF ResolvedManifest
<1>2. ASSUME NEW k \in KeySet
      PROVE (lock'.deps[k] # None) <=> (manifest.deps[k] # None)
  <2>1. CASE k \in Wanted
    BY <1>1, <2>1, ResolvedIsPin, PackagesAssumption DEF Wanted
  <2>2. CASE k \notin Wanted
    BY <1>1, <2>2 DEF Wanted
  <2> QED
    BY <2>1, <2>2
<1>3. ASSUME NEW k \in KeySet, lock'.deps[k] # None, lock'.deps[k].source = "registry"
      PROVE  LET want == Tokens(manifest.deps[k].want)
                 newest == lock'.deps[k].version
             IN /\ Allowed(want, newest)
                /\ \A v \in Listed(k[2]) : Allowed(want, v) => ~Older(newest, v)
  <2> DEFINE want == manifest.deps[k].want
  <2>1. k \in Wanted /\ lock'.deps[k] = Resolved(k)
    BY <1>1, <1>3
  <2>2. /\ Effective(k).want = want
        /\ want = Undeclared \/ IsConstraint(want)
    BY <2>1, EffectiveEntry
  <2>3. Effective(k).kind = "registry"
    BY <1>3, <2>1 DEF Resolved
  <2>4. Resolved(k) = FromRegistry(k[2], want)
    BY <2>2, <2>3 DEF Resolved
  <2>5. Candidates(k[2], want) # {} \/ IsExact(want)
    BY <2>1, <2>2, <2>3 DEF CanResolve
  <2> HIDE DEF want
  <2>6. LET newest == FromRegistry(k[2], want).version
        IN /\ Allowed(Tokens(want), newest)
           /\ \A v \in Listed(k[2]) : Allowed(Tokens(want), v) => ~Older(newest, v)
    BY <2>2, <2>5, RegistryNewest
  <2> QED
    BY <2>1, <2>4, <2>6 DEF want
<1> QED
  BY <1>1, <1>2, <1>3

LEMMA InitTypes == Init => Types /\ OnlyManifests
<1> SUFFICES ASSUME Init PROVE Types /\ OnlyManifests
  OBVIOUS
<1>1. Types
  BY EmptyIsManifest DEF Init, Types, Bytes
<1> QED
  BY <1>1 DEF Init, OnlyManifests, Idle

\* Whenever a lockfile is written it names what the manifest asks for, at the newest
\* version that is listed and allowed (resolve_manifest, _select_registry_version).
THEOREM PackagesNewestPinned == Spec => NewestPinned
<1>1. Init => Types /\ OnlyManifests
  BY InitTypes
<1>2. Types /\ OnlyManifests /\ [Next]_vars => (Types /\ OnlyManifests)'
  BY TypesStep, OnlyManifestsStep
<1> DEFINE NewestIsPinned == lock' # lock /\ lock'.hash # None =>
         /\ lock'.hash = manifest
         /\ \A k \in KeySet :
              /\ (lock'.deps[k] # None) <=> (manifest.deps[k] # None)
              /\ lock'.deps[k] # None /\ lock'.deps[k].source = "registry" =>
                   LET want == Tokens(manifest.deps[k].want)
                       newest == lock'.deps[k].version
                   IN /\ Allowed(want, newest)
                      /\ \A v \in Listed(k[2]) : Allowed(want, v) => ~Older(newest, v)
<1>3. Types /\ [Next]_vars => [NewestIsPinned]_vars
  <2> SUFFICES ASSUME Types, Next PROVE NewestIsPinned
    BY DEF vars
  <2>1. CASE WriteLock
    BY <2>1, NewestLocked DEF WriteLock
  <2>2. CASE Crash
    <3>1. lock' = NoLock \/ lock' = lock
      BY <2>2 DEF Crash, files
    <3> QED
      BY <3>1 DEF NoLock
  <2>3. CASE ~WriteLock /\ ~Crash
    <3>1. UNCHANGED lock
      BY <2>3 DEF Next, InitProject, Add, Remove, Update, Begin, WriteManifest, ResolveFails,
                  VendorStart, Fetch, Clear, Copy, InVendor, VendorEnd, EditManifest,
                  RegistryChanges, CheckoutChanges, Changes, files
    <3> QED
      BY <3>1
  <2> QED
    BY <2>1, <2>2, <2>3
<1> QED
  BY <1>1, <1>2, <1>3, PTL DEF Spec, NewestPinned

-----------------------------------------------------------------------------
\* While vendor runs, the lockfile is the one it read, and the entries before the
\* one it is at are whole; but for those that share the directory it is filling.
Places == 1..Len(Keys)

PlaceOf(l, i) == RootOf(Keys[i][2], l.deps[Keys[i]])

Whole(l, i) == l.deps[Keys[i]] # None =>
                   /\ PlaceOf(l, i) \in DOMAIN vendor
                   /\ vendor[PlaceOf(l, i)] \in Digests

VendorCommands == [op : {"vendor"}, lock : {lock}, force : BOOLEAN,
                   stage : {"fetch", "clear", "copy"}, at : 1..(Len(Keys) + 1), sum : Bytes]

Filling(i) == cmd.stage = "copy" /\ PlaceOf(lock, i) = PlaceOf(lock, cmd.at)

VendorOK ==
    cmd.op = "vendor" =>
        /\ cmd \in VendorCommands /\ vendorDir /\ finished = NoLock
        /\ cmd.at \in Places => lock.deps[Keys[cmd.at]] # None
        /\ cmd.at \notin Places => cmd.stage = "fetch"
        /\ cmd.stage # "fetch" /\ Pinned.source = "registry" => Pinned.version \in Versions
        /\ \A i \in Places : i < cmd.at => Whole(lock, i) \/ Filling(i)

FinishedOK == finished # NoLock => vendorDir /\ \A i \in Places : Whole(finished, i)

\* The least of a set of positions.
LEMMA MinOfPlaces ==
    ASSUME NEW S \in SUBSET Nat, S # {}
    PROVE  Min(S) \in S /\ \A j \in S : Min(S) <= j
<1>1. \E m \in S : \A n \in S : m <= n
  BY LeastNatural
<1> QED
  BY <1>1 DEF Min

\* The next entry that is there; those passed over are not.
LEMMA NextAtFacts ==
    ASSUME NEW l, NEW i \in 0..Len(Keys)
    PROVE  /\ NextAt(l, i) \in 1..(Len(Keys) + 1)
           /\ NextAt(l, i) \in Places => l.deps[Keys[NextAt(l, i)]] # None
           /\ \A j \in Places : i < j /\ j < NextAt(l, i) => l.deps[Keys[j]] = None
<1> DEFINE later == {j \in DOMAIN Keys : j > i /\ l.deps[Keys[j]] # None}
<1>0. Len(Keys) \in Nat /\ DOMAIN Keys = Places
  BY PackagesAssumption DEF Places
<1>1. CASE later = {}
  <2>1. NextAt(l, i) = Len(Keys) + 1
    BY <1>1 DEF NextAt
  <2>2. Len(Keys) + 1 \notin Places /\ Len(Keys) + 1 \in 1..(Len(Keys) + 1)
    BY <1>0 DEF Places
  <2>3. \A j \in Places : i < j => l.deps[Keys[j]] = None
    BY <1>0, <1>1 DEF Places
  <2> QED
    BY <2>1, <2>2, <2>3
<1>2. CASE later # {}
  <2>1. NextAt(l, i) = Min(later)
    BY <1>2 DEF NextAt
  <2>2. later \in SUBSET Nat
    BY <1>0 DEF Places
  <2>3. Min(later) \in later /\ \A j \in later : Min(later) <= j
    BY <1>2, <2>2, MinOfPlaces
  <2>4. \A j \in Places : i < j /\ l.deps[Keys[j]] # None => j \in later
    BY <1>0 DEF Places
  <2> HIDE DEF later
  <2>5. Min(later) \in Places /\ l.deps[Keys[Min(later)]] # None
    BY <1>0, <2>3 DEF later
  <2>6. \A j \in Places : i < j /\ j < Min(later) => l.deps[Keys[j]] = None
    BY <1>0, <2>3, <2>4, <2>5 DEF Places
  <2>7. Places \subseteq 1..(Len(Keys) + 1)
    BY <1>0 DEF Places
  <2> QED
    BY <2>1, <2>5, <2>6, <2>7
<1> QED
  BY <1>1, <1>2

\* What the names of the vendor command stand for in the lockfile.
LEMMA AtPlace ==
    ASSUME VendorOK, cmd.op = "vendor", cmd.at <= Len(Keys)
    PROVE  /\ cmd \in VendorCommands /\ cmd.lock = lock /\ cmd.at \in Places
           /\ Name = Keys[cmd.at][2] /\ Name \in Names
           /\ Pinned = lock.deps[Keys[cmd.at]]
           /\ Root = PlaceOf(lock, cmd.at)
<1>0. Len(Keys) \in Nat /\ DOMAIN Keys = Places
  BY PackagesAssumption DEF Places
<1>1. cmd \in VendorCommands
  BY DEF VendorOK
<1>2. cmd.lock = lock /\ cmd.at \in 1..(Len(Keys) + 1)
  BY <1>1 DEF VendorCommands
<1>3. cmd.at \in Places
  BY <1>0, <1>2 DEF Places
<1>4. Name = Keys[cmd.at][2] /\ Name \in Names
  BY <1>0, <1>3 DEF Name, Names
<1>5. Pinned = lock.deps[Keys[cmd.at]]
  BY <1>2 DEF Pinned
<1> QED
  BY <1>1, <1>2, <1>3, <1>4, <1>5 DEF Root, PlaceOf

LEMMA VendorFetch ==
    ASSUME Types, VendorOK, Fetch
    PROVE  VendorOK'
<1>1. /\ cmd.op = "vendor" /\ cmd.stage = "fetch" /\ cmd.at <= Len(Keys)
      /\ UNCHANGED <<lock, vendor, vendorDir, finished>>
  BY DEF Fetch, InVendor
<1>2. /\ cmd \in VendorCommands /\ cmd.lock = lock /\ cmd.at \in Places
      /\ Pinned = lock.deps[Keys[cmd.at]] /\ Name \in Names
  BY <1>1, AtPlace
<1>3. CASE cmd' = Idle
  BY <1>3 DEF Idle, VendorOK
<1>4. ASSUME NEW x \in Bytes, cmd' = [cmd EXCEPT !.stage = "clear", !.sum = x],
             Pinned.source = "registry" => Pinned.version \in Versions
      PROVE  VendorOK'
  <2>1. /\ cmd' \in VendorCommands' /\ cmd'.op = "vendor" /\ cmd'.stage = "clear"
        /\ cmd'.at = cmd.at /\ cmd'.lock = cmd.lock
    BY <1>1, <1>2, <1>4 DEF VendorCommands
  <2>2. Pinned' = Pinned
    BY <2>1 DEF Pinned
  <2>3. \A i \in Places : i < cmd.at => Whole(lock, i)
    BY <1>1 DEF VendorOK, Filling
  <2>4. \A i \in Places : i < cmd'.at => Whole(lock, i)'
    BY <1>1, <2>1, <2>3 DEF Whole, PlaceOf
  <2> QED
    BY <1>1, <1>2, <1>4, <2>1, <2>2, <2>4 DEF VendorOK
<1>5. cmd.sum \in Bytes /\ [cmd EXCEPT !.stage = "clear"] = [cmd EXCEPT !.stage = "clear", !.sum = cmd.sum]
  BY <1>2 DEF VendorCommands
<1>6. CASE Pinned.source = "path" \/ Pinned.source = "git"
  <2>1. cmd' = Idle \/ cmd' = [cmd EXCEPT !.stage = "clear"]
    BY <1>6 DEF Fetch, Fails, GoesOn
  <2>2. Pinned.source # "registry"
    BY <1>6
  <2> QED
    BY <1>3, <1>4, <1>5, <2>1, <2>2
<1>7. CASE Pinned.source = "registry"
  <2>1. \/ cmd' = Idle
        \/ /\ Kind # None
           /\ cmd' = [cmd EXCEPT !.stage = "clear", !.sum = index[Release]]
    BY <1>7, Zenon DEF Fetch, Fails
  <2>2. Kind # None => Pinned.version \in Versions
    BY <1>7 DEF Kind
  <2>3. Pinned.version \in Versions => index[Release] \in Bytes
    BY <1>2 DEF Release, Types
  <2> QED
    BY <1>3, <1>4, <2>1, <2>2, <2>3
<1> QED
  BY <1>6, <1>7 DEF Fetch

LEMMA VendorClear ==
    ASSUME Types, VendorOK, Clear
    PROVE  VendorOK'
<1>1. /\ cmd.op = "vendor" /\ cmd.stage = "clear" /\ cmd.at <= Len(Keys)
      /\ UNCHANGED <<lock, vendorDir, finished>>
  BY DEF Clear, InVendor
<1>2. /\ cmd \in VendorCommands /\ cmd.lock = lock /\ cmd.at \in Places
      /\ Pinned = lock.deps[Keys[cmd.at]] /\ Root = PlaceOf(lock, cmd.at)
  BY <1>1, AtPlace
<1>3. CASE cmd' = Idle
  BY <1>3 DEF Idle, VendorOK
<1>4. CASE cmd' = [cmd EXCEPT !.stage = "copy"]
  <2>1. /\ cmd' \in VendorCommands' /\ cmd'.op = "vendor" /\ cmd'.stage = "copy"
        /\ cmd'.at = cmd.at /\ cmd'.lock = cmd.lock
    BY <1>1, <1>2, <1>4 DEF VendorCommands
  <2>2. Pinned' = Pinned
    BY <2>1 DEF Pinned
  <2>3. \A i \in Places : i < cmd.at => Whole(lock, i)
    BY <1>1 DEF VendorOK, Filling
  <2>4. cmd' # Idle
    BY <2>1 DEF Idle
  <2>5. \A r \in DOMAIN vendor : r # Root => r \in DOMAIN vendor' /\ vendor'[r] = vendor[r]
    <3>1. \/ vendor' = [r \in (DOMAIN vendor) \ {Root} |-> vendor[r]]
          \/ vendor' = [r \in (DOMAIN vendor) \cup {Root} |-> IF r = Root THEN Half ELSE vendor[r]]
      BY <2>4, Zenon DEF Clear, Fails
    <3> QED
      BY <3>1
  <2>6. ASSUME NEW i \in Places, i < cmd.at PROVE Whole(lock, i)' \/ Filling(i)'
    <3>1. CASE PlaceOf(lock, i) = Root
      BY <1>1, <1>2, <2>1, <3>1 DEF Filling, PlaceOf
    <3>2. CASE PlaceOf(lock, i) # Root
      BY <1>1, <2>3, <2>5, <2>6, <3>2 DEF Whole, PlaceOf
    <3> QED
      BY <3>1, <3>2
  <2>7. \A i \in Places : i < cmd'.at => Whole(lock, i)' \/ Filling(i)'
    BY <2>1, <2>6
  <2>8. /\ vendorDir /\ finished = NoLock /\ lock.deps[Keys[cmd.at]] # None
        /\ Pinned.source = "registry" => Pinned.version \in Versions
    BY <1>1, <1>2 DEF VendorOK
  <2> QED
    BY <1>1, <1>2, <2>1, <2>2, <2>7, <2>8 DEF VendorOK
<1>5. cmd' = Idle \/ cmd' = [cmd EXCEPT !.stage = "copy"]
  BY DEF Clear, Fails, GoesOn
<1> QED
  BY <1>3, <1>4, <1>5

\* What is copied is there.
LEMMA SourceIsBytes ==
    ASSUME Types, VendorOK, cmd.op = "vendor", cmd.stage = "copy", cmd.at <= Len(Keys), Source # None
    PROVE  Source \in Digests
<1>1. Name \in Names
  BY AtPlace
<1>2. Pinned.source = "registry" => Pinned.version \in Versions
  BY DEF VendorOK
<1>3. Pinned.source = "registry" => Release \in Names \X Versions
  BY <1>1, <1>2 DEF Release
<1>4. Source \in Bytes
  BY <1>1, <1>3 DEF Source, Types
<1> QED
  BY <1>4 DEF Bytes

LEMMA VendorCopy ==
    ASSUME Types, VendorOK, Copy
    PROVE  VendorOK'
<1>1. /\ cmd.op = "vendor" /\ cmd.stage = "copy" /\ cmd.at <= Len(Keys)
      /\ UNCHANGED <<lock, vendorDir, finished>>
  BY DEF Copy, InVendor
<1>2. /\ cmd \in VendorCommands /\ cmd.lock = lock /\ cmd.at \in Places
      /\ Root = PlaceOf(lock, cmd.at)
  BY <1>1, AtPlace
<1>3. CASE cmd' = Idle
  BY <1>3 DEF Idle, VendorOK
<1>4. CASE cmd' # Idle
  <2> DEFINE next == NextAt(lock, cmd.at)
  <2>1. /\ Source # None
        /\ vendor' = [r \in (DOMAIN vendor) \cup {Root} |-> IF r = Root THEN Source ELSE vendor[r]]
        /\ cmd' = [cmd EXCEPT !.stage = "fetch", !.sum = None, !.at = next]
    BY <1>2, <1>4, Zenon DEF Copy, Fails
  <2>2. Len(Keys) \in Nat /\ cmd.at \in 0..Len(Keys)
    BY <1>2, PackagesAssumption DEF Places
  <2>3. /\ next \in 1..(Len(Keys) + 1)
        /\ next \in Places => lock.deps[Keys[next]] # None
        /\ \A j \in Places : cmd.at < j /\ j < next => lock.deps[Keys[j]] = None
    BY <2>2, NextAtFacts
  <2> HIDE DEF next
  <2>4. /\ cmd' \in VendorCommands' /\ cmd'.op = "vendor" /\ cmd'.stage = "fetch"
        /\ cmd'.at = next /\ cmd'.lock = cmd.lock
    BY <1>1, <1>2, <2>1, <2>3 DEF VendorCommands, Bytes
  <2>5. Source \in Digests
    BY <1>1, <2>1, SourceIsBytes
  <2>6. ASSUME NEW i \in Places, i < next PROVE Whole(lock, i)'
    <3>1. CASE i < cmd.at
      <4>1. Whole(lock, i) \/ PlaceOf(lock, i) = Root
        BY <1>1, <1>2, <3>1 DEF VendorOK, Filling
      <4> QED
        BY <1>1, <2>1, <2>5, <4>1 DEF Whole, PlaceOf
    <3>2. CASE i = cmd.at
      <4>1. PlaceOf(lock, i) = Root
        BY <1>2, <3>2
      <4> QED
        BY <1>1, <2>1, <2>5, <4>1 DEF Whole, PlaceOf
    <3>3. CASE cmd.at < i
      BY <1>1, <2>3, <2>6, <3>3 DEF Whole
    <3>4. i < cmd.at \/ i = cmd.at \/ cmd.at < i
      BY <1>2, <2>2 DEF Places
    <3> QED
      BY <3>1, <3>2, <3>3, <3>4
  <2>7. \A i \in Places : i < cmd'.at => Whole(lock, i)'
    BY <2>4, <2>6
  <2>8. vendorDir /\ finished = NoLock
    BY <1>1 DEF VendorOK
  <2> QED
    BY <1>1, <2>3, <2>4, <2>7, <2>8 DEF VendorOK
<1> QED
  BY <1>3, <1>4

LEMMA VendorBegin ==
    ASSUME VendorStart
    PROVE  VendorOK'
<1> DEFINE first == NextAt(lock, 0)
<1>1. PICK force \in BOOLEAN :
         cmd' = [op |-> "vendor", lock |-> lock, force |-> force, stage |-> "fetch",
                 at |-> first, sum |-> None]
  BY DEF VendorStart
<1>2. vendorDir' /\ finished' = NoLock /\ UNCHANGED <<lock, vendor>>
  BY DEF VendorStart
<1>3. /\ first \in 1..(Len(Keys) + 1)
      /\ first \in Places => lock.deps[Keys[first]] # None
      /\ \A j \in Places : 0 < j /\ j < first => lock.deps[Keys[j]] = None
  BY NextAtFacts, PackagesAssumption
<1> HIDE DEF first
<1>4. cmd' \in VendorCommands' /\ cmd'.stage = "fetch" /\ cmd'.at = first
  BY <1>1, <1>2, <1>3 DEF VendorCommands, Bytes
<1>5. NoLock' = NoLock
  BY DEF NoLock
<1>6. \A i \in Places : i < first => Whole(lock, i)'
  BY <1>2, <1>3 DEF Whole, Places
<1> QED
  BY <1>2, <1>3, <1>4, <1>5, <1>6 DEF VendorOK

LEMMA VendorStep == Types /\ VendorOK /\ [Next]_vars => VendorOK'
<1> SUFFICES ASSUME Types, VendorOK, [Next]_vars PROVE VendorOK'
  OBVIOUS
<1>1. CASE InitProject \/ Add \/ Remove \/ Update
  <2>1. cmd'.op # "vendor"
    BY <1>1 DEF InitProject, Add, Remove, Update, Begin, WriteNext, Locking
  <2> QED
    BY <2>1 DEF VendorOK
<1>2. CASE WriteManifest \/ WriteLock \/ ResolveFails \/ VendorEnd \/ Crash
  <2>1. cmd'.op # "vendor"
    BY <1>2 DEF WriteManifest, WriteLock, ResolveFails, VendorEnd, Crash, Idle, Locking
  <2> QED
    BY <2>1 DEF VendorOK
<1>3. CASE EditManifest \/ RegistryChanges \/ CheckoutChanges \/ UNCHANGED vars
  <2>1. UNCHANGED <<lock, vendor, vendorDir, cmd, finished>>
    BY <1>3 DEF EditManifest, RegistryChanges, CheckoutChanges, Changes, vars, files
  <2> QED
    BY <2>1 DEF VendorOK, VendorCommands, Filling, Whole, PlaceOf, Pinned
<1> QED
  BY <1>1, <1>2, <1>3, VendorFetch, VendorClear, VendorCopy, VendorBegin DEF Next

LEMMA FinishedStep == VendorOK /\ FinishedOK /\ [Next]_vars => FinishedOK'
<1> SUFFICES ASSUME VendorOK, FinishedOK, [Next]_vars, finished' # NoLock
             PROVE  (vendorDir /\ \A i \in Places : Whole(finished, i))'
  BY DEF FinishedOK, NoLock
<1>1. CASE VendorEnd
  <2>1. /\ cmd.op = "vendor" /\ cmd.at > Len(Keys) /\ finished' = cmd.lock
        /\ UNCHANGED <<vendor, vendorDir>>
    BY <1>1 DEF VendorEnd, files
  <2>2. cmd.lock = lock /\ cmd.stage = "fetch" /\ cmd.at \in Nat /\ vendorDir
    <3>1. cmd \in VendorCommands /\ Len(Keys) \in Nat
      BY <2>1, PackagesAssumption DEF VendorOK
    <3>2. cmd.at \in Nat /\ cmd.at \notin Places /\ cmd.lock = lock
      BY <2>1, <3>1 DEF VendorCommands, Places
    <3> QED
      BY <2>1, <3>2 DEF VendorOK
  <2>3. \A i \in Places : i < cmd.at
    BY <2>1, <2>2, PackagesAssumption DEF Places
  <2>4. \A i \in Places : Whole(lock, i)
    BY <2>1, <2>2, <2>3 DEF VendorOK, Filling
  <2> QED
    BY <2>1, <2>2, <2>4 DEF Whole, PlaceOf
<1>2. CASE Fetch \/ Clear \/ Copy
  BY <1>2 DEF Fetch, Clear, Copy, InVendor, VendorOK
<1>3. CASE VendorStart
  BY <1>3 DEF VendorStart
<1>4. CASE Crash
  <2>1. UNCHANGED <<finished, vendorDir>>
    BY <1>4 DEF Crash
  <2>2. cmd.op # "vendor"
    BY <2>1 DEF VendorOK
  <2>3. UNCHANGED vendor
    BY <1>4, <2>2 DEF Crash, files
  <2> QED
    BY <2>1, <2>3 DEF FinishedOK, Whole, PlaceOf
<1>5. CASE \/ InitProject \/ Add \/ Remove \/ Update \/ WriteManifest \/ WriteLock \/ ResolveFails
           \/ EditManifest \/ RegistryChanges \/ CheckoutChanges \/ UNCHANGED vars
  <2>1. UNCHANGED <<finished, vendor, vendorDir>>
    BY <1>5 DEF InitProject, Add, Remove, Update, Begin, WriteManifest, WriteLock, ResolveFails,
                EditManifest, RegistryChanges, CheckoutChanges, Changes, vars, files
  <2> QED
    BY <2>1 DEF FinishedOK, Whole, PlaceOf
<1> QED
  BY <1>1, <1>2, <1>3, <1>4, <1>5 DEF Next

\* What is in a lockfile is what was resolved.
LockOK == \A k \in KeySet : lock.deps[k] \in Pins \cup {None}

LEMMA LockStep == Types /\ LockOK /\ [Next]_vars => LockOK'
<1> SUFFICES ASSUME Types, LockOK, [Next]_vars, NEW k \in KeySet
             PROVE  lock'.deps[k] \in Pins \cup {None}
  BY DEF LockOK
<1>1. CASE WriteLock
  <2>1. lock' = ResolvedManifest /\ \A w \in Wanted : CanResolve(w)
    BY <1>1 DEF WriteLock
  <2>2. lock'.deps[k] = IF k \in Wanted THEN Resolved(k) ELSE None
    BY <2>1 DEF ResolvedManifest
  <2> QED
    BY <2>1, <2>2, ResolvedIsPin
<1>2. CASE Crash
  <2>1. lock' = lock \/ lock' = NoLock
    BY <1>2 DEF Crash, files
  <2> QED
    BY <2>1 DEF LockOK, NoLock
<1>3. CASE ~WriteLock /\ ~Crash
  <2>1. UNCHANGED lock
    BY <1>3 DEF Next, InitProject, Add, Remove, Update, Begin, WriteManifest, ResolveFails,
                VendorStart, Fetch, Clear, Copy, InVendor, VendorEnd, EditManifest,
                RegistryChanges, CheckoutChanges, Changes, files, vars
  <2> QED
    BY <2>1 DEF LockOK
<1> QED
  BY <1>1, <1>2, <1>3

IInv == Types /\ OnlyManifests /\ LockOK /\ VendorOK /\ FinishedOK

LEMMA InvariantHolds == Spec => []IInv
<1>1. Init => IInv
  BY InitTypes DEF Init, IInv, LockOK, NoLock, VendorOK, FinishedOK, Idle
<1>2. IInv /\ [Next]_vars => IInv'
  BY TypesStep, OnlyManifestsStep, LockStep, VendorStep, FinishedStep DEF IInv
<1> QED
  BY <1>1, <1>2, PTL DEF Spec

\* However many commands have failed or were killed before, and whatever the registry
\* and the checkouts did meanwhile, vendor that ends leaves every package of the
\* lockfile in its directory, complete; until the next vendor begins.
THEOREM PackagesVendoredIsWhole == Spec => []VendoredIsWhole
<1>1. IInv => VendoredIsWhole
  <2> SUFFICES ASSUME IInv, finished # NoLock, finished = lock, NEW k \in KeySet, lock.deps[k] # None
               PROVE  /\ RootOf(k[2], lock.deps[k]) \in DOMAIN vendor
                      /\ vendor[RootOf(k[2], lock.deps[k])] \in Digests
    BY DEF VendoredIsWhole
  <2>1. PICK i \in Places : k = Keys[i]
    BY PackagesAssumption DEF KeySet, Places
  <2>2. Whole(lock, i)
    BY DEF IInv, FinishedOK
  <2> QED
    BY <2>1, <2>2 DEF Whole, PlaceOf
<1> QED
  BY <1>1, InvariantHolds, PTL

-----------------------------------------------------------------------------
LEMMA RankIsNat ==
    ASSUME LockOK, NEW n, NEW i \in RootsOf(n)
    PROVE  Rank(i) \in Nat
<1>1. i \in Places /\ Len(Keys) \in Nat /\ lock.deps[Keys[i]] # None
  BY PackagesAssumption DEF RootsOf, Places
<1>2. lock.deps[Keys[i]] \in Pins
  BY <1>1, PackagesAssumption DEF LockOK, KeySet, Places
<1>3. lock.deps[Keys[i]].source \in {"path", "registry", "git"}
  BY <1>2 DEF Pins
<1>4. Rank(i) = i + Len(Keys) * 0 \/ Rank(i) = i + Len(Keys) * 1 \/ Rank(i) = i + Len(Keys) * 2
  BY <1>3 DEF Rank
<1> QED
  BY <1>1, <1>4 DEF Places

\* While the vendored lockfile is the one on disk, no step changes what is vendored,
\* and all imports are answered from there.
LEMMA ImportsStayStep ==
    ASSUME IInv, [Next]_vars, finished # NoLock, finished = lock, finished' = finished, lock' = lock,
           NEW n \in Names
    PROVE  Imported(n)' = Imported(n)
<1>1. cmd.op # "vendor" /\ vendorDir
  BY DEF IInv, VendorOK, FinishedOK
<1>2. UNCHANGED <<vendor, vendorDir>>
  BY <1>1 DEF Next, InitProject, Add, Remove, Update, Begin, WriteManifest, WriteLock, ResolveFails,
              VendorStart, Fetch, Clear, Copy, InVendor, VendorEnd, Crash, EditManifest,
              RegistryChanges, CheckoutChanges, Changes, vars, files
<1>3. RootsOf(n)' = RootsOf(n)
  BY <1>2 DEF RootsOf
<1>4. ASSUME NEW i \in RootsOf(n) PROVE ContentOf(i)' = ContentOf(i)
  <2>1. i \in Places /\ lock.deps[Keys[i]] # None
    BY PackagesAssumption DEF RootsOf, Places
  <2>2. PlaceOf(lock, i) \in DOMAIN vendor /\ vendor[PlaceOf(lock, i)] \in Digests
    BY <2>1 DEF IInv, FinishedOK, Whole
  <2>3. Vendored(i) = vendor[PlaceOf(lock, i)] /\ Vendored(i)' = Vendored(i)
    BY <1>1, <1>2, <2>2 DEF Vendored, PlaceOf
  <2>4. Vendored(i) # None
    BY <2>2, <2>3, PackagesAssumption
  <2> QED
    BY <2>3, <2>4 DEF ContentOf
<1>5. \A i : Rank(i)' = Rank(i)
  BY DEF Rank
<1> DEFINE there == {i \in RootsOf(n) : ContentOf(i) # None}
<1>6. there' = there
  BY <1>3, <1>4
<1>7. (CHOOSE i \in there : \A j \in there : Rank(i) <= Rank(j))'
          = CHOOSE i \in there : \A j \in there : Rank(i) <= Rank(j)
  BY <1>5, <1>6
<1> DEFINE first == CHOOSE i \in there : \A j \in there : Rank(i) <= Rank(j)
<1>8. there # {} => first \in there
  <2> SUFFICES ASSUME there # {} PROVE \E i \in there : \A j \in there : Rank(i) <= Rank(j)
    OBVIOUS
  <2> DEFINE ranks == {Rank(i) : i \in there}
  <2>1. ranks \in SUBSET Nat /\ ranks # {}
    BY RankIsNat DEF IInv
  <2>2. PICK m \in ranks : \A k \in ranks : m <= k
    BY <2>1, LeastNatural
  <2> QED
    BY <2>2
<1>9. Imported(n) = IF RootsOf(n) = {} THEN "local" ELSE IF there = {} THEN None ELSE ContentOf(first)
  BY DEF Imported
<1>10. Imported(n)' = IF RootsOf(n)' = {} THEN "local" ELSE IF there' = {} THEN None ELSE ContentOf(first)'
  BY DEF Imported
<1>11. there # {} => ContentOf(first)' = ContentOf(first)
  <2> SUFFICES ASSUME there # {} PROVE ContentOf(first)' = ContentOf(first)
    OBVIOUS
  <2>1. PICK i \in there : i = first
    BY <1>8
  <2>2. ContentOf(i)' = ContentOf(i)
    BY <1>4
  <2> HIDE DEF first
  <2> QED
    BY <1>7, <2>1, <2>2 DEF first
<1> QED
  BY <1>3, <1>6, <1>9, <1>10, <1>11

\* A project that has been vendored is self-contained: what its imports find changes
\* with the next lock or vendor, and with nothing else.
THEOREM PackagesImportsStay == Spec => ImportsStay
<1> DEFINE Stays == finished # NoLock /\ finished = lock /\ finished' = finished /\ lock' = lock
                        => \A n \in Names : Imported(n)' = Imported(n)
<1>1. IInv /\ [Next]_vars => [Stays]_vars
  BY ImportsStayStep
<1> QED
  BY <1>1, InvariantHolds, PTL DEF Spec, ImportsStay

=============================================================================
