------------------------------ MODULE Packages ------------------------------
(***************************************************************************)
(* The package manager (tiny_pkg_cli, tiny_pkg_resolution) and the lookup  *)
(* of "pkg." imports (tiny_language_module_resolution): tiny.toml,         *)
(* tiny.lock, vendor/ and the download cache, read and written by commands *)
(* that fail or are interrupted between any two of their writes, while the *)
(* registry and the local checkouts change on their own.                   *)
(*                                                                         *)
(* A file's or archive's bytes are a member of Digests.  Commands run in   *)
(* the project's directory, one at a time, against one registry.           *)
(***************************************************************************)
EXTENDS SemVer, FiniteSets, FiniteSetsExt

CONSTANTS Keys,         \* <<section, name>> of every possible entry, in lockfile order
          Versions,     \* the versions the registry may list
          Digests,
          Entries,      \* what users write for a dependency: [kind, want]
          DistKind,     \* of each version: "dir", "archive" or "url"
          None,         \* no entry, no file, no checksum
          Half,         \* a directory whose copying or unpacking has not ended
          Undeclared,   \* no version is written in the entry
          MaxCommands,  \* bound: commands run
          MaxChanges    \* bound: edits by users and changes of the registry

Names == {Keys[i][2] : i \in DOMAIN Keys}
KeySet == {Keys[i] : i \in DOMAIN Keys}

Bytes == Digests \cup {None}

\* What the entries of the lockfile are; a version is exact or a range, never both.
Pins == [source : {"path", "git", "registry"}, version : Version, checksum : Bytes]

IsConstraint(want) ==
    \A token \in want : /\ token.op \in Comparators \cup {"="}
                        /\ NormalizeVersion(token.base) \in Version
                        /\ token.op = "=" => want = {token}

ASSUME PackagesAssumption ==
    /\ Len(Keys) \in Nat /\ DOMAIN Keys = 1..Len(Keys)
    /\ IsFiniteSet(Versions) /\ Versions \subseteq Version
    /\ \A e \in Entries : /\ e = [kind |-> e.kind, want |-> e.want]
                          /\ e.kind \in {"path", "git", "registry"}
                          /\ e.want = Undeclared \/ IsConstraint(e.want)
    /\ None \notin Entries \cup Pins \cup Digests

VARIABLES manifest,   \* tiny.toml: the entries, and the names with a path override
          lock,       \* tiny.lock: the manifest it was made from, and its entries
          vendor,     \* vendor/: content of the directories below it
          vendorDir,  \* whether vendor/ is there
          cache,      \* the download cache
          index,      \* the checksums the registry lists
          dist,       \* the bytes the registry serves
          checkout,   \* the local directories of path, git and override entries
          cmd,        \* the command under way, and how far it is
          finished,   \* history: the lockfile vendor/ was completed for, until the
                      \* next vendor command begins
          commands, changes

files == <<manifest, lock, vendor, vendorDir, cache>>
outside == <<index, dist, checkout>>
vars == <<files, outside, cmd, finished, commands, changes>>

EmptyManifest == [deps |-> [k \in KeySet |-> None], over |-> {}]
\* A lockfile that is missing, or empty because its writing was interrupted.
NoLock == [hash |-> None, deps |-> [k \in KeySet |-> None]]
Idle == [op |-> "idle"]
Locking == [op |-> "lock"]

Init == /\ manifest = EmptyManifest
        /\ lock = NoLock
        /\ vendor = <<>>
        /\ vendorDir = FALSE
        /\ cache = [r \in Names \X Versions |-> None]
        /\ index = [r \in Names \X Versions |-> None]
        /\ dist = [r \in Names \X Versions |-> None]
        /\ checkout = [n \in Names |-> None]
        /\ cmd = Idle
        /\ finished = NoLock
        /\ commands = 0
        /\ changes = 0

-----------------------------------------------------------------------------
(* Resolving: the manifest, the registry and the checkouts give the lockfile. *)

NoVersion == <<0, 0, 0>>
Tokens(want) == IF want = Undeclared THEN {} ELSE want
IsExact(want) == want # Undeclared /\ \E token \in want : token.op = "="
ExactVersion(want) == NormalizeVersion((CHOOSE token \in want : token.op = "=").base)

\* An override wins if its directory exists; the version written in the entry stays.
Effective(k) ==
    LET entry == manifest.deps[k]
    IN IF k[2] \in manifest.over /\ checkout[k[2]] # None
       THEN [entry EXCEPT !.kind = "path"]
       ELSE entry

\* _resolve_path_version: what is declared for a directory must be a plain version.
Declarable(want) == want = Undeclared \/ IsExact(want)
DeclaredVersion(want) == IF IsExact(want) THEN ExactVersion(want) ELSE NoVersion

Listed(n) == {v \in Versions : index[<<n, v>>] # None}
Candidates(n, want) == {v \in Listed(n) : Matches(Tokens(want), v)}

Best(versions) == CHOOSE v \in versions : \A w \in versions : ~Older(v, w)

CanResolve(k) ==
    LET entry == Effective(k)
    IN CASE entry.kind = "path" -> checkout[k[2]] # None /\ Declarable(entry.want)
         [] entry.kind = "git" -> Declarable(entry.want)
         [] entry.kind = "registry" -> \/ Candidates(k[2], entry.want) # {}
                                       \/ IsExact(entry.want)

FromRegistry(n, want) ==
    LET found == Candidates(n, want)
        version == IF found = {} THEN ExactVersion(want) ELSE Best(found)
    IN [source |-> "registry", version |-> version,
        checksum |-> IF found = {} THEN None ELSE index[<<n, version>>]]

Resolved(k) ==
    LET entry == Effective(k)
    IN IF entry.kind = "registry"
       THEN FromRegistry(k[2], entry.want)
       ELSE [source |-> entry.kind, version |-> DeclaredVersion(entry.want),
             checksum |-> IF entry.kind = "path" THEN checkout[k[2]] ELSE None]

Wanted == {k \in KeySet : manifest.deps[k] # None}

ResolvedManifest ==
    [hash |-> manifest,
     deps |-> [k \in KeySet |-> IF k \in Wanted THEN Resolved(k) ELSE None]]

-----------------------------------------------------------------------------
(* The commands that write tiny.toml and tiny.lock. *)

Begin(c) == /\ cmd = Idle
            /\ commands < MaxCommands
            /\ commands' = commands + 1
            /\ cmd' = c
            /\ UNCHANGED <<files, outside, changes>>

WriteNext(m) == [op |-> "manifest", new |-> m]

\* init refuses to replace a manifest without --force.
InitProject == /\ Begin(WriteNext(EmptyManifest))
               /\ UNCHANGED finished

\* add writes to the first section, and no git entry; remove deletes from all
\* sections and from the overrides.
Add == /\ \E k \in KeySet, entry \in Entries :
              /\ k[1] = "dependencies"
              /\ entry.kind # "git"
              /\ Begin(WriteNext([manifest EXCEPT !.deps[k] = entry]))
       /\ UNCHANGED finished

Without(n) == [deps |-> [k \in KeySet |-> IF k[2] = n THEN None ELSE manifest.deps[k]],
               over |-> manifest.over \ {n}]

Remove == /\ \E n \in Names : /\ manifest # Without(n)
                              /\ Begin(WriteNext(Without(n)))
          /\ UNCHANGED finished

\* update and resolve.
Update == Begin(Locking) /\ UNCHANGED finished

WriteManifest == /\ cmd.op = "manifest"
                 /\ manifest' = cmd.new
                 /\ cmd' = Locking
                 /\ UNCHANGED <<lock, vendor, vendorDir, cache, outside, finished,
                                commands, changes>>

\* write_lockfile resolves everything before it writes.
WriteLock == /\ cmd.op = "lock"
             /\ \A k \in Wanted : CanResolve(k)
             /\ lock' = ResolvedManifest
             /\ cmd' = Idle
             /\ UNCHANGED <<manifest, vendor, vendorDir, cache, outside, finished,
                            commands, changes>>

\* The command ends with the manifest it has written and the lockfile of before.
ResolveFails == /\ cmd.op = "lock"
                /\ \E k \in Wanted : ~CanResolve(k)
                /\ cmd' = Idle
                /\ UNCHANGED <<files, outside, finished, commands, changes>>

-----------------------------------------------------------------------------
(* vendor: one entry of the lockfile after the other. *)

\* The position of the next entry after i; one past the end when there is none.
NextAt(l, i) ==
    LET later == {j \in DOMAIN Keys : j > i /\ l.deps[Keys[j]] # None}
    IN IF later = {} THEN Len(Keys) + 1 ELSE Min(later)

VendorStart ==
    /\ \E force \in BOOLEAN :
          /\ cmd = Idle
          /\ commands < MaxCommands
          /\ lock # NoLock
          /\ lock.hash = manifest
          /\ cmd' = [op |-> "vendor", lock |-> lock, force |-> force, stage |-> "fetch",
                     at |-> NextAt(lock, 0), sum |-> None]
    /\ vendorDir' = TRUE
    /\ finished' = NoLock
    /\ commands' = commands + 1
    /\ UNCHANGED <<manifest, lock, vendor, cache, outside, changes>>

InVendor(stage) == /\ cmd.op = "vendor"
                   /\ cmd.stage = stage
                   /\ cmd.at <= Len(Keys)
                   /\ UNCHANGED <<manifest, lock, vendorDir, outside, finished,
                                  commands, changes>>

Name == Keys[cmd.at][2]
Pinned == cmd.lock.deps[Keys[cmd.at]]
Release == <<Name, Pinned.version>>
RootOf(n, pin) == <<pin.source, n, pin.version>>
Root == RootOf(Name, Pinned)

Kind == IF Pinned.source # "registry" THEN "dir"
        ELSE IF Pinned.version \in Versions THEN DistKind[Pinned.version] ELSE None

\* SystemExit, or the exception of a file operation.
Fails == cmd' = Idle
GoesOn(stage) == cmd' = [cmd EXCEPT !.stage = stage]

\* _checksum_matches; no checksum, no check.
Fits(bytes, sum) == sum = None \/ bytes = sum

\* The registry's index is read again, and a URL is downloaded unless the cache has it.
Fetch ==
    /\ InVendor("fetch")
    /\ UNCHANGED vendor
    /\ \/ /\ Pinned.source = "path"
          /\ GoesOn("clear")
          /\ UNCHANGED cache
       \/ /\ Pinned.source = "git"
          /\ IF checkout[Name] = None THEN Fails ELSE GoesOn("clear")
          /\ UNCHANGED cache
       \/ /\ Pinned.source = "registry"
          /\ \/ /\ Kind = None \/ index[Release] = None
                /\ Fails
                /\ UNCHANGED cache
             \/ /\ Kind # None /\ index[Release] # None
                /\ LET bytes == IF Kind # "url" THEN None
                                ELSE IF cache[Release] # None /\ Fits(cache[Release], index[Release])
                                THEN cache[Release]
                                ELSE dist[Release]
                   IN IF Kind # "url" \/ Fits(bytes, index[Release])
                      THEN /\ cmd' = [cmd EXCEPT !.stage = "clear", !.sum = index[Release]]
                           /\ cache' = IF Kind = "url" THEN [cache EXCEPT ![Release] = bytes]
                                                       ELSE cache
                      ELSE /\ Fails
                           /\ cache' = [cache EXCEPT ![Release] = None]

\* A directory that is already there is taken as it is.
BugClear ==
    /\ InVendor("clear")
    /\ UNCHANGED cache
    /\ IF Root \in DOMAIN vendor /\ ~cmd.force
       THEN /\ cmd' = [cmd EXCEPT !.stage = "fetch", !.sum = None,
                                  !.at = NextAt(cmd.lock, cmd.at)]
            /\ UNCHANGED vendor
       ELSE /\ GoesOn("copy")
            /\ vendor' = [r \in (DOMAIN vendor) \cup {Root} |->
                             IF r = Root THEN Half ELSE vendor[r]]

\* The old directory is refused, or removed; for an archive an empty one is made.
Clear ==
    /\ InVendor("clear")
    /\ UNCHANGED cache
    /\ IF Root \in DOMAIN vendor /\ ~cmd.force
       THEN /\ Fails
            /\ UNCHANGED vendor
       ELSE /\ GoesOn("copy")
            /\ vendor' = IF Kind = "dir"
                         THEN [r \in (DOMAIN vendor) \ {Root} |-> vendor[r]]
                         ELSE [r \in (DOMAIN vendor) \cup {Root} |->
                                  IF r = Root THEN Half ELSE vendor[r]]

Source == CASE Pinned.source # "registry" -> checkout[Name]
            [] Pinned.source = "registry" /\ Kind = "url" -> cache[Release]
            [] OTHER -> dist[Release]

\* An archive's checksum is looked at only now.
Copy ==
    /\ InVendor("copy")
    /\ UNCHANGED cache
    /\ IF Source # None /\ (Kind = "dir" \/ Fits(Source, cmd.sum))
       THEN /\ vendor' = [r \in (DOMAIN vendor) \cup {Root} |->
                             IF r = Root THEN Source ELSE vendor[r]]
            /\ cmd' = [cmd EXCEPT !.stage = "fetch", !.sum = None,
                                  !.at = NextAt(cmd.lock, cmd.at)]
       ELSE /\ Fails
            /\ UNCHANGED vendor

\* The summary in vendor/README.md is written last.
VendorEnd == /\ cmd.op = "vendor"
             /\ cmd.at > Len(Keys)
             /\ finished' = cmd.lock
             /\ cmd' = Idle
             /\ UNCHANGED <<files, outside, commands, changes>>

-----------------------------------------------------------------------------
\* The process is killed: a file it was writing is as before or empty, a directory
\* it was filling is incomplete, a download it had not verified stays.
Crash ==
    /\ cmd # Idle
    /\ cmd' = Idle
    /\ UNCHANGED <<vendorDir, outside, finished, commands, changes>>
    /\ \/ cmd.op = "manifest" /\ manifest' = EmptyManifest /\ UNCHANGED <<lock, vendor, cache>>
       \/ cmd.op = "lock" /\ lock' = NoLock /\ UNCHANGED <<manifest, vendor, cache>>
       \/ /\ cmd.op = "vendor" /\ cmd.at <= Len(Keys)
          /\ \/ cmd.stage = "clear" /\ (cmd.force \/ Root \notin DOMAIN vendor)
             \/ cmd.stage = "copy"
          /\ vendor' = [r \in (DOMAIN vendor) \cup {Root} |->
                           IF r = Root THEN Half ELSE vendor[r]]
          /\ UNCHANGED <<manifest, lock, cache>>
       \/ /\ cmd.op = "vendor" /\ cmd.stage = "fetch" /\ cmd.at <= Len(Keys)
          /\ Pinned.source = "registry" /\ Kind = "url" /\ index[Release] # None
          /\ cache' = [cache EXCEPT ![Release] = dist[Release]]
          /\ UNCHANGED <<manifest, lock, vendor>>
       \/ UNCHANGED files

Changes == /\ changes < MaxChanges
           /\ changes' = changes + 1
           /\ UNCHANGED <<lock, vendor, vendorDir, cache, cmd, finished, commands>>

\* The manifest is edited by hand, between commands.
EditManifest ==
    /\ Changes
    /\ cmd = Idle
    /\ \/ \E k \in KeySet, entry \in Entries \cup {None} :
             manifest' = [manifest EXCEPT !.deps[k] = entry]
       \/ \E n \in Names : manifest' = [manifest EXCEPT !.over = @ \cup {n}]
    /\ UNCHANGED outside

\* A version is published; its archive is replaced before the index knows;
\* the index is brought up to date; a version is withdrawn.
RegistryChanges ==
    /\ Changes
    /\ \E r \in Names \X Versions :
          \/ /\ index[r] = None
             /\ \E d \in Digests : dist' = [dist EXCEPT ![r] = d] /\ index' = [index EXCEPT ![r] = d]
          \/ /\ index[r] # None
             /\ \E d \in Digests : dist' = [dist EXCEPT ![r] = d]
             /\ UNCHANGED index
          \/ index' = [index EXCEPT ![r] = dist[r]] /\ UNCHANGED dist
          \/ index' = [index EXCEPT ![r] = None] /\ UNCHANGED dist
    /\ UNCHANGED <<manifest, checkout>>

CheckoutChanges == /\ Changes
                   /\ \E n \in Names, d \in Bytes : checkout' = [checkout EXCEPT ![n] = d]
                   /\ UNCHANGED <<manifest, index, dist>>

Next == \/ InitProject \/ Add \/ Remove \/ Update
        \/ WriteManifest \/ WriteLock \/ ResolveFails
        \/ VendorStart \/ Fetch \/ Clear \/ Copy \/ VendorEnd
        \/ Crash \/ EditManifest \/ RegistryChanges \/ CheckoutChanges

Spec == Init /\ [][Next]_vars

-----------------------------------------------------------------------------
(* What "import pkg.<name>" finds, from the lockfile as it is on disk. *)

\* The entries of the package that have a root.
RootsOf(n) == {i \in DOMAIN Keys : /\ Keys[i][2] = n
                                   /\ lock.deps[Keys[i]] # None
                                   /\ lock.deps[Keys[i]].source = "path" \/ vendorDir}

Vendored(i) == LET root == RootOf(Keys[i][2], lock.deps[Keys[i]])
               IN  IF vendorDir /\ root \in DOMAIN vendor THEN vendor[root] ELSE None

\* A path entry stands for its checkout even when it has been vendored.
BugContentOf(i) == IF lock.deps[Keys[i]].source = "path" THEN checkout[Keys[i][2]]
                   ELSE Vendored(i)

\* The content its root stands for; that of a path entry need not be vendored.
ContentOf(i) == IF lock.deps[Keys[i]].source = "path" /\ Vendored(i) = None
                THEN checkout[Keys[i][2]]
                ELSE Vendored(i)

\* path before registry before git, and the earlier entry first.
Rank(i) == i + Len(Keys) * CASE lock.deps[Keys[i]].source = "path" -> 0
                             [] lock.deps[Keys[i]].source = "registry" -> 1
                             [] lock.deps[Keys[i]].source = "git" -> 2

\* Without any root the local modules are searched.
Imported(n) ==
    LET there == {i \in RootsOf(n) : ContentOf(i) # None}
    IN IF RootsOf(n) = {} THEN "local"
       ELSE IF there = {} THEN None
       ELSE ContentOf(CHOOSE i \in there : \A j \in there : Rank(i) <= Rank(j))

-----------------------------------------------------------------------------
\* When vendor has ended without an error and nothing has been locked since, every
\* locked package is there, and complete, however many runs failed or were killed
\* before.
VendoredIsWhole ==
    finished # NoLock /\ finished = lock =>
        \A k \in KeySet : lock.deps[k] # None =>
            /\ RootOf(k[2], lock.deps[k]) \in DOMAIN vendor
            /\ vendor[RootOf(k[2], lock.deps[k])] \in Digests

\* From then on, until the next lock or vendor, the project is self-contained: what
\* its imports find does not change with the registry or the checkouts.
ImportsStay ==
    [][finished # NoLock /\ finished = lock /\ finished' = finished /\ lock' = lock
           => \A n \in Names : Imported(n)' = Imported(n)]_vars

\* A lockfile that is written names exactly what the manifest asks for, and each
\* version from the registry is allowed by what is written there and the newest such.
NewestPinned ==
    [][lock' # lock /\ lock'.hash # None =>
         /\ lock'.hash = manifest
         /\ \A k \in KeySet :
              /\ (lock'.deps[k] # None) <=> (manifest.deps[k] # None)
              /\ lock'.deps[k] # None /\ lock'.deps[k].source = "registry" =>
                   LET want == Tokens(manifest.deps[k].want)
                       newest == lock'.deps[k].version
                   IN /\ Allowed(want, newest)
                      /\ \A v \in Listed(k[2]) : Allowed(want, v) => ~Older(newest, v)]_vars

=============================================================================
