-------------------------------- MODULE Tenants --------------------------------
(***************************************************************************)
(* Where the data of a tenant goes.  The metadata store names a shard with *)
(* SafeTenantID (src/internal/metadata/shards.go), the block store names a *)
(* directory with sanitizePathPart (src/internal/backend/fs.go), and a     *)
(* sweep knows tenants by the names that ListTenants reads from the files  *)
(* of the shards.  Calls are atomic here: ObjectService is about their     *)
(* interleavings, with one tenant.                                         *)
(***************************************************************************)
EXTENDS Integers, SequencesExt

CONSTANTS
  TenantNames,   \* what requests give as their tenant: sequences of letters
  SafeLetters,   \* the letters that names keep; "_" is one
  DefaultName,   \* the name for a request without tenant
  Digest,        \* the names that SafeTenantID gives to the other ones
  Hashes         \* hashes of blocks; an object is one block

(* A digest is made of safe letters.  Nothing keeps another tenant from    *)
(* having that name, or the same digest.                                   *)
ASSUME TenantsAssumption ==
  /\ "_" \in SafeLetters
  /\ \A n \in TenantNames : n \in Seq(ToSet(n))
  /\ DefaultName \in Seq(SafeLetters) \ {<<>>}
  /\ \A n \in TenantNames : Digest[n] \in Seq(SafeLetters) \ {<<>>}

Underscored(n) == IF n = <<>> THEN DefaultName
                  ELSE [i \in DOMAIN n |-> IF n[i] \in SafeLetters THEN n[i] ELSE "_"]

SafeTenantID(n) == IF n = <<>> THEN DefaultName
                   ELSE IF ToSet(n) \subseteq SafeLetters THEN n ELSE Digest[n]

sanitizePathPart(n) == IF n = <<>> THEN DefaultName
                       ELSE [i \in DOMAIN n |-> IF n[i] \in SafeLetters THEN n[i] ELSE "_"]

VARIABLES
  shards,   \* for each shard file its rows of blocks and its object
  files,    \* the <<directory, hash>> pairs on disk
  put       \* what each tenant stored last, or "none" (history)

tenantVars == <<shards, files, put>>

EmptyShard == [rows |-> {}, object |-> "none"]

TenantsInit ==
  /\ shards = [s \in {} |-> EmptyShard]
  /\ files = {}
  /\ put = [n \in TenantNames |-> "none"]

(* dbFor makes the file of a shard when it is first asked for.             *)
Opened(n) == IF SafeTenantID(n) \in DOMAIN shards THEN shards[SafeTenantID(n)] ELSE EmptyShard

WriteShard(n, shard) ==
  shards' = [s \in DOMAIN shards \cup {SafeTenantID(n)} |->
               IF s = SafeTenantID(n) THEN shard ELSE shards[s]]

(* No tenant and the default tenant are one.                               *)
SameTenant(m, n) == m = n \/ {m, n} = {<<>>, DefaultName}

Remember(n, h) == put' = [m \in TenantNames |-> IF SameTenant(m, n) THEN h ELSE put[m]]

TenantPuts(n, h) ==
  /\ files' = files \cup {<<sanitizePathPart(n), h>>}
  /\ WriteShard(n, [rows |-> Opened(n).rows \cup {h}, object |-> h])
  /\ Remember(n, h)

TenantDeletes(n) ==
  /\ WriteShard(n, [Opened(n) EXCEPT !.object = "none"])
  /\ Remember(n, "none")
  /\ UNCHANGED files

(* What ListTenants reads from the names of the files.                     *)
ListTenants == DOMAIN shards

(* The sweep of one listed tenant: rows that no object has any more.       *)
Orphans(t) == Opened(t).rows \ {Opened(t).object}

SweepTenant(t) ==
  /\ t \in ListTenants
  /\ files' = files \ ({sanitizePathPart(t)} \X Orphans(t))
  /\ WriteShard(t, [Opened(t) EXCEPT !.rows = @ \ Orphans(t)])
  /\ UNCHANGED put

TenantsNext ==
  \/ \E n \in TenantNames : TenantDeletes(n) \/ \E h \in Hashes : TenantPuts(n, h)
  \/ \E t \in ListTenants : SweepTenant(t)

TenantsSpec == TenantsInit /\ [][TenantsNext]_tenantVars

-----------------------------------------------------------------------------
(* Properties. *)

\* The tenants whose shard goes by a digest.
Replaced == {n \in TenantNames : ~(ToSet(n) \subseteq SafeLetters)}

\* m's shard goes by a digest that is n's name or digest too.
MistakenFor(m, n) ==
  /\ m \in Replaced /\ m # n
  /\ \/ n \in Replaced /\ Digest[m] = Digest[n]
     \/ n \notin Replaced /\ Digest[m] = IF n = <<>> THEN DefaultName ELSE n

\* The tenants that no digest confuses with another one.
Distinguished ==
  {n \in TenantNames : \A m \in TenantNames : ~MistakenFor(m, n) /\ ~MistakenFor(n, m)}

\* Unless a digest is another's name or digest, the object of a tenant is what
\* that tenant stored last, whatever tenants of similar names store, and
\* however a sweep, which knows the tenant by another name, went over its
\* shard.  (SafeTenantID passes a safe name through as it is, even one that
\* looks like a digest.)
TenantsAreSeparate ==
  \A n \in Distinguished : Opened(n).object = put[n]

\* Those of them whose directory nobody else has and whose name needs no
\* replacement.  (For another the sweep looks in the wrong directory.)
Plain == {n \in Distinguished :
            /\ sanitizePathPart(n) = SafeTenantID(n)
            /\ \A m \in TenantNames : sanitizePathPart(m) = sanitizePathPart(n) => SameTenant(m, n)}

\* The object of such a tenant has its block on disk, and each of its blocks
\* on disk has the row by which a sweep will find it.
PlainTenantsKeepBlocks ==
  \A n \in Plain :
    /\ Opened(n).object # "none" => <<sanitizePathPart(n), Opened(n).object>> \in files
    /\ \A h \in Hashes : <<sanitizePathPart(n), h>> \in files <=> h \in Opened(n).rows

\* Neither tenants nor the sweeps of them take from a tenant what is its own:
\* no object where digests tell tenants apart, and no block from a tenant whose
\* name is also that of a directory of its own.
TenantsKeepTheirData == TenantsAreSeparate /\ PlainTenantsKeepBlocks

=============================================================================
