-------------------------------- MODULE Shards --------------------------------
(***************************************************************************)
(* Opening the SQLite shards (dbFor and Close of                           *)
(* src/internal/metadata/sqlite.go, runMigrations of migrations.go) by     *)
(* requests at the same time, with failures and restarts at every step.    *)
(* The mutex of the store guards its map of handles only: the file is      *)
(* opened and migrated outside it.                                         *)
(***************************************************************************)
EXTENDS Integers, FiniteSets, SequencesExt

CONSTANTS
  Openers,          \* goroutines that call dbFor
  ShardFiles,       \* safe names of tenants
  Migrations,       \* how many migrations the program has, numbered from 1
  MaxShardFaults    \* bound on failed opens and restarts

(* "none" stands for no handle. *)
ASSUME ShardsAssumption ==
  /\ Migrations \in Nat \ {0} /\ MaxShardFaults \in Nat
  /\ "none" \notin Openers

VARIABLES
  dbs,          \* the handle of each shard, by the opener that opened it, or "none"
  schema,       \* the versions recorded in each file, in the order they were
  opening,      \* where each opener is
  open,         \* the <<shard, opener>> handles that are open
  shardFaults   \* failed opens and restarts so far

shardVars == <<dbs, schema, opening, open, shardFaults>>

NotOpening == [pc |-> "idle", shard |-> "none", applied |-> {}, handle |-> "none"]

ShardsInit ==
  /\ dbs = [s \in ShardFiles |-> "none"]
  /\ schema = [s \in ShardFiles |-> <<>>]
  /\ opening = [o \in Openers |-> NotOpening]
  /\ open = {}
  /\ shardFaults = 0

Versions == 1 .. Migrations
Shard(o) == opening[o].shard

-----------------------------------------------------------------------------
(* dbFor begins: a handle in the map is used as it is. *)
LookUp(o, s) ==
  /\ opening[o].pc = "idle"
  /\ opening' = [opening EXCEPT ![o] =
       [NotOpening EXCEPT !.pc = IF dbs[s] = "none" THEN "list" ELSE "using",
                          !.shard = s, !.handle = dbs[s]]]
  /\ open' = IF dbs[s] = "none" THEN open \cup {<<s, o>>} ELSE open
  /\ UNCHANGED <<dbs, schema, shardFaults>>

(* appliedMigrations. *)
ListApplied(o) ==
  /\ opening[o].pc = "list"
  /\ opening' = [opening EXCEPT ![o].pc = "migrate", ![o].applied = ToSet(schema[Shard(o)])]
  /\ UNCHANGED <<dbs, schema, open, shardFaults>>

Missing(o) == Versions \ opening[o].applied
FirstMissing(o) == CHOOSE v \in Missing(o) : \A w \in Missing(o) : v <= w

CloseAndFail(o) ==
  /\ open' = open \ {<<Shard(o), o>>}
  /\ opening' = [opening EXCEPT ![o] = NotOpening]
  /\ UNCHANGED <<dbs, schema>>

(* applyMigration: its statements and its row are one transaction. *)
Migrate(o) ==
  /\ opening[o].pc = "migrate" /\ Missing(o) # {}
  /\ schema' = [schema EXCEPT ![Shard(o)] = Append(@, FirstMissing(o))]
  /\ opening' = [opening EXCEPT ![o].applied = @ \cup {FirstMissing(o)}]
  /\ UNCHANGED <<dbs, open, shardFaults>>

(* The primary key of schema_migrations refuses a version recorded since   *)
(* the list was read.                                                      *)
ApplyMigration(o) ==
  /\ opening[o].pc = "migrate" /\ Missing(o) # {}
  /\ FirstMissing(o) \notin ToSet(schema[Shard(o)])
  /\ Migrate(o)

MigrationRefused(o) ==
  /\ opening[o].pc = "migrate" /\ Missing(o) # {}
  /\ FirstMissing(o) \in ToSet(schema[Shard(o)])
  /\ CloseAndFail(o)
  /\ UNCHANGED shardFaults

RegisterWithoutCheck(o) ==
  /\ opening[o].pc = "migrate" /\ Missing(o) = {}
  /\ dbs' = [dbs EXCEPT ![Shard(o)] = o]
  /\ opening' = [opening EXCEPT ![o].pc = "using", ![o].handle = o]
  /\ UNCHANGED <<schema, open, shardFaults>>

(* The map is looked up again under the mutex: a handle that another       *)
(* request has registered meanwhile is used and this one closed.           *)
Register(o) ==
  LET existing == dbs[Shard(o)]
  IN  /\ opening[o].pc = "migrate" /\ Missing(o) = {}
      /\ dbs' = [dbs EXCEPT ![Shard(o)] = IF existing = "none" THEN o ELSE existing]
      /\ open' = IF existing = "none" THEN open ELSE open \ {<<Shard(o), o>>}
      /\ opening' = [opening EXCEPT ![o].pc = "using", ![o].handle = dbs'[Shard(o)]]
      /\ UNCHANGED <<schema, shardFaults>>

(* The request is done: the handle stays in the map. *)
Done(o) ==
  /\ opening[o].pc = "using"
  /\ opening' = [opening EXCEPT ![o] = NotOpening]
  /\ UNCHANGED <<dbs, schema, open, shardFaults>>

(* A statement fails, for one because the file is locked. *)
OpenFails(o) ==
  /\ shardFaults < MaxShardFaults /\ shardFaults' = shardFaults + 1
  /\ opening[o].pc \in {"list", "migrate"}
  /\ CloseAndFail(o)

(* The process crashes, or closes its handles and ends, and starts again. *)
RestartStore ==
  /\ shardFaults < MaxShardFaults /\ shardFaults' = shardFaults + 1
  /\ dbs' = [s \in ShardFiles |-> "none"]
  /\ opening' = [o \in Openers |-> NotOpening]
  /\ open' = {}
  /\ UNCHANGED schema

ShardsNext ==
  \/ \E o \in Openers :
       \/ \E s \in ShardFiles : LookUp(o, s)
       \/ ListApplied(o) \/ ApplyMigration(o) \/ MigrationRefused(o)
       \/ Register(o) \/ Done(o) \/ OpenFails(o)
  \/ RestartStore

ShardsSpec == ShardsInit /\ [][ShardsNext]_shardVars

-----------------------------------------------------------------------------
(* Properties. *)

\* All requests on a shard share one handle, so that SetMaxOpenConns(1) puts
\* their statements in one order; a handle that is neither in use by dbFor nor
\* in the map of the store is closed.
OneHandlePerShard ==
  /\ \A o \in Openers : opening[o].pc = "using" => opening[o].handle = dbs[Shard(o)]
  /\ \A h \in open : dbs[h[1]] = h[2] \/ (opening[h[2]].pc \in {"list", "migrate"} /\ Shard(h[2]) = h[1])
  /\ \A s \in ShardFiles : dbs[s] # "none" => <<s, dbs[s]>> \in open

\* A shard that requests use has every migration, applied once and in order,
\* whoever else was opening it and wherever an earlier opening stopped.
MigratedInOrder ==
  \A s \in ShardFiles :
    /\ schema[s] = [i \in 1 .. Len(schema[s]) |-> i]
    /\ dbs[s] # "none" => Len(schema[s]) = Migrations

\* Whoever opens a shard, and wherever an opening stopped, requests find one
\* handle to one complete schema.
ShardsAreSound == OneHandlePerShard /\ MigratedInOrder

=============================================================================
