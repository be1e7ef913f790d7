----------------------------- MODULE Migration -----------------------------
(***************************************************************************)
(* Startup of a replica against the shared database (store.New): create    *)
(* the database if it is missing, then apply the embedded migrations in    *)
(* order, each with its entry in schema_migrations in one transaction.     *)
(* Several replicas start at a time and no lock is taken: what keeps them  *)
(* apart is that PostgreSQL makes a statement wait for the transaction     *)
(* that is creating the same table, and refuses a second key.              *)
(*                                                                         *)
(* Every error of store.New is fatal (main.go:175-178), so that an error   *)
(* and the death of a replica leave the same state: its transaction is     *)
(* rolled back and it is down, until its supervisor starts it again.       *)
(***************************************************************************)
EXTENDS Integers

CONSTANTS
    Replicas,
    Orders,       \* orders whose rows the release before 002 writes
    Secrets,      \* usable values of PAYSERVER_DEFAULT_TENANT_SECRET
    Unset,        \* no such value: current_setting raises an error
    Quoted,       \* a bootstrap value with a single quote, which is refused
    Bootstrap,    \* Bootstrap[r]: the value in the environment of r
    None,
    MaxFaults     \* bound on deaths, errors and lost answers

ASSUME MigrationAssumption ==
    /\ Bootstrap \in [Replicas -> Secrets \cup {Unset, Quoted}]
    /\ Secrets \cap {Unset, Quoted, None} = {} /\ None \notin {Unset, Quoted}
    /\ MaxFaults \in Nat

VARIABLES
    database,     \* the database exists
    schema,       \* migrations whose statements are committed
    recorded,     \* schema_migrations
    tenant,       \* the bootstrap value that the tenant "default" was created from
    rows,         \* rows[o]: the payment of o, "orphan" without a tenant
    replica,      \* replica[r]: where the startup of r is, its migration, and the orders
                  \* whose rows its transaction has given to the tenant "default"
    faults        \* faults so far

vars == <<database, schema, recorded, tenant, rows, replica, faults>>

Migrations == {1, 2}       \* 001_payments.sql, 002_tenants.sql
Places == {"down", "connect", "admin", "create", "open", "check", "apply", "update", "constrain",
           "record", "commit", "serving"}

TypeOK ==
    /\ database \in BOOLEAN
    /\ schema \subseteq Migrations /\ recorded \subseteq Migrations
    /\ tenant \in Secrets \cup {None}
    /\ rows \in [Orders -> {"absent", "orphan", "owned"}]
    /\ replica \in [Replicas -> [at : Places, migration : 1..3, updated : SUBSET Orders]]
    /\ faults \in 0..MaxFaults

Down == [at |-> "down", migration |-> 1, updated |-> {}]

\* No database yet, an empty one, or the one of the release before 002.
Init ==
    /\ database \in BOOLEAN
    /\ schema \in {{}, {1}} /\ (schema # {} => database)
    /\ recorded = schema
    /\ tenant = None
    /\ rows = [o \in Orders |-> "absent"]
    /\ replica = [r \in Replicas |-> Down]
    /\ faults = 0

-----------------------------------------------------------------------------
Fault == faults < MaxFaults /\ faults' = faults + 1

From(r, at) == replica[r].at = at
GoTo(r, at) == replica' = [replica EXCEPT ![r].at = at]
Fatal(r) == replica' = [replica EXCEPT ![r] = Down]
NextMigration(r) ==
    replica' = [replica EXCEPT ![r] = [at |-> "check", migration |-> replica[r].migration + 1,
                                       updated |-> {}]]

\* r has the tables of migration m, created or altered, until its transaction ends.
Holds(r, m) ==
    /\ replica[r].at \in {"update", "constrain", "record", "commit"}
    /\ replica[r].migration = m /\ m \notin schema
Locked(m) == \E r \in Replicas : Holds(r, m)

Data == <<schema, recorded, tenant, rows>>

\* The supervisor starts the process.
Boot(r) ==
    /\ From(r, "down") /\ GoTo(r, "connect")
    /\ UNCHANGED <<database, Data, faults>>

(***************************************************************************)
(* ensureDatabase: any failure to connect leads to the maintenance         *)
(* database.  Two replicas may both find the database missing.             *)
(***************************************************************************)
Connect(r) ==
    /\ From(r, "connect")
    /\ \/ database /\ GoTo(r, "open") /\ UNCHANGED faults
       \/ ~database /\ GoTo(r, "admin") /\ UNCHANGED faults
       \/ database /\ GoTo(r, "admin") /\ Fault
    /\ UNCHANGED <<database, Data>>

LookForDatabase(r) ==
    /\ From(r, "admin")
    /\ GoTo(r, IF database THEN "open" ELSE "create")
    /\ UNCHANGED <<database, Data, faults>>

CreateDatabase(r) ==
    /\ From(r, "create")
    /\ \/ ~database /\ GoTo(r, "open")
       \/ database /\ Fatal(r)
    /\ database' = TRUE
    /\ UNCHANGED <<Data, faults>>

(***************************************************************************)
(* migrate.  The pool is opened, schema_migrations created if it is        *)
(* missing, and for each migration in turn:                                *)
(***************************************************************************)
OpenPool(r) ==
    /\ From(r, "open") /\ GoTo(r, "check")
    /\ UNCHANGED <<database, Data, faults>>

\* The loop takes in one migration too many.
Check_OffByOne(r) ==
    /\ From(r, "check")
    /\ \/ replica[r].migration \in recorded \cup {3} /\ NextMigration(r)
       \/ replica[r].migration \in Migrations \ recorded /\ GoTo(r, "apply")
    /\ UNCHANGED <<database, Data, faults>>

\* The SELECT runs outside the transaction of the migration.
Check(r) ==
    /\ From(r, "check")
    /\ \/ replica[r].migration \in recorded /\ NextMigration(r)
       \/ replica[r].migration \in Migrations \ recorded /\ GoTo(r, "apply")
       \/ replica[r].migration \notin Migrations /\ GoTo(r, "serving")
    /\ UNCHANGED <<database, Data, faults>>

\* 001 creates what is missing; 002 needs its settings for the tenant "default".
Succeeds(r, m) == m = 2 => Bootstrap[r] \in Secrets
\* In the hands of a replica that had to wait for the one that has just committed it.
MayFail(r, m) == ~Succeeds(r, m) \/ m \in schema
Then(m) == IF m = 2 THEN "update" ELSE "record"

\* A migration that cannot find its settings is left for another day.
Apply_SkipsUnset(r) ==
    LET m == replica[r].migration
    IN /\ From(r, "apply") /\ ~Locked(m)
       /\ \/ Succeeds(r, m) /\ GoTo(r, Then(m))
          \/ MayFail(r, m) /\ IF m = 2 /\ Bootstrap[r] = Unset THEN NextMigration(r) ELSE Fatal(r)
       /\ UNCHANGED <<database, Data, faults>>

\* BEGIN, the SET LOCALs of 002, and the file: 001 to its end, 002 up to ADD COLUMN, which
\* takes the table of payments.  One wait, for whoever has the same tables.
Apply(r) ==
    LET m == replica[r].migration
    IN /\ From(r, "apply") /\ ~Locked(m)
       /\ \/ Succeeds(r, m) /\ GoTo(r, Then(m))
          \/ MayFail(r, m) /\ Fatal(r)
       /\ UNCHANGED <<database, Data, faults>>

\* 002 gives the rows without a tenant that it sees to "default".
Update(r) ==
    /\ From(r, "update")
    /\ replica' = [replica EXCEPT ![r] = [at |-> "constrain", migration |-> 2,
                                          updated |-> {o \in Orders : rows[o] = "orphan"}]]
    /\ UNCHANGED <<database, Data, faults>>

\* The column stays without its NOT NULL.
TakesOrphans_Always(migrations) == TRUE

\* The table of payments takes a row without a tenant.
TakesOrphans(migrations) == 2 \notin migrations

\* The file ends with a COMMIT, and that is the transaction of the runner.
Constrain_NestedCommit(r) ==
    /\ From(r, "constrain")
    /\ IF 2 \in schema THEN Fatal(r) ELSE GoTo(r, "record")
    /\ schema' = schema \cup {2}
    /\ UNCHANGED <<database, recorded, tenant, rows, faults>>

\* SET NOT NULL looks at every row once more, and there is one foreign key of that name.
Constrain(r) ==
    /\ From(r, "constrain")
    /\ \/ /\ 2 \notin schema
          /\ \A o \in Orders \ replica[r].updated :
               rows[o] = "orphan" => TakesOrphans(schema \cup {2})
          /\ GoTo(r, "record")
       \/ /\ \/ 2 \in schema
             \/ \E o \in Orders \ replica[r].updated :
                   rows[o] = "orphan" /\ ~TakesOrphans(schema \cup {2})
          /\ Fatal(r)
    /\ UNCHANGED <<database, Data, faults>>

\* The key of schema_migrations refuses the second of two that both found nothing.
Record(r) ==
    /\ From(r, "record")
    /\ \/ replica[r].migration \notin recorded /\ GoTo(r, "commit")
       \/ replica[r].migration \in recorded /\ Fatal(r)
    /\ UNCHANGED <<database, Data, faults>>

\* What the transaction of r wrote.
Committed(r) ==
    LET m == replica[r].migration
    IN /\ schema' = schema \cup {m} /\ recorded' = recorded \cup {m}
       /\ IF m = 2
          THEN /\ tenant' = Bootstrap[r]
               /\ rows' = [o \in Orders |-> IF o \in replica[r].updated THEN "owned" ELSE rows[o]]
          ELSE UNCHANGED <<tenant, rows>>

\* The answer to COMMIT may be lost: an error for the replica, committed all the same.
Commit(r) ==
    /\ From(r, "commit") /\ Committed(r)
    /\ \/ NextMigration(r) /\ UNCHANGED faults
       \/ Fatal(r) /\ Fault
    /\ UNCHANGED database

\* r dies, or a statement of its startup fails: its transaction is rolled back.
Die(r) ==
    /\ ~From(r, "down") /\ Fatal(r) /\ Fault
    /\ UNCHANGED <<database, Data>>

\* The release before 002 goes on writing rows without a tenant, while it may: it waits for
\* whoever alters the table.
OldRelease(o) ==
    /\ rows[o] = "absent" /\ 1 \in schema /\ TakesOrphans(schema) /\ ~Locked(2)
    /\ rows' = [rows EXCEPT ![o] = "orphan"]
    /\ UNCHANGED <<database, schema, recorded, tenant, replica, faults>>

Startup(r) ==
    \/ Boot(r) \/ Connect(r) \/ LookForDatabase(r) \/ CreateDatabase(r) \/ OpenPool(r)
    \/ Check(r) \/ Apply(r) \/ Update(r) \/ Constrain(r) \/ Record(r) \/ Commit(r)

Next ==
    \/ \E r \in Replicas : Startup(r) \/ Die(r)
    \/ \E o \in Orders : OldRelease(o)

(***************************************************************************)
(* A process runs and its supervisor starts it again: both go on.  Nothing *)
(* is asked of the faults, which are bounded.                              *)
(***************************************************************************)
Spec == Init /\ [][Next]_vars /\ \A r \in Replicas : WF_vars(Startup(r))

-----------------------------------------------------------------------------
\* "Run migration + record in a single transaction to prevent partial application"
\* (store.go:100): whatever dies, schema_migrations lists exactly what is in the schema.
AtomicMigrations == recorded = schema

\* A replica that serves requests has the whole schema under it, although it never waited
\* for the replicas that migrate at the same time.
ServesMigrated ==
    \A r \in Replicas : From(r, "serving") => schema = Migrations

\* "every existing row stays accounted for under the default tenant" (002_tenants.sql:5):
\* after 002 there is such a tenant, from one usable bootstrap, and no row is without it,
\* although 002 updates only the rows that it sees: none of the old release comes between
\* the UPDATE and the NOT NULL, nor after it.
RowsAccounted ==
    2 \in schema =>
        /\ tenant \in Secrets
        /\ \A o \in Orders : rows[o] # "orphan"

\* The races of a startup are lost at most for a time: if one replica has a usable
\* bootstrap, every replica serves in the end, even those whose own bootstrap fails 002.
EveryoneServes ==
    \A r \in Replicas :
        (\E s \in Replicas : Bootstrap[s] \in Secrets) => <>[]From(r, "serving")

=============================================================================
