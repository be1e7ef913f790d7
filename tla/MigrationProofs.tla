-------------------------- MODULE MigrationProofs --------------------------
(***************************************************************************)
(* The safety of a startup, for every number of replicas, every bootstrap  *)
(* and every number of faults.                                             *)
(***************************************************************************)
EXTENDS Migration, TLAPS

\* What the program counter of r says of the schema and of its own bootstrap.
PlaceOK(r) ==
    /\ replica[r].at \in {"down", "connect", "admin", "create", "open"}
           => replica[r].migration = 1
    /\ replica[r].at \in {"apply", "record", "commit"} => replica[r].migration \in Migrations
    /\ replica[r].at \in {"update", "constrain"} => replica[r].migration = 2
    /\ \A m \in Migrations : m < replica[r].migration => m \in schema
    /\ (replica[r].at \in {"update", "constrain", "record", "commit"} /\ replica[r].migration = 2)
           => Bootstrap[r] \in Secrets
    /\ replica[r].at = "serving" => replica[r].migration = 3

\* Of the replica that is applying 002, no row escapes: there is none without a
\* tenant that its UPDATE has not seen.
SeesAll(r) ==
    /\ replica[r].at \in {"constrain", "record", "commit"}
    /\ replica[r].migration = 2 /\ 2 \notin schema
    => \A o \in Orders : rows[o] = "orphan" => o \in replica[r].updated

IInv ==
    /\ TypeOK /\ AtomicMigrations /\ RowsAccounted
    /\ \A r \in Replicas : PlaceOK(r) /\ SeesAll(r)

LEMMA InitIInv == Init => IInv
<1> SUFFICES ASSUME Init PROVE IInv
  OBVIOUS
<1>1. [r \in Replicas |-> Down] \in [Replicas -> [at : Places, migration : 1..3, updated : SUBSET Orders]]
  BY DEF Down, Places
<1>2. TypeOK
  BY <1>1, MigrationAssumption DEF Init, TypeOK, Migrations
<1>3. AtomicMigrations /\ RowsAccounted
  BY DEF Init, AtomicMigrations, RowsAccounted
<1>4. ASSUME NEW r \in Replicas
      PROVE  PlaceOK(r) /\ SeesAll(r)
  <2>1. replica[r].at = "down" /\ replica[r].migration = 1
    BY DEF Init, Down
  <2> QED BY <2>1 DEF PlaceOK, SeesAll, Migrations
<1> QED BY <1>2, <1>3, <1>4 DEF IInv

\* A step that only moves r, to a place that is right for it.
LEMMA Moves ==
    ASSUME IInv, NEW r \in Replicas, NEW STATE p, p \in [at : Places, migration : 1..3, updated : SUBSET Orders],
           replica' = [replica EXCEPT ![r] = p],
           UNCHANGED <<schema, recorded, tenant, rows>>,
           database' \in BOOLEAN, faults' \in 0..MaxFaults,
           p.at \in {"down", "connect", "admin", "create", "open"} => p.migration = 1,
           p.at \in {"apply", "record", "commit"} => p.migration \in Migrations,
           p.at \in {"update", "constrain"} => p.migration = 2,
           \A m \in Migrations : m < p.migration => m \in schema,
           (p.at \in {"update", "constrain", "record", "commit"} /\ p.migration = 2)
               => Bootstrap[r] \in Secrets,
           p.at = "serving" => p.migration = 3,
           (p.at \in {"constrain", "record", "commit"} /\ p.migration = 2 /\ 2 \notin schema)
               => \A o \in Orders : rows[o] = "orphan" => o \in p.updated
    PROVE  IInv'
<1>1. replica \in [Replicas -> [at : Places, migration : 1..3, updated : SUBSET Orders]]
  BY DEF IInv, TypeOK
<1>2. replica' \in [Replicas -> [at : Places, migration : 1..3, updated : SUBSET Orders]]
  BY <1>1
<1>3. TypeOK'
  BY <1>2 DEF IInv, TypeOK
<1>4. AtomicMigrations' /\ RowsAccounted'
  BY DEF IInv, AtomicMigrations, RowsAccounted
<1>5. ASSUME NEW s \in Replicas
      PROVE  PlaceOK(s)' /\ SeesAll(s)'
  <2>1. CASE s = r
    <3>1. replica'[s] = p
      BY <1>1, <2>1
    <3> QED BY <3>1, <2>1 DEF PlaceOK, SeesAll
  <2>2. CASE s # r
    <3>1. replica'[s] = replica[s] /\ PlaceOK(s) /\ SeesAll(s)
      BY <1>1, <2>2 DEF IInv
    <3> QED BY <3>1 DEF PlaceOK, SeesAll
  <2> QED BY <2>1, <2>2
<1> QED BY <1>3, <1>4, <1>5 DEF IInv

\* The steps of a startup that write nothing but the database itself.
LEMMA StartupMoves ==
    ASSUME IInv, NEW r \in Replicas,
           \/ Boot(r) \/ Connect(r) \/ LookForDatabase(r) \/ CreateDatabase(r) \/ OpenPool(r)
           \/ Check(r) \/ Apply(r) \/ Update(r) \/ Constrain(r) \/ Record(r) \/ Die(r)
    PROVE  IInv'
<1> DEFINE m == replica[r].migration
<1>1. /\ replica \in [Replicas -> [at : Places, migration : 1..3, updated : SUBSET Orders]]
      /\ replica[r] \in [at : Places, migration : 1..3, updated : SUBSET Orders] /\ m \in 1..3
      /\ replica[r].updated \subseteq Orders /\ PlaceOK(r) /\ SeesAll(r)
      /\ database \in BOOLEAN /\ faults \in 0..MaxFaults /\ MaxFaults \in Nat
      /\ recorded = schema
  BY MigrationAssumption DEF IInv, TypeOK, AtomicMigrations
<1>2. faults' \in 0..MaxFaults /\ database' \in BOOLEAN
  <2>1. UNCHANGED faults \/ Fault
    BY DEF Boot, Connect, LookForDatabase, CreateDatabase, OpenPool, Check, Apply, Update,
           Constrain, Record, Die
  <2>2. UNCHANGED database \/ database' = TRUE
    BY DEF Boot, Connect, LookForDatabase, CreateDatabase, OpenPool, Check, Apply, Update,
           Constrain, Record, Die
  <2>3. faults' \in 0..MaxFaults
    BY <1>1, <2>1 DEF Fault
  <2> QED BY <1>1, <2>2, <2>3
<1>3. UNCHANGED <<schema, recorded, tenant, rows>>
  BY DEF Boot, Connect, LookForDatabase, CreateDatabase, OpenPool, Check, Apply, Update,
         Constrain, Record, Die, Data
<1>4. ASSUME Fatal(r)
      PROVE  IInv'
  <2>1. Down \in [at : Places, migration : 1..3, updated : SUBSET Orders]
    BY DEF Down, Places
  <2>2. Down.at = "down" /\ Down.migration = 1
    BY DEF Down
  <2>3. \A k \in Migrations : ~(k < Down.migration)
    BY <2>2 DEF Migrations
  <2>4. replica' = [replica EXCEPT ![r] = Down]
    BY <1>4 DEF Fatal
  <2> QED BY <2>1, <2>2, <2>3, <2>4, <1>2, <1>3, Moves
<1>5. ASSUME NEW at \in Places, GoTo(r, at),
             at \in {"connect", "admin", "create", "open"} => m = 1,
             at \in {"apply", "record", "commit"} => m \in Migrations,
             at = "update" => m = 2,
             (at \in {"update", "record", "commit"} /\ m = 2) => Bootstrap[r] \in Secrets,
             (at \in {"record", "commit"} /\ m = 2)
                 => replica[r].at \in {"constrain", "record"},
             at = "serving" => m = 3,
             at \notin {"down", "constrain"}
      PROVE  IInv'
  <2> DEFINE p == [at |-> at, migration |-> m, updated |-> replica[r].updated]
  <2>1. p \in [at : Places, migration : 1..3, updated : SUBSET Orders] /\ p.at = at /\ p.migration = m
    BY <1>1
  <2>2. replica' = [replica EXCEPT ![r] = p]
    <3>1. p = [replica[r] EXCEPT !.at = at]
      BY <1>1
    <3>2. replica' = [replica EXCEPT ![r] = [replica[r] EXCEPT !.at = at]]
      BY <1>5 DEF GoTo
    <3> HIDE DEF p
    <3> QED BY <3>1, <3>2
  <2>3. \A k \in Migrations : k < p.migration => k \in schema
    BY <1>1, <2>1 DEF PlaceOK
  <2>4. (at \in {"record", "commit"} /\ m = 2 /\ 2 \notin schema)
           => \A o \in Orders : rows[o] = "orphan" => o \in replica[r].updated
    BY <1>1, <1>5 DEF SeesAll
  <2>5. p.updated = replica[r].updated
    OBVIOUS
  <2> HIDE DEF p
  <2> QED BY <2>1, <2>2, <2>3, <2>4, <2>5, <1>2, <1>3, <1>5, Moves
<1>6. ASSUME NextMigration(r), m \in recorded, From(r, "check")
      PROVE  IInv'
  <2> DEFINE p == [at |-> "check", migration |-> m + 1, updated |-> {}]
  <2>1. m \in Migrations
    BY <1>1, <1>6 DEF IInv, TypeOK
  <2>2. p \in [at : Places, migration : 1..3, updated : SUBSET Orders] /\ p.at = "check" /\ p.migration = m + 1
    BY <2>1 DEF Migrations, Places
  <2>3. \A k \in Migrations : k < p.migration => k \in schema
    BY <1>1, <1>6, <2>1, <2>2 DEF PlaceOK, Migrations
  <2>4. replica' = [replica EXCEPT ![r] = p]
    BY <1>6 DEF NextMigration
  <2> HIDE DEF p
  <2> QED BY <2>2, <2>3, <2>4, <1>2, <1>3, Moves
<1>7. CASE Boot(r) \/ Connect(r) \/ LookForDatabase(r) \/ OpenPool(r)
  <2>1. m = 1
    BY <1>1, <1>7 DEF Boot, Connect, LookForDatabase, OpenPool, From, PlaceOK
  <2>2. PICK at \in {"connect", "admin", "create", "open", "check"} : GoTo(r, at)
    BY <1>7 DEF Boot, Connect, LookForDatabase, OpenPool
  <2> QED BY <2>1, <2>2, <1>5 DEF Places
<1>8. CASE CreateDatabase(r)
  <2>1. m = 1
    BY <1>1, <1>8 DEF CreateDatabase, From, PlaceOK
  <2> QED BY <2>1, <1>4, <1>5, <1>8 DEF CreateDatabase, Places
<1>9. CASE Check(r)
  <2>1. m \notin Migrations => m = 3
    BY <1>1 DEF Migrations
  <2>2. CASE GoTo(r, "apply") /\ m \in Migrations
    BY <2>2, <1>5 DEF Places
  <2>3. CASE GoTo(r, "serving") /\ m \notin Migrations
    BY <2>1, <2>3, <1>5 DEF Places
  <2> QED BY <2>2, <2>3, <1>6, <1>9 DEF Check
<1>10. CASE Apply(r)
  <2>1. m \in Migrations
    BY <1>1, <1>10 DEF Apply, From, PlaceOK
  <2>2. CASE Fatal(r)
    BY <2>2, <1>4
  <2>3. CASE GoTo(r, Then(m)) /\ Succeeds(r, m)
    <3>1. CASE m = 2
      <4>1. GoTo(r, "update") /\ Bootstrap[r] \in Secrets
        BY <2>3, <3>1 DEF Succeeds, Then
      <4> QED BY <3>1, <4>1, <1>5 DEF Places
    <3>2. CASE m # 2
      <4>1. GoTo(r, "record")
        BY <2>3, <3>2 DEF Then
      <4> QED BY <2>1, <3>2, <4>1, <1>5 DEF Places
    <3> QED BY <3>1, <3>2
  <2> QED BY <2>2, <2>3, <1>10 DEF Apply
<1>11. CASE Record(r)
  <2>1. m \in Migrations /\ (m = 2 => Bootstrap[r] \in Secrets)
    BY <1>1, <1>11 DEF Record, From, PlaceOK
  <2>2. CASE Fatal(r)
    BY <2>2, <1>4
  <2>3. CASE GoTo(r, "commit")
    <3>1. replica[r].at = "record"
      BY <1>11 DEF Record, From
    <3> QED BY <2>1, <2>3, <3>1, <1>5 DEF Places
  <2> QED BY <2>2, <2>3, <1>11 DEF Record
<1>12. CASE Die(r)
  BY <1>4, <1>12 DEF Die
<1>13. CASE Update(r)
  <2> DEFINE orphans == {o \in Orders : rows[o] = "orphan"}
             p == [at |-> "constrain", migration |-> 2, updated |-> orphans]
  <2>1. m = 2 /\ Bootstrap[r] \in Secrets
    BY <1>1, <1>13 DEF Update, From, PlaceOK
  <2>2. p \in [at : Places, migration : 1..3, updated : SUBSET Orders]
    BY DEF Places
  <2>3. replica' = [replica EXCEPT ![r] = p]
    BY <1>13 DEF Update
  <2>4. \A k \in Migrations : k < p.migration => k \in schema
    BY <1>1, <2>1 DEF PlaceOK
  <2>5. /\ p.at = "constrain" /\ p.migration = 2
        /\ \A o \in Orders : rows[o] = "orphan" => o \in p.updated
    OBVIOUS
  <2> HIDE DEF p
  <2> QED BY <2>1, <2>2, <2>3, <2>4, <2>5, <1>2, <1>3, Moves
<1>14. CASE Constrain(r)
  <2>1. m = 2 /\ Bootstrap[r] \in Secrets /\ replica[r].at = "constrain"
    BY <1>1, <1>14 DEF Constrain, From, PlaceOK
  <2>2. CASE Fatal(r)
    BY <2>2, <1>4
  <2>3. CASE GoTo(r, "record")
    BY <2>1, <2>3, <1>5 DEF Places, Migrations
  <2> QED BY <2>2, <2>3, <1>14 DEF Constrain
<1> QED BY <1>7, <1>8, <1>9, <1>10, <1>11, <1>12, <1>13, <1>14

\* The commit of a migration: the only step that writes the schema.
LEMMA CommitKeeps ==
    ASSUME IInv, NEW r \in Replicas, Commit(r)
    PROVE  IInv'
<1> DEFINE m == replica[r].migration
           p == [at |-> "check", migration |-> m + 1, updated |-> {}]
<1>1. /\ replica \in [Replicas -> [at : Places, migration : 1..3, updated : SUBSET Orders]]
      /\ m \in Migrations /\ PlaceOK(r) /\ (m = 2 => Bootstrap[r] \in Secrets)
      /\ (m = 2 /\ 2 \notin schema => \A o \in Orders : rows[o] = "orphan" => o \in replica[r].updated)
      /\ faults \in 0..MaxFaults /\ MaxFaults \in Nat
      /\ schema \subseteq Migrations /\ recorded = schema
  BY MigrationAssumption DEF IInv, TypeOK, AtomicMigrations, Commit, From, PlaceOK, SeesAll
<1>2. schema' = schema \cup {m} /\ recorded' = recorded \cup {m} /\ database' = database
  BY DEF Commit, Committed
<1>3. faults' \in 0..MaxFaults
  BY <1>1 DEF Commit, Fault
<1>4. /\ tenant' \in Secrets \cup {None}
      /\ rows' \in [Orders -> {"absent", "orphan", "owned"}]
      /\ RowsAccounted'
  <2>1. CASE m = 2
    <3>1. /\ tenant' = Bootstrap[r]
          /\ rows' = [o \in Orders |-> IF o \in replica[r].updated THEN "owned" ELSE rows[o]]
      BY <2>1 DEF Commit, Committed
    <3>2. rows \in [Orders -> {"absent", "orphan", "owned"}]
      BY DEF IInv, TypeOK
    <3>3. \A o \in Orders : rows[o] = "orphan" => o \in replica[r].updated
      BY <1>1, <2>1 DEF IInv, RowsAccounted
    <3> QED BY <1>1, <2>1, <3>1, <3>2, <3>3 DEF RowsAccounted
  <2>2. CASE m # 2
    <3>1. UNCHANGED <<tenant, rows>>
      BY <2>2 DEF Commit, Committed
    <3>2. 2 \in schema' => 2 \in schema
      BY <1>2, <2>2
    <3> QED BY <3>1, <3>2 DEF IInv, TypeOK, RowsAccounted
  <2> QED BY <2>1, <2>2
<1>5. PICK q \in {Down, p} : replica' = [replica EXCEPT ![r] = q]
  BY DEF Commit, NextMigration, Fatal
<1>6. /\ q \in [at : Places, migration : 1..3, updated : SUBSET Orders]
      /\ q.at \in {"down", "check"} /\ (q.at = "down" => q.migration = 1)
      /\ q.migration \in {1, m + 1}
  BY <1>1 DEF Down, Places, Migrations
<1>7. TypeOK'
  <2>1. replica' \in [Replicas -> [at : Places, migration : 1..3, updated : SUBSET Orders]]
    BY <1>1, <1>5, <1>6
  <2>2. schema' \subseteq Migrations /\ recorded' \subseteq Migrations
    BY <1>1, <1>2
  <2> QED BY <2>1, <2>2, <1>2, <1>3, <1>4 DEF IInv, TypeOK
<1>8. AtomicMigrations'
  BY <1>1, <1>2 DEF AtomicMigrations
<1>9. ASSUME NEW s \in Replicas
      PROVE  PlaceOK(s)' /\ SeesAll(s)'
  <2>1. CASE s = r
    <3>1. replica'[s] = q
      BY <1>1, <1>5, <2>1
    <3>2. \A k \in Migrations : k < m + 1 => k \in schema'
      BY <1>1, <1>2 DEF PlaceOK, Migrations
    <3>3. \A k \in Migrations : k < q.migration => k \in schema'
      BY <1>6, <3>2 DEF Migrations
    <3> QED BY <1>6, <3>1, <3>3 DEF PlaceOK, SeesAll
  <2>2. CASE s # r
    <3>1. replica'[s] = replica[s] /\ PlaceOK(s) /\ SeesAll(s)
      BY <1>1, <1>5, <2>2 DEF IInv
    <3>2. UNCHANGED rows \/ 2 \in schema'
      BY <1>2 DEF Commit, Committed
    <3> QED BY <3>1, <3>2, <1>2 DEF PlaceOK, SeesAll
  <2> QED BY <2>1, <2>2
<1> QED BY <1>4, <1>7, <1>8, <1>9 DEF IInv

\* IInv is inductive.
LEMMA Inductive == IInv /\ [Next]_vars => IInv'
<1> SUFFICES ASSUME IInv, [Next]_vars PROVE IInv'
  OBVIOUS
<1>1. CASE UNCHANGED vars
  BY <1>1 DEF vars, IInv, TypeOK, AtomicMigrations, RowsAccounted, PlaceOK, SeesAll
<1>2. ASSUME NEW r \in Replicas, Startup(r) \/ Die(r)
      PROVE  IInv'
  BY <1>2, StartupMoves, CommitKeeps DEF Startup
<1>3. ASSUME NEW o \in Orders, OldRelease(o)
      PROVE  IInv'
  <2>1. /\ 2 \notin schema /\ ~Locked(2) /\ rows' = [rows EXCEPT ![o] = "orphan"]
        /\ UNCHANGED <<database, schema, recorded, tenant, replica, faults>>
    BY <1>3 DEF OldRelease, TakesOrphans
  <2>2. TypeOK' /\ AtomicMigrations' /\ RowsAccounted'
    BY <2>1 DEF IInv, TypeOK, AtomicMigrations, RowsAccounted
  <2>3. ASSUME NEW r \in Replicas
        PROVE  PlaceOK(r)' /\ SeesAll(r)'
    <3>1. PlaceOK(r) /\ ~Holds(r, 2)
      BY <2>1 DEF IInv, Locked
    <3> QED BY <2>1, <3>1 DEF PlaceOK, SeesAll, Holds
  <2> QED BY <2>2, <2>3 DEF IInv
<1> QED BY <1>1, <1>2, <1>3 DEF Next

LEMMA Safe == IInv => TypeOK /\ AtomicMigrations /\ RowsAccounted /\ ServesMigrated
<1> SUFFICES ASSUME IInv PROVE ServesMigrated
  BY DEF IInv
<1>1. ASSUME NEW r \in Replicas, From(r, "serving")
      PROVE  schema = Migrations
  <2>1. replica[r].migration = 3 /\ PlaceOK(r)
    BY <1>1 DEF IInv, PlaceOK, From
  <2>2. Migrations \subseteq schema
    BY <2>1 DEF PlaceOK, Migrations
  <2> QED BY <2>2 DEF IInv, TypeOK
<1> QED BY <1>1 DEF ServesMigrated

LEMMA Invariance == Spec => []IInv
BY InitIInv, Inductive, PTL DEF Spec

\* The variables keep their types: no replica runs past the last migration.
THEOREM MigrationTypeCorrect == Spec => []TypeOK
BY Invariance, Safe, PTL

\* schema_migrations lists exactly the migrations whose statements are committed.
THEOREM MigrationsAreAtomic == Spec => []AtomicMigrations
BY Invariance, Safe, PTL

\* A replica that serves requests has the whole schema under it.
THEOREM ServingIsMigrated == Spec => []ServesMigrated
BY Invariance, Safe, PTL

\* After 002 the default tenant exists, from a usable bootstrap, and no row is without a
\* tenant: not even one of the old release, which goes on writing while 002 is applied.
THEOREM RowsStayAccounted == Spec => []RowsAccounted
BY Invariance, Safe, PTL

=============================================================================
