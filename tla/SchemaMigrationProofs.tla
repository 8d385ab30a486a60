----------------------- MODULE SchemaMigrationProofs ------------------------
(***************************************************************************)
(* Proofs about opening a library database, for any number of processes,   *)
(* any bounds, and other tables under any of the names.                    *)
(***************************************************************************)
EXTENDS SchemaMigration, TLAPS

(***************************************************************************)
(* The migrations.                                                         *)
(***************************************************************************)
LEMMA MigrationLength ==
    ASSUME NEW m \in Migration
    PROVE  Len(migrations[m]) \in Nat \ {0}
<1>1. m = 1 \/ m = 2 \/ m = 3 \/ m = 4
  BY DEF Migration, currentSchemaVersion
<1>2. CASE m = 1
  BY <1>2 DEF migrations, migration1
<1>3. CASE m = 2
  BY <1>3 DEF migrations, migration2
<1>4. CASE m = 3
  BY <1>4 DEF migrations, migration3
<1>5. CASE m = 4
  BY <1>5 DEF migrations, migration4
<1> QED
  BY <1>1, <1>2, <1>3, <1>4, <1>5

LEMMA CreatedNames ==
    ASSUME NEW m \in Migration
    PROVE  /\ Created(m) \subseteq Name
           /\ \A i \in 1 .. Len(migrations[m]) : migrations[m][i].creates \in Created(m)
           /\ migrations[m][1].creates \in Created(m)
<1>1. 1 \in 1 .. Len(migrations[m])
  BY MigrationLength
<1> QED
  BY <1>1 DEF Created, Name

LEMMA Versions ==
    /\ currentSchemaVersion \in Nat
    /\ Migration = 1 .. currentSchemaVersion
    /\ StoredVersion = -1 .. currentSchemaVersion + 1
BY DEF currentSchemaVersion, Migration, StoredVersion

(* One more migration adds the names it makes.                             *)
LEMMA NamesAtNext ==
    ASSUME NEW v \in Nat, v + 1 \in Migration
    PROVE  NamesAt(v + 1) = NamesAt(v) \union Created(v + 1)
<1>1. 1 .. v + 1 = (1 .. v) \union {v + 1}
  OBVIOUS
<1> QED
  BY <1>1 DEF NamesAt

LEMMA NamesAtCurrent == NamesAt(currentSchemaVersion) = Name
BY DEF NamesAt, Name, Migration

LEMMA NamesAtAreNames ==
    ASSUME NEW v \in 0 .. currentSchemaVersion
    PROVE  NamesAt(v) \subseteq Name
<1>1. 1 .. v \subseteq Migration
  BY Versions
<1> QED
  BY <1>1, CreatedNames DEF NamesAt

LEMMA NamesAtContains ==
    ASSUME NEW v \in 0 .. currentSchemaVersion, NEW m \in 1 .. v
    PROVE  Created(m) \subseteq NamesAt(v)
BY DEF NamesAt

(***************************************************************************)
(* The inductive invariant.  An opener's count never runs ahead of the     *)
(* database, and once the first statement of a migration has run, they are *)
(* equal: had the database been ahead, the name would have been taken.     *)
(***************************************************************************)
Counting == InTransaction \union {"looping", "identified", "ready"}

CountsAreBehind ==
    \A o \in Opener :
        /\ step[o] \in Counting \union {"recognized"} =>
              /\ profile.applicationId # "other"
              /\ storedApplicationId[o] \in {"none", profile.applicationId}
        /\ step[o] \in Counting =>
              /\ Supported(profile)
              /\ version[o] \in 0 .. profile.userVersion
        /\ step[o] \in {"identified", "ready"} =>
              /\ UpToDate(o)
              /\ profile.applicationId = "atlas"

WriterIsInTransaction ==
    /\ \A o \in Opener : step[o] \in InTransaction <=> writer = o
    /\ writer = NoOpener => uncommitted = profile

(* What an opener has of its migration: the names so far, all of them free *)
(* in the database, and nothing else changed.                              *)
Half(o) ==
    /\ version[o] + 1 \in Migration
    /\ uncommitted.applicationId = profile.applicationId
    /\ \A n \in Name :
          \/ uncommitted.schema[n] = profile.schema[n]
          \/ /\ n \in Created(version[o] + 1)
             /\ Free(profile.schema, n)
             /\ uncommitted.schema[n] = "atlas"

Done(o, k) ==
    \A i \in 1 .. k :
        LET n == migrations[version[o] + 1][i].creates IN
        /\ Free(profile.schema, n)
        /\ uncommitted.schema[n] = "atlas"

TransactionsAreMigrations ==
    \A o \in Opener :
        /\ step[o] = "migrating" =>
              /\ Half(o)
              /\ statement[o] \in 1 .. Len(migrations[version[o] + 1]) + 1
              /\ Done(o, statement[o] - 1)
              /\ uncommitted.userVersion = profile.userVersion
        /\ step[o] = "recorded" =>
              /\ Half(o)
              /\ Done(o, Len(migrations[version[o] + 1]))
              /\ uncommitted.userVersion = version[o] + 1

MigrationInv ==
    /\ TypeOK
    /\ VersionTellsSchema
    /\ CountsAreBehind
    /\ WriterIsInTransaction
    /\ TransactionsAreMigrations

USE Versions

LEMMA InitEstablishes == Init => MigrationInv
<1> SUFFICES ASSUME Init PROVE MigrationInv
  OBVIOUS
<1>1. PICK id \in ApplicationId, v \in StoredVersion, taken \in SUBSET Conflict :
        profile = InitialProfile(id, v, taken)
  BY DEF Init
<1>2. profile \in Profile
  BY <1>1 DEF InitialProfile, Profile, Schema, Origin
<1>3. TypeOK
  BY <1>2, OpenerAssumption DEF Init, TypeOK, ApplicationId, Step
<1>4. VersionTellsSchema
  <2> SUFFICES ASSUME Supported(profile)
               PROVE  {n \in Name : profile.schema[n] = "atlas"} = NamesAt(v)
    BY <1>1 DEF VersionTellsSchema, InitialProfile
  <2>1. id # "other" /\ v \in 0 .. currentSchemaVersion
    BY <1>1 DEF Supported, InitialProfile
  <2>2. \A n \in Name : profile.schema[n] = "atlas" <=> n \in NamesAt(v)
    BY <1>1, <2>1 DEF InitialProfile
  <2> QED
    BY <2>1, <2>2, NamesAtAreNames
<1>5. CountsAreBehind /\ WriterIsInTransaction /\ TransactionsAreMigrations
  BY OpenerAssumption
     DEF Init, CountsAreBehind, WriterIsInTransaction, TransactionsAreMigrations,
         Counting, InTransaction
<1> QED
  BY <1>3, <1>4, <1>5 DEF MigrationInv

(***************************************************************************)
(* Steps that leave the database alone.                                    *)
(***************************************************************************)

(* What one opener's open transaction is depends on its own locals alone.  *)
LEMMA UnchangedTransaction ==
    ASSUME TransactionsAreMigrations, UNCHANGED databaseVars,
           \A p \in Opener : step'[p] \in InTransaction =>
               UNCHANGED <<step[p], version[p], statement[p]>>
    PROVE  TransactionsAreMigrations'
<1> SUFFICES ASSUME NEW p \in Opener, step'[p] \in InTransaction
             PROVE  /\ Half(p)' <=> Half(p)
                    /\ \A k : Done(p, k)' <=> Done(p, k)
                    /\ UNCHANGED <<step[p], version[p], statement[p], uncommitted, profile>>
  BY DEF TransactionsAreMigrations, InTransaction
<1> QED
  BY DEF Half, Done, databaseVars

(* An opener that is in no transaction before or after may do anything     *)
(* with its locals that keeps its count behind.                            *)
LEMMA LocalStep ==
    ASSUME MigrationInv, NEW o \in Opener, UNCHANGED databaseVars, TypeOK',
           step[o] \notin InTransaction, step'[o] \notin InTransaction,
           \A p \in Opener \ {o} :
              /\ step'[p] = step[p]
              /\ storedApplicationId'[p] = storedApplicationId[p]
              /\ version'[p] = version[p]
              /\ statement'[p] = statement[p],
           step'[o] \in Counting \union {"recognized"} =>
              /\ profile.applicationId # "other"
              /\ storedApplicationId'[o] \in {"none", profile.applicationId},
           step'[o] \in Counting =>
              /\ Supported(profile)
              /\ version'[o] \in 0 .. profile.userVersion,
           step'[o] \in {"identified", "ready"} =>
              /\ version'[o] >= currentSchemaVersion
              /\ profile.applicationId = "atlas"
    PROVE  MigrationInv'
<1> USE DEF databaseVars
<1>1. VersionTellsSchema'
  BY DEF MigrationInv, VersionTellsSchema, Supported
<1>2. CountsAreBehind'
  BY DEF MigrationInv, CountsAreBehind, Supported, UpToDate
<1>3. WriterIsInTransaction'
  BY DEF MigrationInv, WriterIsInTransaction
<1>4. TransactionsAreMigrations'
  <2> SUFFICES ASSUME NEW p \in Opener, step'[p] \in InTransaction
               PROVE  /\ p # o
                      /\ UNCHANGED <<step[p], version[p], statement[p]>>
    BY UnchangedTransaction DEF MigrationInv
  <2> QED
    OBVIOUS
<1> QED
  BY <1>1, <1>2, <1>3, <1>4 DEF MigrationInv

LEMMA OpenKeeps ==
    ASSUME MigrationInv, NEW o \in Opener, Open(o)
    PROVE  MigrationInv'
<1>1. TypeOK'
  BY OpenerAssumption DEF MigrationInv, TypeOK, Open, Goes, Step, Opening, InTransaction, databaseVars
<1> QED
  BY <1>1, LocalStep DEF MigrationInv, TypeOK, Open, Goes, Counting, InTransaction

LEMMA ReadApplicationIdKeeps ==
    ASSUME MigrationInv, NEW o \in Opener, ReadApplicationId(o)
    PROVE  MigrationInv'
<1>1. TypeOK'
  BY DEF MigrationInv, TypeOK, ReadApplicationId, Goes, Step, Opening, InTransaction,
         databaseVars, Profile
<1> QED
  BY <1>1, LocalStep
     DEF MigrationInv, TypeOK, ReadApplicationId, Goes, Counting, InTransaction

LEMMA ReadVersionKeeps ==
    ASSUME MigrationInv, NEW o \in Opener, ReadVersion(o)
    PROVE  MigrationInv'
<1>1. TypeOK'
  BY DEF MigrationInv, TypeOK, ReadVersion, Goes, Step, Opening, InTransaction,
         databaseVars, Profile
<1>2. /\ profile.applicationId # "other"
      /\ storedApplicationId[o] \in {"none", profile.applicationId}
  BY DEF MigrationInv, CountsAreBehind, ReadVersion
<1>3. /\ step'[o] \in {"looping", "failed"}
      /\ step'[o] = "looping" => /\ Supported(profile)
                                /\ version'[o] = profile.userVersion
                                /\ profile.userVersion \in 0 .. profile.userVersion
  BY <1>2 DEF MigrationInv, TypeOK, ReadVersion, Goes, Supported
<1> QED
  BY <1>1, <1>2, <1>3, LocalStep
     DEF MigrationInv, TypeOK, ReadVersion, Goes, Counting, InTransaction

LEMMA CloseKeeps ==
    ASSUME MigrationInv, NEW o \in Opener, Close(o)
    PROVE  MigrationInv'
<1>1. TypeOK'
  BY DEF MigrationInv, TypeOK, Close, Goes, Step, databaseVars
<1> QED
  BY <1>1, LocalStep DEF MigrationInv, TypeOK, Close, Goes, Counting, InTransaction

LEMMA SetJournalModeKeeps ==
    ASSUME MigrationInv, NEW o \in Opener, SetJournalMode(o)
    PROVE  MigrationInv'
<1>1. TypeOK'
  BY DEF MigrationInv, TypeOK, SetJournalMode, Goes, Step, databaseVars
<1>2. /\ Supported(profile)
      /\ version[o] \in 0 .. profile.userVersion
      /\ storedApplicationId[o] \in {"none", profile.applicationId}
      /\ UpToDate(o)
      /\ profile.applicationId = "atlas"
  BY DEF MigrationInv, CountsAreBehind, SetJournalMode, Counting
<1> QED
  BY <1>1, <1>2, LocalStep
     DEF MigrationInv, TypeOK, SetJournalMode, Goes, InTransaction, UpToDate

(***************************************************************************)
(* Transactions.                                                           *)
(***************************************************************************)
LEMMA OneWriter ==
    ASSUME MigrationInv, NEW o \in Opener, step[o] \in InTransaction
    PROVE  /\ writer = o
           /\ \A p \in Opener \ {o} : step[p] \notin InTransaction
BY DEF MigrationInv, WriterIsInTransaction

LEMMA BeginMigrationKeeps ==
    ASSUME MigrationInv, NEW o \in Opener, BeginMigration(o)
    PROVE  MigrationInv'
<1>1. TypeOK'
  BY DEF MigrationInv, TypeOK, BeginMigration, Goes, Step, Opening, InTransaction
<1>2. VersionTellsSchema'
  BY DEF MigrationInv, VersionTellsSchema, Supported, BeginMigration
<1>3. CountsAreBehind'
  BY DEF MigrationInv, TypeOK, CountsAreBehind, Supported, BeginMigration, Goes,
         Counting, InTransaction, UpToDate
<1>4. WriterIsInTransaction'
  BY OpenerAssumption
     DEF MigrationInv, TypeOK, WriterIsInTransaction, BeginMigration, Goes,
         InTransaction
<1>5. TransactionsAreMigrations'
  <2> SUFFICES ASSUME NEW p \in Opener, step'[p] \in InTransaction
               PROVE  /\ step'[p] = "migrating"
                      /\ Half(p)'
                      /\ statement'[p] = 1
                      /\ 1 \in 1 .. Len(migrations[version[p] + 1]) + 1
                      /\ Done(p, 0)'
                      /\ uncommitted.userVersion = profile.userVersion
    BY DEF TransactionsAreMigrations, BeginMigration, InTransaction
  <2>1. p = o /\ step'[p] = "migrating" /\ statement'[p] = 1
    BY OpenerAssumption
       DEF MigrationInv, TypeOK, WriterIsInTransaction, BeginMigration, Goes,
           InTransaction
  <2>2. uncommitted = profile
    BY DEF MigrationInv, WriterIsInTransaction, BeginMigration
  <2>3. version[p] + 1 \in Migration
    BY <2>1 DEF MigrationInv, CountsAreBehind, Counting, BeginMigration, UpToDate
  <2>4. Half(p)'
    BY <2>2, <2>3 DEF Half, BeginMigration
  <2>5. Done(p, 0)'
    BY DEF Done
  <2> QED
    BY <2>1, <2>2, <2>3, <2>4, <2>5, MigrationLength
<1> QED
  BY <1>1, <1>2, <1>3, <1>4, <1>5 DEF MigrationInv

(* What a migrating opener knows of its next statement.                    *)
LEMMA NextStatementFacts ==
    ASSUME MigrationInv, NEW o \in Opener, step[o] = "migrating",
           statement[o] <= Len(Statements(o))
    PROVE  /\ version[o] + 1 \in Migration
           /\ statement[o] \in 1 .. Len(Statements(o))
           /\ NextStatement(o).creates \in Created(version[o] + 1)
           /\ NextStatement(o).creates \in Name
<1>1. /\ version[o] + 1 \in Migration
      /\ statement[o] \in 1 .. Len(Statements(o)) + 1
  BY DEF MigrationInv, TransactionsAreMigrations, Half, Statements
<1>2. Len(Statements(o)) \in Nat
  BY <1>1, MigrationLength DEF Statements
<1>3. statement[o] \in 1 .. Len(Statements(o))
  BY <1>1, <1>2
<1> QED
  BY <1>1, <1>3, CreatedNames DEF NextStatement, Statements

LEMMA RunStatementKeeps ==
    ASSUME MigrationInv, NEW o \in Opener, RunStatement(o)
    PROVE  MigrationInv'
<1> DEFINE name == NextStatement(o).creates
<1>1. /\ version[o] + 1 \in Migration
      /\ statement[o] \in 1 .. Len(Statements(o))
      /\ name \in Created(version[o] + 1)
      /\ name \in Name
  BY NextStatementFacts DEF RunStatement
<1>2. uncommitted' = [uncommitted EXCEPT !.schema[name] = "atlas"]
  BY DEF RunStatement
<1>3. /\ uncommitted \in Profile
      /\ profile \in Profile
  BY DEF MigrationInv, TypeOK
<1>4. /\ uncommitted' \in Profile
      /\ uncommitted'.applicationId = uncommitted.applicationId
      /\ uncommitted'.userVersion = uncommitted.userVersion
      /\ uncommitted'.schema[name] = "atlas"
      /\ \A n \in Name \ {name} : uncommitted'.schema[n] = uncommitted.schema[n]
  BY <1>1, <1>2, <1>3 DEF Profile, Schema, Origin
<1>5. TypeOK'
  BY <1>4 DEF MigrationInv, TypeOK, RunStatement
<1>6. VersionTellsSchema'
  BY DEF MigrationInv, VersionTellsSchema, Supported, RunStatement
<1>7. CountsAreBehind'
  BY DEF MigrationInv, CountsAreBehind, Supported, RunStatement, UpToDate
<1>8. WriterIsInTransaction'
  <2>1. writer = o /\ step[o] \in InTransaction
    BY OneWriter DEF RunStatement, InTransaction
  <2> QED
    BY <2>1, OpenerAssumption DEF MigrationInv, WriterIsInTransaction, RunStatement
<1>9. TransactionsAreMigrations'
  <2>1. /\ Half(o)
        /\ Done(o, statement[o] - 1)
        /\ uncommitted.userVersion = profile.userVersion
    BY DEF MigrationInv, TransactionsAreMigrations, RunStatement
  <2>2. \A p \in Opener : step'[p] \in InTransaction => p = o /\ step'[p] = "migrating"
    BY OneWriter DEF RunStatement, InTransaction
  <2>3. Free(uncommitted.schema, name)
    BY DEF RunStatement, Runs
  <2>4. Free(profile.schema, name)
    BY <1>1, <2>1, <2>3 DEF Half, Free
  <2>5. Half(o)'
    BY <1>1, <1>4, <2>1, <2>4 DEF Half, RunStatement
  <2>6. statement'[o] = statement[o] + 1
    BY DEF MigrationInv, TypeOK, RunStatement
  <2>7. ASSUME NEW k, k = statement[o]
        PROVE  Done(o, k)'
    <3> SUFFICES ASSUME NEW i \in 1 .. statement[o]
                 PROVE  LET n == migrations[version[o] + 1][i].creates IN
                        /\ Free(profile.schema, n)
                        /\ uncommitted'.schema[n] = "atlas"
      BY <2>7 DEF Done, RunStatement
    <3>1. CASE i = statement[o]
      BY <1>4, <2>4, <3>1 DEF NextStatement, Statements
    <3>2. CASE i # statement[o]
      <4>1. i \in 1 .. statement[o] - 1
        BY <1>1, <3>2
      <4>2. i \in 1 .. Len(migrations[version[o] + 1])
        BY <1>1 DEF Statements
      <4>3. migrations[version[o] + 1][i].creates \in Name
        BY <1>1, <4>2, CreatedNames
      <4> QED
        BY <1>4, <2>1, <4>1, <4>3 DEF Done
    <3> QED
      BY <3>1, <3>2
  <2>8. version' = version /\ profile' = profile
    BY DEF RunStatement
  <2>9. statement'[o] \in 1 .. Len(migrations[version'[o] + 1]) + 1
    BY <1>1, <2>6, <2>8, MigrationLength DEF Statements
  <2>10. statement'[o] - 1 = statement[o]
    BY <1>1, <2>6
  <2> QED
    BY <1>4, <2>1, <2>2, <2>5, <2>7, <2>8, <2>9, <2>10
       DEF TransactionsAreMigrations, InTransaction
<1> QED
  BY <1>5, <1>6, <1>7, <1>8, <1>9 DEF MigrationInv

LEMMA RecordVersionKeeps ==
    ASSUME MigrationInv, NEW o \in Opener, RecordVersion(o)
    PROVE  MigrationInv'
<1>1. /\ Half(o)
      /\ statement[o] \in 1 .. Len(Statements(o)) + 1
      /\ Done(o, statement[o] - 1)
  BY DEF MigrationInv, TransactionsAreMigrations, RecordVersion, Statements
<1>2. version[o] + 1 \in Migration /\ Len(Statements(o)) \in Nat
  BY <1>1, MigrationLength DEF Half, Statements
<1>3. statement[o] - 1 = Len(Statements(o))
  BY <1>1, <1>2 DEF RecordVersion
<1>4. /\ uncommitted' \in Profile
      /\ uncommitted'.applicationId = uncommitted.applicationId
      /\ uncommitted'.userVersion = version[o] + 1
      /\ uncommitted'.schema = uncommitted.schema
  <2>1. uncommitted \in Profile /\ version[o] + 1 \in StoredVersion
    BY <1>2 DEF MigrationInv, TypeOK
  <2> QED
    BY <2>1 DEF RecordVersion, Profile
<1>5. TypeOK'
  BY <1>4 DEF MigrationInv, TypeOK, RecordVersion, Goes, Step, Opening, InTransaction
<1>6. VersionTellsSchema'
  BY DEF MigrationInv, VersionTellsSchema, Supported, RecordVersion
<1>7. CountsAreBehind'
  BY DEF MigrationInv, TypeOK, CountsAreBehind, Supported, RecordVersion, UpToDate,
         Goes, Counting, InTransaction
<1>8. WriterIsInTransaction'
  <2>1. writer = o /\ step[o] \in InTransaction
    BY OneWriter DEF RecordVersion, InTransaction
  <2> QED
    BY <2>1, OpenerAssumption
       DEF MigrationInv, TypeOK, WriterIsInTransaction, RecordVersion, Goes,
           InTransaction
<1>9. TransactionsAreMigrations'
  <2>1. \A p \in Opener : step'[p] \in InTransaction => p = o /\ step'[p] = "recorded"
    BY OneWriter DEF MigrationInv, TypeOK, RecordVersion, Goes, InTransaction
  <2>2. Half(o)'
    BY <1>1, <1>4 DEF Half, RecordVersion
  <2>3. ASSUME NEW k, k = Len(Statements(o))
        PROVE  Done(o, k)'
    BY <1>1, <1>3, <1>4, <2>3 DEF Done, RecordVersion
  <2>4. version' = version
    BY DEF RecordVersion
  <2> QED
    BY <1>4, <2>1, <2>2, <2>3, <2>4
       DEF TransactionsAreMigrations, InTransaction, Statements
<1> QED
  BY <1>5, <1>6, <1>7, <1>8, <1>9 DEF MigrationInv

(* What is committed is one whole migration, the next of the database: its *)
(* first name was free, so the database is not ahead of the count.         *)
LEMMA RecordedIsWhole ==
    ASSUME MigrationInv, NEW o \in Opener, step[o] = "recorded"
    PROVE  /\ Supported(profile)
           /\ version[o] = profile.userVersion
           /\ version[o] + 1 \in Migration
           /\ uncommitted.applicationId = profile.applicationId
           /\ uncommitted.userVersion = profile.userVersion + 1
           /\ \A n \in Created(version[o] + 1) : Free(profile.schema, n)
           /\ uncommitted.schema = Migrated(profile.schema, version[o] + 1)
<1>1. /\ Half(o)
      /\ Done(o, Len(migrations[version[o] + 1]))
      /\ uncommitted.userVersion = version[o] + 1
  BY DEF MigrationInv, TransactionsAreMigrations
<1>2. /\ Supported(profile)
      /\ version[o] \in 0 .. profile.userVersion
  BY DEF MigrationInv, CountsAreBehind, Counting, InTransaction
<1>3. version[o] + 1 \in Migration
  BY <1>1 DEF Half
<1>4. \A n \in Created(version[o] + 1) :
        Free(profile.schema, n) /\ uncommitted.schema[n] = "atlas"
  BY <1>1 DEF Done, Created
<1>5. version[o] = profile.userVersion
  <2> SUFFICES ASSUME version[o] + 1 \in 1 .. profile.userVersion
               PROVE  FALSE
    BY <1>2 DEF Supported
  <2> DEFINE n == migrations[version[o] + 1][1].creates
  <2>1. n \in Created(version[o] + 1) /\ n \in Name
    BY <1>3, CreatedNames
  <2>2. n \in NamesAt(profile.userVersion)
    BY <1>2, <2>1, NamesAtContains DEF Supported
  <2>3. profile.schema[n] = "atlas"
    BY <1>2, <2>2 DEF MigrationInv, VersionTellsSchema
  <2> QED
    BY <1>4, <2>1, <2>3 DEF Free
<1>6. uncommitted.schema = Migrated(profile.schema, version[o] + 1)
  <2>1. uncommitted.schema = [n \in Name |-> uncommitted.schema[n]]
    BY DEF MigrationInv, TypeOK, Profile, Schema
  <2>2. \A n \in Name : n \notin Created(version[o] + 1)
                         => uncommitted.schema[n] = profile.schema[n]
    BY <1>1 DEF Half
  <2> QED
    BY <1>4, <2>1, <2>2 DEF Migrated
<1> QED
  BY <1>1, <1>2, <1>3, <1>4, <1>5, <1>6 DEF Half

LEMMA CommitKeeps ==
    ASSUME MigrationInv, NEW o \in Opener, Commit(o)
    PROVE  MigrationInv'
<1> DEFINE v == profile.userVersion
<1>1. /\ Supported(profile)
      /\ version[o] = v
      /\ v + 1 \in Migration
      /\ profile'.applicationId = profile.applicationId
      /\ profile'.userVersion = v + 1
      /\ profile'.schema = Migrated(profile.schema, v + 1)
  BY RecordedIsWhole DEF Commit
<1>2. v \in Nat /\ v + 1 \in 0 .. currentSchemaVersion /\ Supported(profile')
  BY <1>1 DEF Supported
<1>3. TypeOK'
  BY <1>1, <1>2
     DEF MigrationInv, TypeOK, Commit, Goes, Step, Opening, InTransaction
<1>4. VersionTellsSchema'
  <2>1. {n \in Name : profile.schema[n] = "atlas"} = NamesAt(v)
    BY <1>1 DEF MigrationInv, VersionTellsSchema
  <2>2. {n \in Name : profile'.schema[n] = "atlas"} = NamesAt(v) \union Created(v + 1)
    BY <1>1, <2>1, CreatedNames DEF Migrated
  <2> QED
    BY <1>1, <1>2, <2>2, NamesAtNext DEF VersionTellsSchema
<1>5. CountsAreBehind'
  <2> SUFFICES ASSUME NEW p \in Opener
               PROVE  /\ step'[p] \in Counting \union {"recognized"} =>
                            /\ profile.applicationId # "other"
                            /\ storedApplicationId[p] \in {"none", profile.applicationId}
                      /\ step'[p] \in Counting => version'[p] \in 0 .. v + 1
                      /\ step'[p] \in {"identified", "ready"} =>
                            /\ version'[p] >= currentSchemaVersion
                            /\ profile.applicationId = "atlas"
    BY <1>1, <1>2 DEF CountsAreBehind, Commit, UpToDate
  <2>1. CASE p = o
    BY <1>1, <1>2, <2>1
       DEF MigrationInv, TypeOK, CountsAreBehind, Commit, Goes, Counting, InTransaction
  <2>2. CASE p # o
    BY <1>1, <1>2, <2>2
       DEF MigrationInv, TypeOK, CountsAreBehind, Commit, Goes, UpToDate
  <2> QED
    BY <2>1, <2>2
<1>6. \A p \in Opener : step'[p] \notin InTransaction
  BY OneWriter DEF MigrationInv, TypeOK, Commit, Goes, InTransaction
<1>7. WriterIsInTransaction'
  BY <1>6, OpenerAssumption DEF WriterIsInTransaction, Commit
<1>8. TransactionsAreMigrations'
  BY <1>6 DEF TransactionsAreMigrations, InTransaction
<1> QED
  BY <1>3, <1>4, <1>5, <1>7, <1>8 DEF MigrationInv

(* A transaction that is undone leaves the database as it was.             *)
LEMMA RollBackKeeps ==
    ASSUME MigrationInv, NEW o \in Opener, step[o] \in InTransaction, RollBack, TypeOK',
           NEW next \in {"failed", "closed"}, Goes(o, next),
           UNCHANGED <<storedApplicationId, version, statement>>
    PROVE  MigrationInv'
<1>1. VersionTellsSchema'
  BY DEF MigrationInv, VersionTellsSchema, Supported, RollBack
<1>2. CountsAreBehind'
  BY DEF MigrationInv, TypeOK, CountsAreBehind, Supported, RollBack, UpToDate, Goes,
         Counting, InTransaction
<1>3. \A p \in Opener : step'[p] \notin InTransaction
  BY OneWriter DEF MigrationInv, TypeOK, Goes, InTransaction
<1>4. WriterIsInTransaction'
  BY <1>3, OpenerAssumption DEF WriterIsInTransaction, RollBack
<1>5. TransactionsAreMigrations'
  BY <1>3 DEF TransactionsAreMigrations, InTransaction
<1> QED
  BY <1>1, <1>2, <1>4, <1>5 DEF MigrationInv

LEMMA MigrationFailsKeeps ==
    ASSUME MigrationInv, NEW o \in Opener, MigrationFails(o)
    PROVE  MigrationInv'
<1>1. TypeOK'
  BY DEF MigrationInv, TypeOK, MigrationFails, RollBack, Goes, Step
<1> QED
  BY <1>1, RollBackKeeps DEF MigrationFails, InTransaction

(* A failed statement and a death of the process are alike.                *)
LEMMA GivingUpKeeps ==
    ASSUME MigrationInv, NEW o \in Opener, StatementFails(o) \/ Die(o)
    PROVE  MigrationInv'
<1>1. TypeOK'
  <2>1. /\ profile' \in Profile
        /\ uncommitted' \in Profile
        /\ writer' \in Opener \union {NoOpener}
    BY DEF MigrationInv, TypeOK, StatementFails, Die, LoseTransaction, RollBack,
           databaseVars
  <2>2. step' \in [Opener -> Step]
    BY DEF MigrationInv, TypeOK, StatementFails, Die, Goes, Step
  <2>3. disturbances' \in 0 .. MaxDisturbances
    BY OpenerAssumption DEF MigrationInv, TypeOK, StatementFails, Die, Disturbed
  <2> QED
    BY <2>1, <2>2, <2>3 DEF MigrationInv, TypeOK, StatementFails, Die
<1>2. PICK next \in {"failed", "closed"} : Goes(o, next)
  BY DEF StatementFails, Die
<1>3. LoseTransaction(o) /\ UNCHANGED <<storedApplicationId, version, statement>>
  BY DEF StatementFails, Die
<1>4. CASE writer = o
  <2>1. step[o] \in InTransaction
    BY <1>4 DEF MigrationInv, WriterIsInTransaction
  <2> QED
    BY <1>1, <1>2, <1>3, <1>4, <2>1, RollBackKeeps DEF LoseTransaction
<1>5. CASE writer # o
  <2>1. step[o] \notin InTransaction
    BY <1>5 DEF MigrationInv, WriterIsInTransaction
  <2>2. UNCHANGED databaseVars
    BY <1>3, <1>5 DEF LoseTransaction
  <2>3. /\ step'[o] \in {"failed", "closed"}
        /\ \A p \in Opener \ {o} : step'[p] = step[p]
    BY <1>2 DEF MigrationInv, TypeOK, Goes
  <2> QED
    BY <1>1, <1>3, <2>1, <2>2, <2>3, LocalStep DEF Counting, InTransaction
<1> QED
  BY <1>4, <1>5

LEMMA IdentifyKeeps ==
    ASSUME MigrationInv, NEW o \in Opener, Identify(o)
    PROVE  MigrationInv'
<1>1. /\ Supported(profile)
      /\ version[o] \in 0 .. profile.userVersion
      /\ storedApplicationId[o] \in {"none", profile.applicationId}
      /\ UpToDate(o)
      /\ step[o] = "looping"
  BY DEF MigrationInv, CountsAreBehind, Identify, Counting
<1>2. profile \in Profile /\ profile.applicationId \in {"none", "atlas"}
  BY <1>1 DEF MigrationInv, TypeOK, Profile, ApplicationId, Supported
<1>3. CASE storedApplicationId[o] # "none" /\ UNCHANGED databaseVars
  <2>1. TypeOK'
    BY <1>3 DEF MigrationInv, TypeOK, Identify, Goes, Step, Opening, databaseVars
  <2>2. profile.applicationId = "atlas"
    BY <1>1, <1>2, <1>3
  <2>3. /\ step'[o] = "identified"
        /\ \A p \in Opener \ {o} : step'[p] = step[p]
    BY DEF MigrationInv, TypeOK, Identify, Goes
  <2> QED
    BY <1>1, <1>3, <2>1, <2>2, <2>3, LocalStep
       DEF Identify, InTransaction, UpToDate
<1>4. CASE /\ storedApplicationId[o] = "none"
           /\ writer = NoOpener
           /\ profile' = WriteApplicationId(profile)
           /\ uncommitted' = profile'
           /\ UNCHANGED writer
  <2>1. /\ profile' \in Profile
        /\ profile'.applicationId = "atlas"
        /\ profile'.userVersion = profile.userVersion
        /\ profile'.schema = profile.schema
        /\ Supported(profile')
    BY <1>1, <1>2, <1>4 DEF WriteApplicationId, Profile, ApplicationId, Supported
  <2>2. TypeOK'
    BY <1>4, <2>1 DEF MigrationInv, TypeOK, Identify, Goes, Step, Opening
  <2>3. VersionTellsSchema'
    BY <1>1, <2>1 DEF MigrationInv, VersionTellsSchema
  <2>4. CountsAreBehind'
    <3> SUFFICES ASSUME NEW p \in Opener
                 PROVE  /\ step'[p] \in Counting \union {"recognized"} =>
                              storedApplicationId[p] \in {"none", "atlas"}
                        /\ step'[p] \in Counting =>
                              version[p] \in 0 .. profile.userVersion
                        /\ step'[p] \in {"identified", "ready"} =>
                              version[p] >= currentSchemaVersion
      BY <2>1 DEF CountsAreBehind, Identify, UpToDate
    <3>1. CASE p = o
      BY <1>1, <1>4, <3>1 DEF UpToDate
    <3>2. CASE p # o
      BY <1>2, <3>2
         DEF MigrationInv, TypeOK, CountsAreBehind, Identify, Goes, UpToDate
    <3> QED
      BY <3>1, <3>2
  <2>5. \A p \in Opener : step'[p] \notin InTransaction
    BY <1>4, OpenerAssumption
       DEF MigrationInv, TypeOK, WriterIsInTransaction, Identify, Goes, InTransaction
  <2>6. WriterIsInTransaction'
    BY <1>4, <2>5, OpenerAssumption DEF WriterIsInTransaction
  <2>7. TransactionsAreMigrations'
    BY <2>5 DEF TransactionsAreMigrations, InTransaction
  <2> QED
    BY <2>2, <2>3, <2>4, <2>6, <2>7 DEF MigrationInv
<1> QED
  BY <1>3, <1>4 DEF Identify

LEMMA RemoveConflictKeeps ==
    ASSUME MigrationInv, RemoveConflict
    PROVE  MigrationInv'
<1>1. PICK name \in Name : /\ profile.schema[name] = "other"
                           /\ profile' = [profile EXCEPT !.schema[name] = "none"]
  BY DEF RemoveConflict
<1>2. /\ profile' \in Profile
      /\ profile'.applicationId = profile.applicationId
      /\ profile'.userVersion = profile.userVersion
      /\ \A n \in Name : profile'.schema[n] = "atlas" <=> profile.schema[n] = "atlas"
  BY <1>1 DEF MigrationInv, TypeOK, Profile, Schema, Origin
<1>3. TypeOK'
  BY <1>2, OpenerAssumption
     DEF MigrationInv, TypeOK, RemoveConflict, Disturbed, localVars
<1>4. VersionTellsSchema'
  BY <1>2 DEF MigrationInv, VersionTellsSchema, Supported
<1>5. CountsAreBehind'
  BY <1>2
     DEF MigrationInv, CountsAreBehind, Supported, RemoveConflict, localVars, UpToDate
<1>6. \A p \in Opener : step'[p] \notin InTransaction
  BY OpenerAssumption
     DEF MigrationInv, WriterIsInTransaction, RemoveConflict, localVars
<1>7. WriterIsInTransaction'
  BY <1>6, OpenerAssumption DEF WriterIsInTransaction, RemoveConflict
<1>8. TransactionsAreMigrations'
  BY <1>6 DEF TransactionsAreMigrations, InTransaction
<1> QED
  BY <1>3, <1>4, <1>5, <1>7, <1>8 DEF MigrationInv

LEMMA StepKeeps == MigrationInv /\ [Next]_vars => MigrationInv'
<1> SUFFICES ASSUME MigrationInv, [Next]_vars PROVE MigrationInv'
  OBVIOUS
<1>1. CASE UNCHANGED vars
  BY <1>1
     DEF vars, localVars, databaseVars, MigrationInv, TypeOK, VersionTellsSchema,
         Supported, CountsAreBehind, UpToDate, WriterIsInTransaction,
         TransactionsAreMigrations, Half, Done
<1>2. CASE RemoveConflict
  BY <1>2, RemoveConflictKeeps
<1>3. ASSUME NEW o \in Opener,
             Open(o) \/ Advance(o) \/ Close(o) \/ StatementFails(o) \/ Die(o)
      PROVE  MigrationInv'
  BY <1>3, OpenKeeps, ReadApplicationIdKeeps, ReadVersionKeeps, BeginMigrationKeeps,
     RunStatementKeeps, MigrationFailsKeeps, RecordVersionKeeps, CommitKeeps,
     IdentifyKeeps, SetJournalModeKeeps, CloseKeeps, GivingUpKeeps
     DEF Advance
<1> QED
  BY <1>1, <1>2, <1>3 DEF Next

LEMMA Invariance == Spec => []MigrationInv
BY InitEstablishes, StepKeeps, PTL DEF Spec

(***************************************************************************)
(* Theorems.                                                               *)
(***************************************************************************)

(* Types: the local counts, the database and what its writer sees of it.   *)
THEOREM TypeCorrect == Spec => []TypeOK
BY Invariance, PTL DEF MigrationInv

(* A stored version stands for exactly its migrations, whoever opened the  *)
(* file, failed or died, at whatever statement.                            *)
THEOREM VersionsAreTrue == Spec => []VersionTellsSchema
BY Invariance, PTL DEF MigrationInv

(* Whoever returned from the constructor has a complete, current library   *)
(* that is marked as Atlas's.                                              *)
THEOREM OpenMeansCurrent == Spec => []OpenIsCurrent
<1>1. MigrationInv => OpenIsCurrent
  <2> SUFFICES ASSUME MigrationInv, NEW o \in Opener, step[o] = "ready"
               PROVE  /\ profile.applicationId = "atlas"
                      /\ profile.userVersion = currentSchemaVersion
                      /\ \A n \in Name : profile.schema[n] = "atlas"
    BY DEF OpenIsCurrent
  <2>1. /\ Supported(profile)
        /\ version[o] \in 0 .. profile.userVersion
        /\ UpToDate(o)
        /\ profile.applicationId = "atlas"
    BY DEF MigrationInv, CountsAreBehind, Counting
  <2>2. profile.userVersion = currentSchemaVersion
    BY <2>1 DEF Supported, UpToDate
  <2> QED
    BY <2>1, <2>2, NamesAtCurrent DEF MigrationInv, VersionTellsSchema
<1> QED
  BY <1>1, Invariance, PTL
=============================================================================
