---------------------- MODULE SchemaMigrationPromises -----------------------
(***************************************************************************)
(* Opening a library database implements ProfileUpgrade, and openers that  *)
(* race on a sound profile never all refuse it.                            *)
(***************************************************************************)
EXTENDS SchemaMigrationProofs

USE Versions

(***************************************************************************)
(* The refinement.                                                         *)
(***************************************************************************)
LEMMA SameMigrations ==
    /\ Promise!currentSchemaVersion = currentSchemaVersion
    /\ Promise!Name = Name
    /\ \A m : Promise!Created(m) = Created(m)
    /\ \A s, m : Promise!Migrated(s, m) = Migrated(s, m)
    /\ \A s, n : Promise!Free(s, n) = Free(s, n)
    /\ Promise!Supported = Supported(profile)
<1>1. Promise!currentSchemaVersion = currentSchemaVersion
  BY DEF Promise!currentSchemaVersion, currentSchemaVersion
<1>2. Promise!migrations = migrations
  BY DEF Promise!migrations, Promise!migration1, Promise!migration2,
         Promise!migration3, Promise!migration4, Promise!Make, Promise!On,
         migrations, migration1, migration2, migration3, migration4, Make, On
<1>3. \A m : Promise!Created(m) = Created(m)
  BY <1>2 DEF Promise!Created, Created
<1>4. Promise!Name = Name
  BY <1>1, <1>3 DEF Promise!Name, Name, Promise!Migration, Migration
<1>5. \A s, m : Promise!Migrated(s, m) = Migrated(s, m)
  BY <1>3, <1>4 DEF Promise!Migrated, Migrated
<1> QED
  BY <1>1, <1>3, <1>4, <1>5 DEF Promise!Free, Free, Promise!Supported, Supported

LEMMA CommitUpgrades ==
    ASSUME MigrationInv, NEW o \in Opener, Commit(o)
    PROVE  Promise!Upgrade
<1> DEFINE next == profile.userVersion + 1
<1>1. /\ Supported(profile)
      /\ next \in Migration
      /\ \A n \in Created(next) : Free(profile.schema, n)
      /\ profile'.applicationId = profile.applicationId
      /\ profile'.userVersion = next
      /\ profile'.schema = Migrated(profile.schema, next)
  BY RecordedIsWhole DEF Commit
<1>2. profile \in Profile /\ profile' \in Profile
  BY DEF MigrationInv, TypeOK, Commit
<1>3. profile' = [profile EXCEPT !.userVersion = next,
                                 !.schema = Migrated(profile.schema, next)]
  BY <1>1, <1>2 DEF Profile
<1>4. profile' = [profile EXCEPT !.userVersion = next,
                                 !.schema = Promise!Migrated(profile.schema, next)]
  BY <1>3, SameMigrations
<1>5. /\ Promise!Supported
      /\ next <= Promise!currentSchemaVersion
      /\ \A n \in Promise!Created(next) : Promise!Free(profile.schema, n)
  BY <1>1, SameMigrations
<1> QED
  BY <1>4, <1>5 DEF Promise!Upgrade

LEMMA IdentifyIdentifies ==
    ASSUME MigrationInv, NEW o \in Opener, Identify(o)
    PROVE  Promise!Identify \/ UNCHANGED profile
<1>1. /\ Supported(profile)
      /\ version[o] \in 0 .. profile.userVersion
      /\ UpToDate(o)
  BY DEF MigrationInv, CountsAreBehind, Identify, Counting
<1>2. profile.userVersion = currentSchemaVersion
  BY <1>1 DEF Supported, UpToDate
<1>3. profile \in Profile
  BY DEF MigrationInv, TypeOK
<1>4. CASE profile.applicationId = "none"
  BY <1>1, <1>2, <1>4, SameMigrations
     DEF Identify, databaseVars, WriteApplicationId, Promise!Identify
<1>5. CASE profile.applicationId = "atlas"
  BY <1>3, <1>5 DEF Identify, databaseVars, WriteApplicationId, Profile
<1> QED
  BY <1>1, <1>3, <1>4, <1>5 DEF Supported, Profile, ApplicationId

LEMMA StepUpgrades == MigrationInv /\ [Next]_vars => [Promise!Next]_profile
<1> SUFFICES ASSUME MigrationInv, [Next]_vars
             PROVE  Promise!Next \/ UNCHANGED profile
  OBVIOUS
<1>1. CASE UNCHANGED vars
  BY <1>1 DEF vars, databaseVars
<1>2. CASE RemoveConflict
  BY <1>2, SameMigrations DEF RemoveConflict, Promise!RemoveConflict, Promise!Next
<1>3. ASSUME NEW o \in Opener, Commit(o) \/ Identify(o)
      PROVE  Promise!Next \/ UNCHANGED profile
  BY <1>3, CommitUpgrades, IdentifyIdentifies DEF Promise!Next
<1>4. ASSUME NEW o \in Opener,
             \/ Open(o) \/ Close(o) \/ StatementFails(o) \/ Die(o)
             \/ ReadApplicationId(o) \/ ReadVersion(o) \/ BeginMigration(o)
             \/ RunStatement(o) \/ MigrationFails(o) \/ RecordVersion(o)
             \/ SetJournalMode(o)
      PROVE  UNCHANGED profile
  BY <1>4
     DEF Open, Close, StatementFails, Die, LoseTransaction, RollBack, databaseVars,
         ReadApplicationId, ReadVersion, BeginMigration, RunStatement, MigrationFails,
         RecordVersion, SetJournalMode
<1> QED
  BY <1>1, <1>2, <1>3, <1>4 DEF Next, Advance

(* Every run of any number of openers changes the profile only by whole    *)
(* migrations in order, marks it only when it is current, and leaves what  *)
(* is not Atlas's alone.                                                   *)
THEOREM OpeningUpgradesAtOnce == Spec => UpgradesAtOnce
BY Invariance, StepUpgrades, PTL DEF Spec, UpgradesAtOnce, Promise!Spec

(***************************************************************************)
(* Racing openers.                                                         *)
(***************************************************************************)
LEMMA CreatedOne ==
    Created(1) = {"library_roots", "documents", "document_locations",
                  "document_locations_document_id"}
BY DEF Created, migrations, migration1, Make, On

LEMMA CreatedTwo ==
    Created(2) = {"documents.is_favorite", "documents.last_opened_utc_ms",
                  "documents_recent"}
BY DEF Created, migrations, migration2, Make, On

LEMMA CreatedThree ==
    Created(3) = {"documents_fts", "documents_fts_insert", "documents_fts_delete",
                  "documents_fts_update"}
BY DEF Created, migrations, migration3, Make, On

LEMMA NamesBefore ==
    /\ NamesAt(0) = {}
    /\ NamesAt(1) = Created(1)
    /\ NamesAt(2) = Created(1) \union Created(2)
    /\ NamesAt(3) = Created(1) \union Created(2) \union Created(3)
<1>1. 1 .. 0 = {} /\ 1 .. 1 = {1} /\ 1 .. 2 = {1, 2} /\ 1 .. 3 = {1, 2, 3}
  OBVIOUS
<1> QED
  BY <1>1 DEF NamesAt

(* A statement takes a name that no earlier one takes, and needs a table   *)
(* that an earlier one makes.                                              *)
InOrder(m, i) ==
    LET s == migrations[m][i] IN
    /\ s.creates \in Name
    /\ s.creates \notin NamesAt(m - 1)
    /\ \A j \in 1 .. i - 1 : migrations[m][j].creates # s.creates
    /\ \A n \in s.needs :
          \/ n \in NamesAt(m - 1)
          \/ \E j \in 1 .. i - 1 : n = migrations[m][j].creates

LEMMA StatementsInOrder ==
    ASSUME NEW m \in Migration, NEW i \in 1 .. Len(migrations[m])
    PROVE  InOrder(m, i)
<1>1. m = 1 \/ m = 2 \/ m = 3 \/ m = 4
  BY DEF currentSchemaVersion
<1>2. migrations[m][i].creates \in Name
  BY CreatedNames
<1>3. CASE m = 1
  BY <1>2, <1>3, NamesBefore DEF InOrder, migrations, migration1, Make, On
<1>4. CASE m = 2
  BY <1>2, <1>4, NamesBefore, CreatedOne DEF InOrder, migrations, migration2, Make, On
<1>5. CASE m = 3
  BY <1>2, <1>5, NamesBefore, CreatedOne, CreatedTwo
     DEF InOrder, migrations, migration3, Make, On
<1>6. CASE m = 4
  BY <1>2, <1>6, NamesBefore, CreatedOne, CreatedTwo, CreatedThree
     DEF InOrder, migrations, migration4, Make, On
<1> QED
  BY <1>1, <1>3, <1>4, <1>5, <1>6

(* A transaction has changed no name but those its statements took.        *)
OnlyDone ==
    \A o \in Opener : step[o] = "migrating" =>
        \A n \in Name :
            \/ uncommitted.schema[n] = profile.schema[n]
            \/ \E i \in 1 .. statement[o] - 1 : n = migrations[version[o] + 1][i].creates

LEMMA OnlyDoneKept == MigrationInv /\ OnlyDone /\ [Next]_vars => OnlyDone'
<1> SUFFICES ASSUME MigrationInv, OnlyDone, [Next]_vars,
                    NEW o \in Opener, step'[o] = "migrating", NEW n \in Name,
                    uncommitted'.schema[n] # profile'.schema[n]
             PROVE  \E i \in 1 .. statement'[o] - 1 :
                        n = migrations[version'[o] + 1][i].creates
  BY DEF OnlyDone
<1>1. \/ RunStatement(o)
      \/ UNCHANGED <<uncommitted, profile, step[o], version[o], statement[o]>>
  <2>1. CASE UNCHANGED vars
    BY <2>1 DEF vars, localVars, databaseVars
  <2>2. CASE RemoveConflict
    BY <2>2 DEF RemoveConflict
  <2>3. ASSUME NEW p \in Opener,
               Open(p) \/ Close(p) \/ Identify(p) \/ ReadApplicationId(p)
                       \/ ReadVersion(p) \/ SetJournalMode(p)
        PROVE  UNCHANGED <<uncommitted, profile, step[o], version[o], statement[o]>>
    BY <2>3
       DEF MigrationInv, TypeOK, Open, Close, Identify, ReadApplicationId, ReadVersion,
           SetJournalMode, databaseVars, Goes
  <2>4. ASSUME NEW p \in Opener, BeginMigration(p)
        PROVE  FALSE
    BY <2>4 DEF MigrationInv, WriterIsInTransaction, BeginMigration
  <2>5. ASSUME NEW p \in Opener, MigrationFails(p) \/ Commit(p)
        PROVE  FALSE
    BY <2>5 DEF MigrationFails, RollBack, Commit
  <2>6. ASSUME NEW p \in Opener, StatementFails(p) \/ Die(p)
        PROVE  UNCHANGED <<uncommitted, profile, step[o], version[o], statement[o]>>
    BY <2>6
       DEF MigrationInv, TypeOK, StatementFails, Die, LoseTransaction, RollBack,
           databaseVars, Goes
  <2>7. ASSUME NEW p \in Opener, RecordVersion(p)
        PROVE  FALSE
    <3>1. p = o
      BY <2>7, OneWriter
         DEF MigrationInv, TypeOK, RecordVersion, Goes, InTransaction
    <3> QED
      BY <2>7, <3>1 DEF MigrationInv, TypeOK, RecordVersion, Goes
  <2>8. ASSUME NEW p \in Opener, RunStatement(p)
        PROVE  RunStatement(o)
    BY <2>8, OneWriter DEF RunStatement, InTransaction
  <2> QED
    BY <2>1, <2>2, <2>3, <2>4, <2>5, <2>6, <2>7, <2>8 DEF Next, Advance
<1>2. CASE UNCHANGED <<uncommitted, profile, step[o], version[o], statement[o]>>
  BY <1>2 DEF OnlyDone
<1>3. CASE RunStatement(o)
  <2> DEFINE name == NextStatement(o).creates
  <2>1. /\ statement[o] \in 1 .. Len(Statements(o))
        /\ name \in Name
    BY <1>3, NextStatementFacts DEF RunStatement
  <2>2. /\ statement'[o] = statement[o] + 1
        /\ version' = version
        /\ profile' = profile
    BY <1>3 DEF MigrationInv, TypeOK, RunStatement
  <2>3. CASE n = name
    BY <2>1, <2>2, <2>3 DEF NextStatement, Statements
  <2>4. CASE n # name
    <3>1. uncommitted'.schema[n] = uncommitted.schema[n]
      BY <1>3, <2>1, <2>4 DEF MigrationInv, TypeOK, Profile, Schema, RunStatement
    <3>2. PICK i \in 1 .. statement[o] - 1 : n = migrations[version[o] + 1][i].creates
      BY <1>3, <2>2, <3>1 DEF OnlyDone, RunStatement
    <3> QED
      BY <2>1, <2>2, <3>2
  <2> QED
    BY <2>3, <2>4
<1> QED
  BY <1>1, <1>2, <1>3

Sound(p) == Supported(p) /\ \A n \in Name : p.schema[n] # "other"

(* On a sound profile the migration after its version runs to its end.     *)
LEMMA NextMigrationRuns ==
    ASSUME MigrationInv, OnlyDone, Sound(profile), NEW o \in Opener,
           step[o] = "migrating", version[o] = profile.userVersion,
           statement[o] <= Len(Statements(o))
    PROVE  Runs(NextStatement(o), uncommitted.schema)
<1> DEFINE m == version[o] + 1
<1> DEFINE i == statement[o]
<1> DEFINE s == NextStatement(o)
<1>1. m \in Migration /\ i \in 1 .. Len(migrations[m])
  BY NextStatementFacts DEF Statements
<1>2. InOrder(m, i) /\ s = migrations[m][i]
  BY <1>1, StatementsInOrder DEF NextStatement, Statements
<1>3. Half(o) /\ Done(o, i - 1)
  BY DEF MigrationInv, TransactionsAreMigrations
<1>4. m - 1 = profile.userVersion
  BY DEF MigrationInv, TypeOK
<1>5. \A n \in Name : ~Free(profile.schema, n) <=> n \in NamesAt(m - 1)
  <2>1. {n \in Name : profile.schema[n] = "atlas"} = NamesAt(m - 1)
    BY <1>4 DEF MigrationInv, VersionTellsSchema, Sound
  <2>2. \A n \in Name : profile.schema[n] \in {"none", "atlas"}
    BY DEF MigrationInv, TypeOK, Profile, Schema, Origin, Sound
  <2> QED
    BY <2>1, <2>2 DEF Free
<1>6. Free(uncommitted.schema, s.creates)
  <2>1. uncommitted.schema[s.creates] = profile.schema[s.creates]
    BY <1>2 DEF OnlyDone, InOrder
  <2> QED
    BY <1>2, <1>5, <2>1 DEF InOrder, Free
<1>7. ASSUME NEW n \in s.needs
      PROVE  ~Free(uncommitted.schema, n)
  <2>1. CASE n \in NamesAt(m - 1)
    <3>1. n \in Name
      BY <1>1, <2>1, NamesAtAreNames
    <3>2. ~Free(profile.schema, n)
      BY <1>5, <2>1, <3>1
    <3> QED
      BY <1>3, <3>1, <3>2 DEF Half, Free
  <2>2. CASE \E j \in 1 .. i - 1 : n = migrations[m][j].creates
    BY <1>3, <2>2 DEF Done, Free
  <2> QED
    BY <1>2, <2>1, <2>2 DEF InOrder
<1> QED
  BY <1>6, <1>7 DEF Runs

(* Some opener is not behind: it has yet to read the version, or its count *)
(* is the database's.  Whoever commits is such an opener.                  *)
Leads(o) ==
    \/ step[o] \in {"closed", "opened", "recognized"}
    \/ step[o] \in Counting /\ version[o] = profile.userVersion

SomeoneLeads == disturbances = 0 /\ Sound(profile) => \E o \in Opener : Leads(o)

LEMMA CommitterLeads ==
    ASSUME MigrationInv, NEW o \in Opener, Commit(o)
    PROVE  Leads(o)'
BY RecordedIsWhole
   DEF MigrationInv, TypeOK, Commit, Goes, Leads, Counting, InTransaction

(* A leader stays one on its own steps: none of them fails.                *)
LEMMA OwnStepLeads ==
    ASSUME MigrationInv, OnlyDone, Sound(profile), NEW o \in Opener, Leads(o),
           Open(o) \/ Advance(o) \/ Close(o)
    PROVE  Leads(o)'
<1>1. /\ profile.applicationId # "other"
      /\ profile.userVersion \in 0 .. currentSchemaVersion
      /\ profile \in Profile
  BY DEF Sound, Supported, MigrationInv, TypeOK
<1>2. CASE Open(o) \/ Close(o) \/ ReadApplicationId(o)
  BY <1>1, <1>2
     DEF MigrationInv, TypeOK, Open, Close, ReadApplicationId, Goes, Leads
<1>3. CASE ReadVersion(o)
  BY <1>1, <1>3
     DEF MigrationInv, TypeOK, ReadVersion, databaseVars, Goes, Leads, Counting
<1>4. CASE BeginMigration(o) \/ RunStatement(o) \/ RecordVersion(o) \/ SetJournalMode(o)
  BY <1>4
     DEF MigrationInv, TypeOK, BeginMigration, RunStatement, RecordVersion,
         SetJournalMode, databaseVars, Goes, Leads, Counting, InTransaction
<1>5. CASE MigrationFails(o)
  <2>1. version[o] = profile.userVersion
    BY <1>5 DEF MigrationFails, Leads
  <2> QED
    BY <1>5, <2>1, NextMigrationRuns DEF MigrationFails
<1>6. CASE Commit(o)
  BY <1>6, CommitterLeads
<1>7. CASE Identify(o)
  <2>1. profile'.userVersion = profile.userVersion
    BY <1>1, <1>7 DEF Identify, databaseVars, WriteApplicationId, Profile
  <2> QED
    BY <1>7, <2>1
       DEF MigrationInv, TypeOK, Identify, Goes, Leads, Counting, InTransaction
<1> QED
  BY <1>2, <1>3, <1>4, <1>5, <1>6, <1>7 DEF Advance

(* Steps of others leave a leader one, unless they commit.                 *)
LEMMA OthersLeaveLeader ==
    ASSUME MigrationInv, NEW w \in Opener, Leads(w), NEW o \in Opener \ {w},
           Open(o) \/ Advance(o) \/ Close(o), ~Commit(o)
    PROVE  Leads(w)'
<1>1. profile'.userVersion = profile.userVersion
  BY DEF MigrationInv, TypeOK, Profile, Open, Close, Advance, ReadApplicationId,
         ReadVersion, BeginMigration, RunStatement, MigrationFails, RollBack,
         RecordVersion, Identify, SetJournalMode, databaseVars, WriteApplicationId
<1>2. step'[w] = step[w] /\ version'[w] = version[w]
  BY DEF MigrationInv, TypeOK, Open, Close, Advance, ReadApplicationId, ReadVersion,
         BeginMigration, RunStatement, MigrationFails, RecordVersion, Identify,
         SetJournalMode, Goes
<1> QED
  BY <1>1, <1>2 DEF Leads

(* A profile that is sound after an undisturbed step was so before.        *)
LEMMA SoundBefore ==
    ASSUME MigrationInv, [Next]_vars, disturbances' = 0, Sound(profile')
    PROVE  Sound(profile) /\ disturbances = 0
<1>1. CASE UNCHANGED profile /\ UNCHANGED disturbances
  BY <1>1
<1>2. ASSUME NEW o \in Opener, Commit(o)
      PROVE  Sound(profile) /\ disturbances = 0
  <2>1. /\ Supported(profile)
        /\ \A n \in Created(version[o] + 1) : Free(profile.schema, n)
        /\ profile'.schema = Migrated(profile.schema, version[o] + 1)
    BY <1>2, RecordedIsWhole DEF Commit
  <2> QED
    BY <1>2, <2>1 DEF Sound, Migrated, Free, Commit
<1>3. ASSUME NEW o \in Opener, Identify(o)
      PROVE  Sound(profile) /\ disturbances = 0
  <2>1. Supported(profile) /\ profile'.schema = profile.schema
    BY <1>3
       DEF MigrationInv, TypeOK, Profile, CountsAreBehind, Counting, Identify,
           WriteApplicationId, databaseVars
  <2> QED
    BY <1>3, <2>1 DEF Sound, Identify
<1>4. ASSUME \/ RemoveConflict
             \/ \E o \in Opener : StatementFails(o) \/ Die(o)
      PROVE  FALSE
  BY <1>4 DEF MigrationInv, TypeOK, RemoveConflict, StatementFails, Die, Disturbed
<1>5. ASSUME NEW o \in Opener, Open(o) \/ Advance(o) \/ Close(o), ~Commit(o), ~Identify(o)
      PROVE  UNCHANGED <<profile, disturbances>>
  BY <1>5
     DEF Open, Close, Advance, ReadApplicationId, ReadVersion, BeginMigration,
         RunStatement, MigrationFails, RollBack, RecordVersion, SetJournalMode,
         databaseVars
<1>6. CASE UNCHANGED vars
  BY <1>1, <1>6 DEF vars, databaseVars
<1> QED
  BY <1>1, <1>2, <1>3, <1>4, <1>5, <1>6 DEF Next

LEMMA SomeoneLeadsKept ==
    MigrationInv /\ OnlyDone /\ SomeoneLeads /\ [Next]_vars => SomeoneLeads'
<1> SUFFICES ASSUME MigrationInv, OnlyDone, SomeoneLeads, [Next]_vars,
                    disturbances' = 0, Sound(profile')
             PROVE  \E o \in Opener : Leads(o)'
  BY DEF SomeoneLeads, Sound, Supported
<1>1. Sound(profile) /\ disturbances = 0
  BY SoundBefore
<1>2. PICK w \in Opener : Leads(w)
  BY <1>1 DEF SomeoneLeads
<1>3. CASE UNCHANGED vars
  BY <1>2, <1>3 DEF vars, localVars, databaseVars, Leads
<1>4. CASE RemoveConflict \/ \E o \in Opener : StatementFails(o) \/ Die(o)
  BY <1>4 DEF MigrationInv, TypeOK, RemoveConflict, StatementFails, Die, Disturbed
<1>5. ASSUME NEW o \in Opener, Open(o) \/ Advance(o) \/ Close(o)
      PROVE  \E p \in Opener : Leads(p)'
  BY <1>1, <1>2, <1>5, CommitterLeads, OwnStepLeads, OthersLeaveLeader
<1> QED
  BY <1>3, <1>4, <1>5 DEF Next

(* Openers that race on a sound profile never all refuse it: the one that  *)
(* committed last has the database's own count and every next statement    *)
(* succeeds for it.                                                        *)
THEOREM RacesHaveAWinner == Spec => []OneOpenerPrevails
<1>1. Init => OnlyDone /\ SomeoneLeads
  BY OpenerAssumption DEF Init, OnlyDone, SomeoneLeads, Leads
<1>2. SomeoneLeads => OneOpenerPrevails
  BY DEF SomeoneLeads, Leads, OneOpenerPrevails, Sound, Counting, InTransaction
<1> QED
  BY <1>1, <1>2, Invariance, OnlyDoneKept, SomeoneLeadsKept, PTL DEF Spec
=============================================================================
