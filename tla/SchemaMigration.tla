-------------------------- MODULE SchemaMigration ---------------------------
(***************************************************************************)
(* Opening a library database: the constructor of SqliteLibraryIndex and   *)
(* applyMigration.  Nothing keeps a second process from opening the same   *)
(* file, so several openers run statement by statement against one         *)
(* database; each decides by what it read at its start.  SQLite gives one  *)
(* of them the write lock, shows an open transaction to its writer alone,  *)
(* and undoes it when the writer rolls back or dies.                       *)
(***************************************************************************)
EXTENDS ProfileSchema, Integers

CONSTANTS
    Opener,            \* processes
    NoOpener,
    Conflict,          \* names that may be taken before Atlas comes
    MaxOpens,          \* bound on the starts of one process
    MaxDisturbances    \* bound on failures, deaths and removed conflicts

ASSUME OpenerAssumption ==
    /\ Opener # {}
    /\ NoOpener \notin Opener
    /\ MaxOpens \in Nat
    /\ MaxDisturbances \in Nat

VARIABLES
    profile,              \* the database as committed
    uncommitted,          \* the database as its writer sees it
    writer,               \* who holds the write lock, or NoOpener
    step,                 \* opener -> the statement it comes to next
    storedApplicationId,  \* opener -> what it read at its start
    version,              \* opener -> its local count of migrations
    statement,            \* opener -> the next statement of its migration
    opens,                \* opener -> how often it has started
    disturbances          \* what went wrong from outside so far

localVars == <<step, storedApplicationId, version, statement>>
databaseVars == <<profile, uncommitted, writer>>
vars == <<databaseVars, localVars, opens, disturbances>>

ApplicationId == {"none", "atlas", "other"}
StoredVersion == -1 .. currentSchemaVersion + 1
Profile ==
    [applicationId : ApplicationId, userVersion : StoredVersion, schema : Schema]

InTransaction == {"migrating", "recorded"}
Opening ==
    InTransaction \union {"opened", "recognized", "looping", "identified"}
Step == Opening \union {"closed", "failed", "ready"}

TypeOK ==
    /\ profile \in Profile
    /\ uncommitted \in Profile
    /\ writer \in Opener \union {NoOpener}
    /\ step \in [Opener -> Step]
    /\ storedApplicationId \in [Opener -> ApplicationId]
    /\ version \in [Opener -> StoredVersion]
    /\ statement \in [Opener -> Nat]
    /\ opens \in [Opener -> 0 .. MaxOpens]
    /\ disturbances \in 0 .. MaxDisturbances

Supported(p) ==
    /\ p.applicationId # "other"
    /\ p.userVersion \in 0 .. currentSchemaVersion

(* A file is one that this or an earlier Atlas left at some version, its   *)
(* id missing if that opening was cut short, or it belongs to another      *)
(* application or a newer Atlas.  Other tables may have taken names.       *)
InitialProfile(id, v, taken) ==
    LET own == id # "other" /\ v \in 0 .. currentSchemaVersion
    IN  [applicationId |-> id,
         userVersion |-> v,
         schema |-> [n \in Name |->
                        IF own /\ n \in NamesAt(v) THEN "atlas"
                        ELSE IF n \in taken THEN "other" ELSE "none"]]

Init ==
    /\ \E id \in ApplicationId, v \in StoredVersion, taken \in SUBSET Conflict :
          /\ v = 0 => id # "atlas"
          /\ profile = InitialProfile(id, v, taken)
    /\ uncommitted = profile
    /\ writer = NoOpener
    /\ step = [o \in Opener |-> "closed"]
    /\ storedApplicationId = [o \in Opener |-> "none"]
    /\ version = [o \in Opener |-> 0]
    /\ statement = [o \in Opener |-> 1]
    /\ opens = [o \in Opener |-> 0]
    /\ disturbances = 0

Goes(o, next) == step' = [step EXCEPT ![o] = next]

(***************************************************************************)
(* The constructor.                                                        *)
(***************************************************************************)
Open(o) ==
    /\ step[o] \in {"closed", "failed"}
    /\ opens[o] < MaxOpens
    /\ opens' = [opens EXCEPT ![o] = @ + 1]
    /\ Goes(o, "opened")
    /\ UNCHANGED <<databaseVars, storedApplicationId, version, statement,
                   disturbances>>

ReadApplicationId(o) ==
    /\ step[o] = "opened"
    /\ storedApplicationId' = [storedApplicationId EXCEPT ![o] = profile.applicationId]
    /\ Goes(o, IF profile.applicationId = "other" THEN "failed" ELSE "recognized")
    /\ UNCHANGED <<databaseVars, version, statement, opens, disturbances>>

ReadVersion(o) ==
    /\ step[o] = "recognized"
    /\ version' = [version EXCEPT ![o] = profile.userVersion]
    /\ Goes(o, IF profile.userVersion \in 0 .. currentSchemaVersion
                THEN "looping" ELSE "failed")
    /\ UNCHANGED <<databaseVars, storedApplicationId, statement, opens,
                   disturbances>>

(* The loop ends by the local count, not by what the database says.        *)
UpToDate(o) == version[o] >= currentSchemaVersion

BeginMigration(o) ==
    /\ step[o] = "looping"
    /\ ~UpToDate(o)
    /\ writer = NoOpener
    /\ writer' = o
    /\ statement' = [statement EXCEPT ![o] = 1]
    /\ Goes(o, "migrating")
    /\ UNCHANGED <<profile, uncommitted, storedApplicationId, version, opens,
                   disturbances>>

Statements(o) == migrations[version[o] + 1]
NextStatement(o) == Statements(o)[statement[o]]

Runs_IfNotExists(s, schema) == \A n \in s.needs : ~Free(schema, n)

Runs(s, schema) ==
    /\ Free(schema, s.creates)
    /\ \A n \in s.needs : ~Free(schema, n)

RunStatement(o) ==
    /\ step[o] = "migrating"
    /\ statement[o] <= Len(Statements(o))
    /\ Runs(NextStatement(o), uncommitted.schema)
    /\ uncommitted' = [uncommitted EXCEPT !.schema[NextStatement(o).creates] = "atlas"]
    /\ statement' = [statement EXCEPT ![o] = @ + 1]
    /\ UNCHANGED <<profile, writer, step, storedApplicationId, version, opens,
                   disturbances>>

RollBack_KeepsStatements ==
    /\ profile' = uncommitted
    /\ writer' = NoOpener
    /\ UNCHANGED uncommitted

RollBack ==
    /\ uncommitted' = profile
    /\ writer' = NoOpener
    /\ UNCHANGED profile

MigrationFails_Retries(o) ==
    /\ step[o] = "migrating"
    /\ statement[o] <= Len(Statements(o))
    /\ ~Runs(NextStatement(o), uncommitted.schema)
    /\ RollBack
    /\ Goes(o, "looping")
    /\ UNCHANGED <<storedApplicationId, version, statement, opens, disturbances>>

(* A table or column is there already, for whatever reason.                *)
MigrationFails(o) ==
    /\ step[o] = "migrating"
    /\ statement[o] <= Len(Statements(o))
    /\ ~Runs(NextStatement(o), uncommitted.schema)
    /\ RollBack
    /\ Goes(o, "failed")
    /\ UNCHANGED <<storedApplicationId, version, statement, opens, disturbances>>

RecordVersion(o) ==
    /\ step[o] = "migrating"
    /\ statement[o] > Len(Statements(o))
    /\ uncommitted' = [uncommitted EXCEPT !.userVersion = version[o] + 1]
    /\ Goes(o, "recorded")
    /\ UNCHANGED <<profile, writer, storedApplicationId, version, statement, opens,
                   disturbances>>

Commit_KeepsCount(o) ==
    /\ step[o] = "recorded"
    /\ profile' = uncommitted
    /\ writer' = NoOpener
    /\ Goes(o, "looping")
    /\ UNCHANGED <<uncommitted, storedApplicationId, version, statement, opens,
                   disturbances>>

Commit(o) ==
    /\ step[o] = "recorded"
    /\ profile' = uncommitted
    /\ writer' = NoOpener
    /\ version' = [version EXCEPT ![o] = @ + 1]
    /\ Goes(o, "looping")
    /\ UNCHANGED <<uncommitted, storedApplicationId, statement, opens, disturbances>>

WriteApplicationId_Forgotten(p) == p

(* A statement outside a transaction is its own: it needs the lock.        *)
WriteApplicationId(p) == [p EXCEPT !.applicationId = "atlas"]

Identify(o) ==
    /\ step[o] = "looping"
    /\ UpToDate(o)
    /\ \/ /\ storedApplicationId[o] # "none"
          /\ UNCHANGED databaseVars
       \/ /\ storedApplicationId[o] = "none"
          /\ writer = NoOpener
          /\ profile' = WriteApplicationId(profile)
          /\ uncommitted' = profile'
          /\ UNCHANGED writer
    /\ Goes(o, "identified")
    /\ UNCHANGED <<storedApplicationId, version, statement, opens, disturbances>>

SetJournalMode(o) ==
    /\ step[o] = "identified"
    /\ writer = NoOpener
    /\ Goes(o, "ready")
    /\ UNCHANGED <<databaseVars, storedApplicationId, version, statement, opens,
                   disturbances>>

Close(o) ==
    /\ step[o] = "ready"
    /\ Goes(o, "closed")
    /\ UNCHANGED <<databaseVars, storedApplicationId, version, statement, opens,
                   disturbances>>

(***************************************************************************)
(* What comes from outside.  A statement fails for the disk, or because    *)
(* the lock was not free for five seconds; a process dies.                 *)
(***************************************************************************)
Disturbed ==
    /\ disturbances < MaxDisturbances
    /\ disturbances' = disturbances + 1

LoseTransaction(o) ==
    \/ writer = o /\ RollBack
    \/ writer # o /\ UNCHANGED databaseVars

StatementFails(o) ==
    /\ step[o] \in Opening
    /\ Disturbed
    /\ LoseTransaction(o)
    /\ Goes(o, "failed")
    /\ UNCHANGED <<storedApplicationId, version, statement, opens>>

Die(o) ==
    /\ step[o] \in Opening
    /\ Disturbed
    /\ LoseTransaction(o)
    /\ Goes(o, "closed")
    /\ UNCHANGED <<storedApplicationId, version, statement, opens>>

(* What stood in the way of a migration is taken away.                     *)
RemoveConflict ==
    /\ Disturbed
    /\ writer = NoOpener
    /\ \E n \in Name :
          /\ profile.schema[n] = "other"
          /\ profile' = [profile EXCEPT !.schema[n] = "none"]
    /\ uncommitted' = profile'
    /\ UNCHANGED <<writer, localVars, opens>>

Advance(o) ==
    \/ ReadApplicationId(o) \/ ReadVersion(o)
    \/ BeginMigration(o) \/ RunStatement(o) \/ MigrationFails(o)
    \/ RecordVersion(o) \/ Commit(o)
    \/ Identify(o) \/ SetJournalMode(o)

Next ==
    \/ \E o \in Opener :
          Open(o) \/ Advance(o) \/ Close(o) \/ StatementFails(o) \/ Die(o)
    \/ RemoveConflict

Spec == Init /\ [][Next]_vars

FairSpec == Spec /\ \A o \in Opener : WF_vars(Advance(o))

(***************************************************************************)
(* Properties.                                                             *)
(***************************************************************************)

(* The stored version says which migrations the schema holds, whole ones   *)
(* only: applyMigration commits or undoes a migration with its version,    *)
(* and a process that read an older version cannot apply one again.        *)
VersionTellsSchema ==
    Supported(profile) =>
        {n \in Name : profile.schema[n] = "atlas"} = NamesAt(profile.userVersion)

(* A database that the constructor returned with is complete, current and  *)
(* marked as Atlas's, although the loop went by a local count and the mark *)
(* by what was read before any migration.                                  *)
OpenIsCurrent ==
    (\E o \in Opener : step[o] = "ready") =>
        /\ profile.applicationId = "atlas"
        /\ profile.userVersion = currentSchemaVersion
        /\ \A n \in Name : profile.schema[n] = "atlas"

(* Openers that race on an old profile may refuse one another, never all   *)
(* of them, unless something from outside went wrong.                      *)
OneOpenerPrevails ==
    disturbances = 0 /\ Supported(profile)
    /\ (\A n \in Name : profile.schema[n] # "other")
        => \E o \in Opener : step[o] # "failed"

(* Whatever openers do, the profile changes by whole migrations in order,  *)
(* is marked once it is current, and is left alone if it is not Atlas's.   *)
Promise == INSTANCE ProfileUpgrade
UpgradesAtOnce == Promise!Spec

(* A start ends: with an open library or with an exception.                *)
OpeningEnds ==
    \A o \in Opener : step[o] \in Opening ~> step[o] \notin Opening
=============================================================================
