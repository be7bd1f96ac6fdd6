----------------------------- MODULE Migrations -----------------------------
(***************************************************************************)
(* The migration tool of src/core/db/migrate.go, the database it works on  *)
(* and the processes that use it, one at a time: each starts with the      *)
(* migrations of its build, may end at any moment, and leaves the rows of  *)
(* the migrations table behind for the next one, of a newer or older build.*)
(* A version stands for the ID of a migration, 0 for the "0" that Current  *)
(* and PreviousFrom return; versions compare like the IDs, which have the  *)
(* same length.                                                            *)
(***************************************************************************)
EXTENDS Integers, Sequences, FiniteSets, SequencesExt, FiniteSetsExt

CONSTANTS
    Builds,            \* the sets of versions that builds of the application add
    FailingMigrations  \* the versions whose functions fail at times

ASSUME BuildsAssumption ==
    \A b \in Builds : b \in SUBSET (Nat \ {0}) /\ IsFiniteSet(b)

Versions == UNION Builds
Targets == Versions \cup {0}

VARIABLES
    build,      \* what the init functions of the process add
    registered, \* Migrate.migrations
    db,         \* has SetDB been called?
    prepared,   \* Migrate.prepared
    versions,   \* Migrate.versions, which are those of GORMigrate too
    applied,    \* the rows of the migrations table
    called,       \* the call under way, or the last one
    todo,       \* the transactions it has left
    returned,     \* what it returned, "pending" before
    pastUnknown \* history: was a row rolled back under one the build does not know?

process == <<build, registered, db, prepared, versions, called, todo, returned>>
migrationVars == <<process, applied, pastUnknown>>

Operations == {"Migrate", "Rollback", "MigrateTo", "MigrateNextTo", "MigratePreviousTo", "RollbackTo"}
Transaction == [kind : {"up", "down", "one"}, to : Targets]

MigrationsTypeOK ==
    /\ build \in Builds /\ registered \subseteq build /\ applied \subseteq Versions
    /\ db \in BOOLEAN /\ prepared \in BOOLEAN /\ pastUnknown \in BOOLEAN
    /\ versions \in Seq(registered)
    /\ called \in [op : Operations \cup {"none"}, to : Targets]
    /\ todo \in Seq(Transaction) /\ Len(todo) <= 2
    /\ returned \in {"pending", "nil", "error"}
    /\ returned = "pending" <=> todo # <<>>
    /\ (todo # <<>> \/ versions # <<>>) => db /\ prepared

NoCall == [op |-> "none", to |-> 0]

\* A process that has not called anything.
StartOf(b) ==
    /\ build' = b
    /\ registered' = {} /\ db' = FALSE /\ prepared' = FALSE /\ versions' = <<>>
    /\ called' = NoCall /\ todo' = <<>> /\ returned' = "nil"

MigrationsInit ==
    /\ build \in Builds
    /\ registered = {} /\ db = FALSE /\ prepared = FALSE /\ versions = <<>>
    /\ called = NoCall /\ todo = <<>> /\ returned = "nil"
    /\ applied = {} /\ pastUnknown = FALSE

\* The process ends, in the middle of a call or not; one of any build starts.
Restart(b) == StartOf(b) /\ UNCHANGED <<applied, pastUnknown>>

\* The init function of the next migration's file adds it.
Add ==
    /\ registered # build /\ todo = <<>>
    /\ registered' = registered \cup {Min(build \ registered)}
    /\ UNCHANGED <<build, db, prepared, versions, applied, called, todo, returned, pastUnknown>>

\* A database; with one set before, what was prepared for it is forgotten.
SetDB ==
    /\ todo = <<>>
    /\ db' = TRUE
    /\ prepared' = (prepared /\ ~db)
    /\ versions' = IF db THEN <<>> ELSE versions
    /\ UNCHANGED <<build, registered, applied, called, todo, returned, pastUnknown>>

-----------------------------------------------------------------------------
(* What a call does before its first transaction. *)

\* sort.Strings of the keys.
Sorted(S) ==
    CHOOSE list \in [1..Cardinality(S) -> S] : \A i, j \in DOMAIN list : i < j => list[i] < list[j]

\* prepareMigrations sorts what has been added by then, once.
PreparedVersions == IF prepared THEN versions ELSE Sorted(registered)

\* The last row by its ID.
Current == Max(applied \cup {0})

Up(v) == <<[kind |-> "up", to |-> v]>>
Down(v) == <<[kind |-> "down", to |-> v]>>
One(v) == <<[kind |-> "one", to |-> v]>>
Done == [does |-> <<>>, answer |-> "nil"]
Refuse == [does |-> <<>>, answer |-> "error"]
Do(transactions) == [does |-> transactions, answer |-> "pending"]

\* The version of list after v, and the one before it, 0 for none.
IndexIn(list, v) == CHOOSE i \in DOMAIN list : list[i] = v
NextFrom(list, v) ==
    IF v \in Range(list) /\ v # Last(list) THEN list[IndexIn(list, v) + 1] ELSE 0
PreviousFrom(list, v) ==
    IF v = list[1] THEN 0 ELSE list[IndexIn(list, v) - 1]

Migrate(list) ==
    IF registered = {} THEN Done ELSE Do(Up(IF list = <<>> THEN 0 ELSE Last(list)))

Faulty_Rollback(list) ==
    IF list = <<>> THEN Refuse ELSE Do(One(list[1]) \o Down(list[1]))

Rollback(list) ==
    IF list = <<>> THEN Refuse ELSE Do(Down(list[1]) \o One(list[1]))

MigrateTo(v) ==
    CASE Current > v -> Do(Down(v))
      [] Current < v -> Do(Up(v))
      [] OTHER -> Done

Faulty_MigrateNextTo(list, v) ==
    LET next == NextFrom(list, v)
    IN  IF next = 0 \/ Current >= next THEN Done ELSE Do(Up(next))

\* No next version is no error.
MigrateNextTo(list, v) ==
    LET next == NextFrom(list, v)
    IN  CASE next = 0 \/ Current = next -> Done
          [] Current < next -> Do(Up(next))
          [] OTHER -> Refuse

MigratePreviousTo(list, v) ==
    IF v \notin Range(list) THEN Done
    ELSE LET prev == PreviousFrom(list, v)
         IN  CASE Current > prev -> Do(Down(prev))
               [] Current < prev -> Refuse
               [] Current = prev -> IF prev = 0 THEN Do(One(list[1])) ELSE Done

Outcome(op, v, list) ==
    CASE op = "Migrate" -> Migrate(list)
      [] op = "Rollback" -> Rollback(list)
      [] op = "MigrateTo" -> MigrateTo(v)
      [] op = "MigrateNextTo" -> MigrateNextTo(list, v)
      [] op = "MigratePreviousTo" -> MigratePreviousTo(list, v)
      [] op = "RollbackTo" -> Do(Down(v))

\* The process calls op with version v; it looks at the current version here.
Call(op, v) ==
    /\ todo = <<>>
    /\ op \in {"Migrate", "Rollback"} => v = 0
    /\ called' = [op |-> op, to |-> v]
    /\ IF db
       THEN LET o == Outcome(op, v, PreparedVersions)
            IN  /\ prepared' = TRUE /\ versions' = PreparedVersions
                /\ todo' = o.does /\ returned' = o.answer
       ELSE returned' = "error" /\ UNCHANGED <<prepared, versions, todo>>
    /\ UNCHANGED <<build, registered, db, applied, pastUnknown>>

-----------------------------------------------------------------------------
(* The transactions of GORMigrate, a library.  It knows the versions it got *)
(* when it was made.  A migration function that fails undoes all of its     *)
(* transaction.                                                             *)

Known == Range(versions)

\* A version it does not know is an error, and, on the way up, so is a row.
Refused(t) == t.to \notin Known \/ (t.kind = "up" /\ ~(applied \subseteq Known))

\* The migrations a transaction runs, forth or back.
Runs(t) ==
    LET upTo == Range(SubSeq(versions, 1, IndexIn(versions, t.to)))
    IN  CASE t.kind = "up" -> upTo \ applied
          [] t.kind = "down" -> (Known \ upTo) \cap applied
          [] t.kind = "one" -> {t.to}

Fail ==
    /\ todo # <<>>
    /\ ~Refused(todo[1]) => Runs(todo[1]) \cap FailingMigrations # {}
    /\ todo' = <<>> /\ returned' = "error"
    /\ UNCHANGED <<build, registered, db, prepared, versions, applied, called, pastUnknown>>

Commit ==
    /\ todo # <<>> /\ ~Refused(todo[1])
    /\ LET t == todo[1]
           s == Runs(t)
       IN  /\ applied' = IF t.kind = "up" THEN applied \cup s ELSE applied \ s
           /\ pastUnknown' = (pastUnknown \/ (t.kind # "up" /\ ~(applied \subseteq Known)))
    /\ todo' = Tail(todo)
    /\ returned' = IF Len(todo) = 1 THEN "nil" ELSE "pending"
    /\ UNCHANGED <<build, registered, db, prepared, versions, called>>

MigrationsNext ==
    \/ \E b \in Builds : Restart(b)
    \/ Add \/ SetDB \/ Fail \/ Commit
    \/ \E op \in Operations, v \in Targets : Call(op, v)

MigrationsSpec == MigrationsInit /\ [][MigrationsNext]_migrationVars

-----------------------------------------------------------------------------
(* Properties. *)

\* Later builds add later versions: an ID is the time at which NewMigrationCommand
\* made the migration's file.  A build without an earlier version that another one
\* has (a branch merged late) leaves a hole by itself.
BuildsGrow == \A b \in Builds : \A v \in b, u \in Versions : u < v => u \in b

\* The rows have no hole: whatever is applied, everything before it is too,
\* whichever calls failed or were cut short (Rollback works in two transactions).
\* A build that rolls back beneath a row of a newer build, which it cannot roll
\* back, leaves a hole.
NoHoles == pastUnknown \/ \A v \in applied : {u \in Versions : u < v} \subseteq applied

\* A call that returned nil on a database with no foreign rows and no holes has
\* done what its name says, from whatever version it started.
OkMeansReached ==
    LET v == called.to
    IN  returned = "nil" /\ db /\ prepared /\ applied \subseteq Known /\ ~pastUnknown =>
            CASE called.op = "Migrate" -> applied = Known
              [] called.op = "Rollback" -> applied = {}
              [] called.op = "MigrateTo" -> Current = v
              [] called.op = "MigrateNextTo" ->
                    NextFrom(versions, v) # 0 => Current = NextFrom(versions, v)
              [] called.op = "MigratePreviousTo" ->
                    v \in Known => Current = PreviousFrom(versions, v)
              [] called.op = "RollbackTo" -> Current <= v
              [] OTHER -> TRUE
=============================================================================
