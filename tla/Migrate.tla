------------------------------- MODULE Migrate -------------------------------
(***************************************************************************)
(* db.Migrate (internal/db/migrate.go): create the table of migrations,    *)
(* and then, for each file in order, look whether it is recorded, apply    *)
(* it, record it.  `admin migrate` runs it on demand; cmd/api runs it as   *)
(* it starts if GTCP_AUTO_MIGRATE is set, and serves without it otherwise, *)
(* which is the default.                                                   *)
(*                                                                         *)
(* Nothing keeps two processes from migrating together.  A statement has a *)
(* beginning and an end: what it finds in place depends on when it begins, *)
(* and whether another got there first shows when it ends.  A file is one  *)
(* statement here, because a query without arguments is sent as a simple   *)
(* query, which PostgreSQL runs as one transaction.                        *)
(***************************************************************************)
EXTENDS Integers

CONSTANTS
  Procs,        \* the API processes and the `admin migrate` commands
  Apis,         \* those of them that are API processes
  Last          \* the number of migration files

ASSUME MigrateAssumption ==
  /\ Apis \subseteq Procs
  /\ Last \in Nat \ {0}

Files == 1..Last

\* The statements that change the schema.  The table of migrations is there
\* once; it goes with the first file.
Statements == {<<"table", 1>>} \cup ({"apply", "record"} \X Files)

VARIABLES
  calm,         \* TRUE: the failures have ceased
  faulted,      \* history: there was a failure
  done,         \* the statements that are committed
  proc,         \* proc[p]: where process p is in Migrate
  orphans       \* statements of dead processes, still running in the database

migrateVars == <<calm, faulted, done, proc, orphans>>

Down == [at |-> "down", file |-> 1, saw |-> FALSE]

Init ==
  /\ calm = FALSE
  /\ faulted = FALSE
  /\ done = {}
  /\ proc = [p \in Procs |-> Down]
  /\ orphans = {}

------------------------------------------------------------------------------
Statement(p) == <<proc[p].at, proc[p].file>>
Executing(p) == Statement(p) \in Statements
Migrating(p) == proc[p].at \notin {"down", "unmigrated", "up"}

\* Process p goes on; a statement sees what is in place as it begins.
GoTo(p, at, file) ==
  proc' = [proc EXCEPT ![p] =
             [at |-> at, file |-> file, saw |-> <<at, file>> \in done]]

\* log.Fatalf, or the end of the command.
GoDown(p) == proc' = [proc EXCEPT ![p] = Down]

\* Mutant of NextFile: the loop ends one file early.
NextButLast(p) ==
  IF proc[p].file + 1 < Last THEN GoTo(p, "check", proc[p].file + 1)
                             ELSE GoTo(p, "up", 1)

\* Mutant of NextFile: the loop goes one file too far.
NextBeyondLast(p) ==
  IF proc[p].file <= Last THEN GoTo(p, "check", proc[p].file + 1)
                          ELSE GoTo(p, "up", 1)

NextFile(p) ==
  IF proc[p].file < Last THEN GoTo(p, "check", proc[p].file + 1)
                         ELSE GoTo(p, "up", 1)

Start(p) ==
  /\ proc[p] = Down
  /\ GoTo(p, "table", 1)
  /\ UNCHANGED <<calm, faulted, done, orphans>>

\* Without GTCP_AUTO_MIGRATE an API process serves at once, whatever the
\* schema is.
StartUnmigrated(p) ==
  /\ p \in Apis
  /\ proc[p] = Down
  /\ GoTo(p, "unmigrated", 1)
  /\ UNCHANGED <<calm, faulted, done, orphans>>

\* Mutant of Check: a migration that is recorded ends the loop.
CheckAndReturn(p) ==
  /\ proc[p].at = "check"
  /\ IF <<"record", proc[p].file>> \in done
     THEN GoTo(p, "up", 1)
     ELSE GoTo(p, "apply", proc[p].file)
  /\ UNCHANGED <<calm, faulted, done, orphans>>

\* select exists(select 1 from schema_migrations where version = ...)
Check(p) ==
  /\ proc[p].at = "check"
  /\ IF <<"record", proc[p].file>> \in done
     THEN NextFile(p)
     ELSE GoTo(p, "apply", proc[p].file)
  /\ UNCHANGED <<calm, faulted, done, orphans>>

\* A statement succeeds.  Those of the table and the files say "if not
\* exists", and may find everything in place.
Commit(p) ==
  /\ Executing(p)
  /\ proc[p].at = "record" => Statement(p) \notin done
  /\ done' = done \cup {Statement(p)}
  /\ CASE proc[p].at = "table"  -> GoTo(p, "check", 1)
       [] proc[p].at = "apply"  -> GoTo(p, "record", proc[p].file)
       [] proc[p].at = "record" -> NextFile(p)
  /\ UNCHANGED <<calm, faulted, orphans>>

\* Mutant of Conflict: the files do not say "if not exists".
ConflictInPlace(p) ==
  /\ Executing(p)
  /\ Statement(p) \in done
  /\ proc[p].at # "table"
  /\ GoDown(p)
  /\ UNCHANGED <<calm, faulted, done, orphans>>

\* Another process was faster: the version is recorded already, or what this
\* statement set out to create is there after all.
Conflict(p) ==
  /\ Executing(p)
  /\ Statement(p) \in done
  /\ proc[p].at = "record" \/ ~proc[p].saw
  /\ GoDown(p)
  /\ UNCHANGED <<calm, faulted, done, orphans>>

MigrateStep(p) == Check(p) \/ Commit(p) \/ Conflict(p)

\* An API process that serves ends, and a command that has migrated.
End(p) ==
  /\ proc[p].at \in {"unmigrated", "up"}
  /\ GoDown(p)
  /\ UNCHANGED <<calm, faulted, done, orphans>>

------------------------------------------------------------------------------
(***************************************************************************)
(* Failures.                                                               *)
(***************************************************************************)

\* Mutant of Fail: the error of a statement is ignored.
FailUnseen(p) ==
  /\ ~calm
  /\ Migrating(p)
  /\ faulted' = TRUE
  /\ IF proc[p].at = "apply" THEN GoTo(p, "record", proc[p].file) ELSE GoDown(p)
  /\ UNCHANGED <<calm, done, orphans>>

\* Process p is killed or told to stop while it migrates, or the connection
\* is lost: what became of its statement, only the database knows.
Fail(p) ==
  /\ ~calm
  /\ Migrating(p)
  /\ faulted' = TRUE
  /\ orphans' = IF Executing(p) THEN orphans \cup {Statement(p)} ELSE orphans
  /\ GoDown(p)
  /\ UNCHANGED <<calm, done>>

\* The statement of a dead process is committed after all, or rolled back.
EndOrphan(s) ==
  /\ s \in orphans
  /\ orphans' = orphans \ {s}
  /\ done' \in {done, done \cup {s}}
  /\ UNCHANGED <<calm, faulted, proc>>

CalmDown ==
  /\ ~calm
  /\ calm' = TRUE
  /\ UNCHANGED <<faulted, done, proc, orphans>>

------------------------------------------------------------------------------
Next ==
  \/ \E p \in Procs :
       Start(p) \/ StartUnmigrated(p) \/ MigrateStep(p) \/ End(p) \/ Fail(p)
  \/ \E s \in Statements : EndOrphan(s)
  \/ CalmDown

\* A process goes on until its migration has ended.
Fairness == \A p \in Procs : WF_migrateVars(MigrateStep(p))

Spec == Init /\ [][Next]_migrateVars

FairSpec == Spec /\ Fairness

------------------------------------------------------------------------------
(***************************************************************************)
(* Properties.                                                             *)
(***************************************************************************)

Places == {"down", "unmigrated", "table", "check", "apply", "record", "up"}

\* Type invariant.
TypeOK ==
  /\ calm \in BOOLEAN
  /\ faulted \in BOOLEAN
  /\ done \subseteq Statements
  /\ proc \in [Procs -> [at : Places, file : Files, saw : BOOLEAN]]
  /\ orphans \subseteq Statements

\* Whoever migrates side by side, dies, and starts again: a migration that is
\* recorded was applied, and all those before it were recorded.
RecordedInOrder ==
  \A f \in Files : <<"record", f>> \in done =>
    /\ <<"apply", f>> \in done
    /\ \A g \in 1..f : <<"record", g>> \in done

\* An API process with GTCP_AUTO_MIGRATE serves, and `admin migrate` prints
\* "migrations applied", only when the schema is complete, whoever migrated
\* beside them and wherever it ended.  (Nothing is said of an API process that
\* has not migrated.)
UpHasSchema ==
  \A p \in Procs : proc[p].at = "up" => \A f \in Files : <<"apply", f>> \in done

Migrated == \A f \in Files : <<"record", f>> \in done

\* Processes that migrate together may make each other fail, but never all
\* of them: unless something else fails, the migration gets done.
SomeoneFinishes ==
  ((\E p \in Procs : Migrating(p)) /\ ~faulted) ~> (Migrated \/ faulted)

Rivals ==
  \/ orphans # {}
  \/ \E p, q \in Procs : p # q /\ Migrating(p) /\ Migrating(q)

\* Whatever a crash left half done, applied and not recorded for one, a
\* process that then migrates without rivals gets it done.
LoneMigratorFinishes ==
  (calm /\ ~Rivals /\ \E p \in Procs : proc[p].at = "check")
    ~> (Migrated \/ Rivals)

\* However many processes migrate side by side, die, and leave statements
\* behind, the schema goes through its versions as under one migration that
\* nothing disturbs; what a slow rival or an orphan executes once more changes
\* nothing.
Upgrade == INSTANCE SerialUpgrade WITH
  applied  <- {f \in Files : <<"apply", f>> \in done},
  recorded <- {f \in Files : <<"record", f>> \in done},
  up       <- {p \in Procs : proc[p].at = "up"}

ImplementsSerialUpgrade == Upgrade!Spec

==============================================================================
