---------------------------- MODULE MigrateProofs ----------------------------
(***************************************************************************)
(* Proofs about Migrate, for any number of processes and of files: the     *)
(* order of the migrations, and that who has migrated has the schema.      *)
(***************************************************************************)
EXTENDS Migrate, TLAPS

\* The migrations before file f are recorded.
Before(f) == \A g \in Files : g < f => <<"record", g>> \in done

\* Statement s is in its turn.
InTurn(s) ==
  /\ Before(s[2])
  /\ s[1] = "record" => <<"apply", s[2]>> \in done

\* What is recorded was recorded in its turn, and so will be what processes
\* and orphans are about to record.
DoneInTurn    == \A f \in Files : <<"record", f>> \in done => InTurn(<<"record", f>>)
OrphansInTurn == \A s \in orphans : InTurn(s)
ProcsInTurn ==
  \A p \in Procs :
    /\ proc[p].at \in {"check", "apply", "record"} => InTurn(Statement(p))
    /\ proc[p].at = "table" => proc[p].file = 1
    /\ proc[p].at = "up" => Migrated

IInv == TypeOK /\ DoneInTurn /\ OrphansInTurn /\ ProcsInTurn

\* The state of a process after GoTo.
LEMMA GoToState ==
  ASSUME proc \in [Procs -> [at : Places, file : Files, saw : BOOLEAN]],
         NEW p \in Procs, NEW at \in Places \ {"down"},
         NEW file \in Files, GoTo(p, at, file)
  PROVE  /\ proc' \in [Procs -> [at : Places, file : Files, saw : BOOLEAN]]
         /\ proc'[p].at = at
         /\ proc'[p].file = file
         /\ \A q \in Procs \ {p} : proc'[q] = proc[q]
BY DEF GoTo, Places

LEMMA GoDownState ==
  ASSUME proc \in [Procs -> [at : Places, file : Files, saw : BOOLEAN]],
         NEW p \in Procs, GoDown(p)
  PROVE  /\ proc' \in [Procs -> [at : Places, file : Files, saw : BOOLEAN]]
         /\ proc'[p].at = "down"
         /\ \A q \in Procs \ {p} : proc'[q] = proc[q]
BY MigrateAssumption DEF GoDown, Down, Files, Places

\* What is in its turn stays so when more gets committed.
LEMMA TurnStays ==
  ASSUME done \subseteq done', NEW s, InTurn(s)
  PROVE  InTurn(s)'
BY DEF InTurn, Before

LEMMA InitIInv == Init => IInv
<1> SUFFICES ASSUME Init PROVE IInv
  OBVIOUS
<1>1. TypeOK
  <2>1. 1 \in Files
    BY MigrateAssumption DEF Files
  <2>2. Down \in [at : Places, file : Files, saw : BOOLEAN]
    BY <2>1 DEF Down, Places
  <2> QED
    BY <2>2 DEF Init, TypeOK
<1>2. DoneInTurn /\ OrphansInTurn /\ ProcsInTurn
  BY DEF Init, DoneInTurn, OrphansInTurn, ProcsInTurn, Down
<1> QED
  BY <1>1, <1>2 DEF IInv

\* A step of process p alone, which is in its turn afterwards, keeps the
\* invariant when what it commits was in its turn.
LEMMA ProcStep ==
  ASSUME IInv, NEW p \in Procs,
         calm' \in BOOLEAN, faulted' \in BOOLEAN,
         proc' \in [Procs -> [at : Places, file : Files, saw : BOOLEAN]],
         \A q \in Procs \ {p} : proc'[q] = proc[q],
         proc'[p].at \in {"check", "apply", "record"} => InTurn(Statement(p))',
         proc'[p].at = "table" => proc'[p].file = 1,
         proc'[p].at = "up" => Migrated',
         done' \subseteq Statements, done \subseteq done',
         \A s \in done' \ done : InTurn(s),
         orphans' \subseteq Statements,
         \A s \in orphans' \ orphans : InTurn(s)
  PROVE  IInv'
<1>1. TypeOK'
  BY DEF TypeOK
<1>2. DoneInTurn'
  <2> SUFFICES ASSUME NEW f \in Files, <<"record", f>> \in done'
               PROVE  InTurn(<<"record", f>>)'
    BY DEF DoneInTurn
  <2>1. InTurn(<<"record", f>>)
    BY DEF IInv, DoneInTurn
  <2> QED
    BY <2>1, TurnStays
<1>3. OrphansInTurn'
  <2> SUFFICES ASSUME NEW s \in orphans' PROVE InTurn(s)'
    BY DEF OrphansInTurn
  <2>1. InTurn(s)
    BY DEF IInv, OrphansInTurn
  <2> QED
    BY <2>1, TurnStays
<1>4. ProcsInTurn'
  <2> SUFFICES ASSUME NEW q \in Procs
               PROVE  /\ proc'[q].at \in {"check", "apply", "record"} => InTurn(Statement(q))'
                      /\ proc'[q].at = "table" => proc'[q].file = 1
                      /\ proc'[q].at = "up" => Migrated'
    BY DEF ProcsInTurn
  <2>1. CASE q = p
    BY <2>1
  <2>2. CASE q # p
    <3>1. proc'[q] = proc[q] /\ Statement(q)' = Statement(q)
      BY <2>2 DEF Statement
    <3>2. proc[q].at = "up" => Migrated'
      BY DEF IInv, ProcsInTurn, Migrated
    <3>3. ASSUME proc[q].at \in {"check", "apply", "record"}
          PROVE  InTurn(Statement(q))'
      <4>1. InTurn(Statement(q))
        BY <3>3 DEF IInv, ProcsInTurn
      <4>2. PICK s : s = Statement(q)
        OBVIOUS
      <4>3. InTurn(s)'
        BY <4>1, <4>2, TurnStays
      <4> QED
        BY <4>2, <4>3, <3>1 DEF InTurn, Before
    <3>4. proc[q].at = "table" => proc[q].file = 1
      BY DEF IInv, ProcsInTurn
    <3> QED
      BY <3>1, <3>2, <3>3, <3>4
  <2> QED
    BY <2>1, <2>2
<1> QED
  BY <1>1, <1>2, <1>3, <1>4 DEF IInv

\* What follows a file that is recorded is in its turn.
LEMMA NextFileInTurn ==
  ASSUME IInv, NEW p \in Procs, proc[p].at \in {"check", "record"},
         NextFile(p), done \subseteq done', <<"record", proc[p].file>> \in done',
         InTurn(Statement(p))
  PROVE  /\ proc' \in [Procs -> [at : Places, file : Files, saw : BOOLEAN]]
         /\ \A q \in Procs \ {p} : proc'[q] = proc[q]
         /\ proc'[p].at \in {"check", "apply", "record"} => InTurn(Statement(p))'
         /\ proc'[p].at # "table"
         /\ proc'[p].at = "up" => Migrated'
<1> USE DEF Places
<1> DEFINE f == proc[p].file
<1>1. f \in Files /\ Last \in Nat \ {0} /\ TypeOK
  BY MigrateAssumption DEF IInv, TypeOK
<1>2. \A g \in Files : g <= f => <<"record", g>> \in done'
  BY <1>1 DEF InTurn, Before, Statement, Files
<1>3. CASE f < Last
  <2>1. GoTo(p, "check", f + 1) /\ f + 1 \in Files
    BY <1>1, <1>3 DEF NextFile, Files
  <2>2. proc'[p].at = "check" /\ proc'[p].file = f + 1
    BY <1>1, <2>1, GoToState DEF TypeOK
  <2>3. InTurn(Statement(p))'
    BY <1>1, <1>2, <2>2 DEF InTurn, Before, Statement, Files
  <2> QED
    BY <1>1, <2>1, <2>2, <2>3, GoToState DEF TypeOK
<1>4. CASE ~(f < Last)
  <2>1. GoTo(p, "up", 1) /\ 1 \in Files
    BY <1>1, <1>4 DEF NextFile, Files
  <2>2. proc'[p].at = "up"
    BY <1>1, <2>1, GoToState DEF TypeOK
  <2>3. \A g \in Files : g <= f
    BY <1>1, <1>4 DEF Files
  <2>4. Migrated'
    BY <1>2, <2>3 DEF Migrated
  <2> QED
    BY <1>1, <2>1, <2>2, <2>4, GoToState DEF TypeOK
<1> QED
  BY <1>3, <1>4

\* The table of migrations has nothing before it.
LEMMA TableInTurn ==
  ASSUME IInv, NEW p \in Procs, proc[p].at = "table"
  PROVE  InTurn(Statement(p))
<1>1. proc[p].file = 1
  BY DEF IInv, ProcsInTurn
<1>2. Before(1)
  BY MigrateAssumption DEF Before, Files
<1>3. Statement(p) = <<"table", 1>>
  BY <1>1 DEF Statement
<1> QED
  BY <1>2, <1>3 DEF InTurn

LEMMA StepIInv == IInv /\ [Next]_migrateVars => IInv'
<1> SUFFICES ASSUME IInv, [Next]_migrateVars PROVE IInv'
  OBVIOUS
<1> USE DEF IInv, Places
<1>1. ASSUME NEW p \in Procs, Start(p) PROVE IInv'
  <2>1. GoTo(p, "table", 1) /\ 1 \in Files /\ TypeOK
    BY <1>1, MigrateAssumption DEF Start, Files
  <2>2. proc'[p].at = "table" /\ proc'[p].file = 1
    BY <2>1, GoToState DEF TypeOK
  <2> QED
    BY <1>1, <2>1, <2>2, GoToState, ProcStep DEF Start, TypeOK
<1>u. ASSUME NEW p \in Procs, StartUnmigrated(p) PROVE IInv'
  <2>1. GoTo(p, "unmigrated", 1) /\ 1 \in Files /\ TypeOK
    BY <1>u, MigrateAssumption DEF StartUnmigrated, Files
  <2>2. proc'[p].at = "unmigrated"
    BY <2>1, GoToState DEF TypeOK
  <2> QED
    BY <1>u, <2>1, <2>2, GoToState, ProcStep DEF StartUnmigrated, TypeOK
<1>2. ASSUME NEW p \in Procs, Check(p) PROVE IInv'
  <2>1. /\ proc[p].at = "check" /\ proc[p].file \in Files
        /\ InTurn(Statement(p)) /\ Before(proc[p].file)
        /\ UNCHANGED <<calm, faulted, done, orphans>>
    BY <1>2 DEF Check, ProcsInTurn, TypeOK, InTurn, Statement
  <2>2. CASE <<"record", proc[p].file>> \in done
    <3>1. NextFile(p)
      BY <1>2, <2>2 DEF Check
    <3> QED
      BY <2>1, <2>2, <3>1, NextFileInTurn, ProcStep DEF TypeOK
  <2>3. CASE <<"record", proc[p].file>> \notin done
    <3>1. GoTo(p, "apply", proc[p].file)
      BY <1>2, <2>3 DEF Check
    <3>2. proc'[p].at = "apply" /\ proc'[p].file = proc[p].file
      BY <2>1, <3>1, GoToState DEF TypeOK
    <3>3. InTurn(Statement(p))'
      BY <2>1, <3>2 DEF InTurn, Before, Statement
    <3> QED
      BY <2>1, <3>1, <3>2, <3>3, GoToState, ProcStep DEF TypeOK
  <2> QED
    BY <2>2, <2>3
<1>3. ASSUME NEW p \in Procs, Commit(p) PROVE IInv'
  <2>1. /\ Statement(p) \in Statements /\ proc[p].file \in Files
        /\ UNCHANGED <<calm, faulted, orphans>>
        /\ done' = done \cup {Statement(p)}
        /\ proc[p].at \in {"table", "apply", "record"}
    BY <1>3 DEF Commit, Executing, TypeOK, Statement, Statements
  <2>2. done' \subseteq Statements /\ done \subseteq done'
    BY <2>1 DEF TypeOK
  <2>3. InTurn(Statement(p))
    <3>1. CASE proc[p].at = "table"
      BY <3>1, TableInTurn
    <3>2. CASE proc[p].at \in {"apply", "record"}
      BY <3>2 DEF ProcsInTurn
    <3> QED
      BY <2>1, <3>1, <3>2
  <2>4. \A s \in done' \ done : InTurn(s)
    <3> SUFFICES ASSUME NEW s \in done' \ done PROVE InTurn(s)
      OBVIOUS
    <3>1. s = Statement(p)
      BY <2>1
    <3> QED
      BY <2>3, <3>1
  <2>5. CASE proc[p].at = "table"
    <3>1. GoTo(p, "check", 1) /\ 1 \in Files
      BY <1>3, <2>5, MigrateAssumption DEF Commit, Files
    <3>2. proc'[p].at = "check" /\ proc'[p].file = 1
      BY <3>1, GoToState DEF TypeOK
    <3>3. InTurn(Statement(p))'
      BY <3>2, MigrateAssumption DEF InTurn, Before, Statement, Files
    <3> QED
      BY <2>1, <2>2, <2>4, <3>1, <3>2, <3>3, GoToState, ProcStep DEF TypeOK
  <2>6. CASE proc[p].at = "apply"
    <3>1. GoTo(p, "record", proc[p].file)
      BY <1>3, <2>6 DEF Commit
    <3>2. proc'[p].at = "record" /\ proc'[p].file = proc[p].file
      BY <2>1, <3>1, GoToState DEF TypeOK
    <3>3. InTurn(Statement(p))'
      BY <2>1, <2>2, <2>3, <2>6, <3>2 DEF InTurn, Before, Statement
    <3> QED
      BY <2>1, <2>2, <2>4, <3>1, <3>2, <3>3, GoToState, ProcStep DEF TypeOK
  <2>7. CASE proc[p].at = "record"
    <3>1. NextFile(p) /\ <<"record", proc[p].file>> \in done'
      BY <1>3, <2>1, <2>7 DEF Commit, Statement
    <3> QED
      BY <2>1, <2>2, <2>3, <2>4, <2>7, <3>1, NextFileInTurn, ProcStep DEF TypeOK
  <2> QED
    BY <2>1, <2>5, <2>6, <2>7
<1>4. ASSUME NEW p \in Procs, Conflict(p) \/ End(p) PROVE IInv'
  <2>1. GoDown(p) /\ UNCHANGED <<calm, faulted, done, orphans>>
    BY <1>4 DEF Conflict, End
  <2> QED
    BY <2>1, GoDownState, ProcStep DEF TypeOK
<1>5. ASSUME NEW p \in Procs, Fail(p) PROVE IInv'
  <2>1. GoDown(p) /\ calm' = calm /\ faulted' = TRUE /\ done' = done
    BY <1>5 DEF Fail
  <2>2. orphans' \subseteq Statements /\ \A s \in orphans' \ orphans : InTurn(s)
    <3>1. CASE Executing(p)
      <4>1. orphans' = orphans \cup {Statement(p)} /\ Statement(p) \in Statements
        BY <1>5, <3>1 DEF Fail, Executing
      <4>2. InTurn(Statement(p))
        <5>1. CASE proc[p].at = "table"
          BY <5>1, TableInTurn
        <5>2. CASE proc[p].at \in {"apply", "record"}
          BY <5>2 DEF ProcsInTurn
        <5> QED
          BY <3>1, <5>1, <5>2 DEF Executing, Statement, Statements
      <4>3. ASSUME NEW s \in orphans' \ orphans PROVE InTurn(s)
        <5>1. s = Statement(p)
          BY <4>1
        <5> QED
          BY <4>2, <5>1
      <4> QED
        BY <4>1, <4>3 DEF TypeOK
    <3>2. CASE ~Executing(p)
      BY <1>5, <3>2 DEF Fail, TypeOK
    <3> QED
      BY <3>1, <3>2
  <2> QED
    BY <2>1, <2>2, GoDownState, ProcStep DEF TypeOK
<1>6. ASSUME NEW s \in Statements, EndOrphan(s) PROVE IInv'
  <2>1. /\ s \in orphans /\ orphans' = orphans \ {s}
        /\ done' \in {done, done \cup {s}}
        /\ UNCHANGED <<calm, faulted, proc>>
    BY <1>6 DEF EndOrphan
  <2>2. done \subseteq done' /\ done' \subseteq Statements
    BY <2>1 DEF TypeOK
  <2>3. \A t \in done' \ done : InTurn(t)
    BY <2>1 DEF OrphansInTurn
  <2>4. TypeOK'
    BY <2>1, <2>2 DEF TypeOK
  <2>5. DoneInTurn'
    <3> SUFFICES ASSUME NEW f \in Files, <<"record", f>> \in done'
                 PROVE  InTurn(<<"record", f>>)'
      BY DEF DoneInTurn
    <3>1. InTurn(<<"record", f>>)
      BY <2>3 DEF DoneInTurn
    <3> QED
      BY <2>2, <3>1, TurnStays
  <2>6. OrphansInTurn'
    BY <2>1, <2>2 DEF OrphansInTurn, InTurn, Before
  <2>7. ProcsInTurn'
    BY <2>1, <2>2 DEF ProcsInTurn, InTurn, Before, Statement, Migrated
  <2> QED
    BY <2>4, <2>5, <2>6, <2>7
<1>7. CASE CalmDown \/ UNCHANGED migrateVars
  <2>1. UNCHANGED <<done, proc, orphans>> /\ calm' \in BOOLEAN /\ faulted' \in BOOLEAN
    BY <1>7 DEF CalmDown, migrateVars, TypeOK
  <2>2. TypeOK'
    BY <2>1 DEF TypeOK
  <2>3. DoneInTurn' /\ OrphansInTurn'
    BY <2>1 DEF DoneInTurn, OrphansInTurn, InTurn, Before
  <2>4. ProcsInTurn'
    BY <2>1 DEF ProcsInTurn, InTurn, Before, Statement, Migrated
  <2> QED
    BY <2>2, <2>3, <2>4
<1> QED
  BY <1>1, <1>u, <1>2, <1>3, <1>4, <1>5, <1>6, <1>7 DEF Next, MigrateStep

\* Every variable keeps its type, for any number of processes and files.
THEOREM TypeCorrect == Spec => []TypeOK
<1>1. IInv => TypeOK
  BY DEF IInv
<1> QED
  BY InitIInv, StepIInv, <1>1, PTL DEF Spec

\* Whoever migrates side by side, dies, and leaves statements behind: what is
\* recorded was applied, after everything before it was recorded.
THEOREM RecordsAreInOrder == Spec => []RecordedInOrder
<1>1. IInv => RecordedInOrder
  <2> SUFFICES ASSUME IInv, NEW f \in Files, <<"record", f>> \in done
               PROVE  /\ <<"apply", f>> \in done
                      /\ \A g \in 1..f : <<"record", g>> \in done
    BY DEF RecordedInOrder
  <2>1. <<"apply", f>> \in done /\ Before(f)
    BY DEF IInv, DoneInTurn, InTurn
  <2>2. \A g \in 1..f : g = f \/ (g \in Files /\ g < f)
    BY MigrateAssumption DEF Files
  <2> QED
    BY <2>1, <2>2 DEF Before
<1> QED
  BY InitIInv, StepIInv, <1>1, PTL DEF Spec

\* No process that has come through Migrate finds an incomplete schema.
THEOREM WhoIsUpHasSchema == Spec => []UpHasSchema
<1>1. IInv => UpHasSchema
  BY DEF IInv, ProcsInTurn, DoneInTurn, InTurn, Migrated, UpHasSchema
<1> QED
  BY InitIInv, StepIInv, <1>1, PTL DEF Spec

------------------------------------------------------------------------------
(***************************************************************************)
(* The migration implements the serial upgrade.  The commit of a file that *)
(* was not applied before is Apply, that of its record is Record, a check  *)
(* that ends the loop is Pass, an end is Leave; a statement executed once  *)
(* more is a stutter.                                                      *)
(***************************************************************************)

Applied  == {f \in Files : <<"apply", f>> \in done}
Recorded == {f \in Files : <<"record", f>> \in done}
Ups      == {p \in Procs : proc[p].at = "up"}

LEMMA CompleteIfMigrated == Migrated => Recorded = Files
  BY DEF Migrated, Recorded

LEMMA FileApplied ==
  ASSUME NEW f \in Files, f \notin Recorded, Before(f),
         Applied' = Applied \cup {f}, Recorded' = Recorded, Ups' = Ups
  PROVE  Upgrade!Next
<1>1. Upgrade!Apply(f)
  BY DEF Upgrade!Apply, Upgrade!IsNext, Upgrade!Versions, Files, Before,
         Applied, Recorded, Ups
<1> QED  BY <1>1 DEF Upgrade!Next, Upgrade!Versions, Files

LEMMA FileRecorded ==
  ASSUME NEW f \in Files, f \notin Recorded, f \in Applied, Before(f),
         Applied' = Applied, Recorded' = Recorded \cup {f},
         Ups' = Ups \/ \E p \in Procs : Ups' = Ups \cup {p} /\ Migrated'
  PROVE  Upgrade!Next
<1>1. Migrated' => Recorded' = Files
  BY DEF Migrated, Recorded
<1>2. Upgrade!Record(f)
  BY <1>1 DEF Upgrade!Record, Upgrade!IsNext, Upgrade!Complete, Upgrade!Versions, Files, Before,
         Applied, Recorded, Ups
<1> QED  BY <1>2 DEF Upgrade!Next, Upgrade!Versions, Files

LEMMA ProcessMoved ==
  ASSUME NEW p \in Procs, Applied' = Applied, Recorded' = Recorded,
         Ups' = Ups \ {p} \/ (Ups' = Ups \cup {p} /\ Migrated)
  PROVE  Upgrade!Next
<1>1. CASE Ups' = Ups \ {p}
  BY <1>1 DEF Upgrade!Next, Upgrade!Leave, Applied, Recorded, Ups
<1>2. CASE Ups' = Ups \cup {p} /\ Migrated
  <2>1. Upgrade!Pass(p)
    BY <1>2, CompleteIfMigrated
    DEF Upgrade!Pass, Upgrade!Complete, Upgrade!Versions, Files, Applied, Recorded, Ups
  <2> QED  BY <2>1 DEF Upgrade!Next
<1> QED  BY <1>1, <1>2

LEMMA SameUpgrade ==
  ASSUME Applied' = Applied, Recorded' = Recorded, Ups' = Ups
  PROVE  UNCHANGED Upgrade!upgradeVars
  BY DEF Upgrade!upgradeVars, Applied, Recorded, Ups

LEMMA SameDone ==
  ASSUME UNCHANGED done
  PROVE  Applied' = Applied /\ Recorded' = Recorded
  BY DEF Applied, Recorded

\* A process that moves alone changes who is up.
LEMMA UpsMove ==
  ASSUME NEW p \in Procs, \A q \in Procs \ {p} : proc'[q] = proc[q]
  PROVE  Ups' = IF proc'[p].at = "up" THEN Ups \cup {p} ELSE Ups \ {p}
  BY DEF Ups

\* The commit of a statement that is in its turn.
LEMMA CommitInTurn ==
  ASSUME IInv, IInv', NEW s \in Statements, InTurn(s), done' = done \cup {s},
         Ups' = Ups \/ (/\ s[1] = "record"
                        /\ \E p \in Procs : Ups' = Ups \cup {p} /\ Migrated'),
         s \in done => Ups' = Ups
  PROVE  [Upgrade!Next]_(Upgrade!upgradeVars)
<1>1. PICK f \in Files : s \in {<<"table", f>>, <<"apply", f>>, <<"record", f>>}
  BY MigrateAssumption DEF Statements, Files
<1>2. Before(f)
  BY <1>1 DEF InTurn
<1>3. CASE s = <<"table", f>>
  <2>1. Applied' = Applied /\ Recorded' = Recorded /\ Ups' = Ups
    BY <1>3 DEF Applied, Recorded
  <2> QED  BY <2>1, SameUpgrade
<1>4. CASE s = <<"apply", f>>
  <2>1. Applied' = Applied \cup {f} /\ Recorded' = Recorded /\ Ups' = Ups
    BY <1>4 DEF Applied, Recorded
  <2>2. CASE f \in Recorded
    <3>1. f \in Applied
      BY <2>2 DEF IInv, DoneInTurn, InTurn, Recorded, Applied
    <3> QED  BY <2>1, <3>1, SameUpgrade
  <2>3. CASE f \notin Recorded
    BY <1>2, <2>1, <2>3, FileApplied
  <2> QED  BY <2>2, <2>3
<1>5. CASE s = <<"record", f>>
  <2>1. Applied' = Applied /\ Recorded' = Recorded \cup {f} /\ f \in Applied
    BY <1>5 DEF Applied, Recorded, InTurn
  <2>2. CASE f \in Recorded
    <3>1. s \in done /\ Recorded' = Recorded
      BY <1>5, <2>1, <2>2 DEF Recorded
    <3> QED  BY <2>1, <3>1, SameUpgrade
  <2>3. CASE f \notin Recorded
    BY <1>2, <2>1, <2>3, FileRecorded
  <2> QED  BY <2>2, <2>3
<1> QED  BY <1>1, <1>3, <1>4, <1>5

\* Whatever process p does without a commit.
LEMMA MoveRefines ==
  ASSUME IInv', NEW p \in Procs, UNCHANGED done,
         \A q \in Procs \ {p} : proc'[q] = proc[q]
  PROVE  Upgrade!Next
<1>1. proc'[p].at = "up" => Migrated
  BY DEF IInv, ProcsInTurn, Migrated
<1> QED  BY <1>1, UpsMove, SameDone, ProcessMoved

LEMMA CommitRefines ==
  ASSUME IInv, IInv', NEW p \in Procs, Commit(p)
  PROVE  [Upgrade!Next]_(Upgrade!upgradeVars)
<1>1. /\ Statement(p) \in Statements /\ done' = done \cup {Statement(p)}
      /\ proc[p].at = "record" => Statement(p) \notin done
      /\ proc[p].at \in {"table", "apply", "record"} /\ proc[p].file \in Files
  BY DEF Commit, Executing, IInv, TypeOK, Statement, Statements
<1>2. InTurn(Statement(p))
  BY <1>1, TableInTurn DEF IInv, ProcsInTurn
<1>3. CASE proc[p].at = "record"
  <2>1. p \notin Ups /\ Statement(p)[1] = "record" /\ Statement(p) \notin done
    BY <1>1, <1>3 DEF Ups, Statement
  <2>2. \A q \in Procs \ {p} : proc'[q] = proc[q]
    <3>1. NextFile(p)
      BY <1>3 DEF Commit
    <3> QED  BY <3>1 DEF NextFile, GoTo, IInv, TypeOK
  <2>3. Ups' = IF proc'[p].at = "up" THEN Ups \cup {p} ELSE Ups \ {p}
    BY <2>2, UpsMove
  <2>4. proc'[p].at = "up" => Migrated'
    BY DEF IInv, ProcsInTurn
  <2>5. Ups' = Ups \/ (Ups' = Ups \cup {p} /\ Migrated')
    BY <2>1, <2>3, <2>4
  <2> QED  BY <1>1, <1>2, <2>1, <2>5, CommitInTurn
<1>4. CASE proc[p].at # "record"
  <2>1. \E at \in {"check", "record"}, f \in Files : GoTo(p, at, f)
    <3>1. CASE proc[p].at = "table"
      BY <3>1, MigrateAssumption DEF Commit, Files
    <3>2. CASE proc[p].at = "apply"
      BY <1>1, <3>2 DEF Commit
    <3> QED  BY <1>1, <1>4, <3>1, <3>2
  <2>2. PICK at \in {"check", "record"}, f \in Files : GoTo(p, at, f)
    BY <2>1
  <2>3. proc'[p].at = at /\ \A q \in Procs \ {p} : proc'[q] = proc[q]
    BY <2>2, GoToState DEF IInv, TypeOK, Places
  <2>4. Ups' = Ups \ {p}
    BY <2>3, UpsMove
  <2>5. p \notin Ups
    BY <1>1 DEF Ups
  <2>6. Ups' = Ups
    BY <2>4, <2>5
  <2> QED  BY <1>1, <1>2, <2>6, CommitInTurn
<1> QED  BY <1>3, <1>4

LEMMA StepRefines ==
  ASSUME IInv, IInv', [Next]_migrateVars
  PROVE  [Upgrade!Next]_(Upgrade!upgradeVars)
<1>1. ASSUME NEW p \in Procs,
             \/ Start(p) \/ StartUnmigrated(p)
             \/ Check(p) \/ Conflict(p) \/ End(p) \/ Fail(p)
      PROVE  Upgrade!Next
  <2>1. UNCHANGED done
    BY <1>1 DEF Start, StartUnmigrated, Check, Conflict, End, Fail
  <2>2. \A q \in Procs \ {p} : proc'[q] = proc[q]
    BY <1>1
    DEF Start, StartUnmigrated, Check, Conflict, End, Fail, NextFile, GoTo, GoDown, IInv, TypeOK
  <2> QED  BY <2>1, <2>2, MoveRefines
<1>2. ASSUME NEW s \in Statements, EndOrphan(s)
      PROVE  [Upgrade!Next]_(Upgrade!upgradeVars)
  <2>1. InTurn(s) /\ done' \in {done, done \cup {s}} /\ Ups' = Ups
    BY <1>2 DEF EndOrphan, IInv, OrphansInTurn, Ups
  <2>2. CASE done' = done
    BY <2>1, <2>2, SameDone, SameUpgrade
  <2>3. CASE done' = done \cup {s}
    BY <2>1, <2>3, CommitInTurn
  <2> QED  BY <2>1, <2>2, <2>3
<1>3. CASE CalmDown \/ UNCHANGED migrateVars
  <2>1. UNCHANGED done /\ Ups' = Ups
    BY <1>3 DEF CalmDown, migrateVars, Ups
  <2> QED  BY <2>1, SameDone, SameUpgrade
<1> QED  BY <1>1, <1>2, <1>3, CommitRefines DEF Next, MigrateStep

LEMMA InitRefines == Init => Upgrade!Init
  BY DEF Init, Down, Upgrade!Init

\* However many processes migrate together, fail and leave statements behind,
\* the schema goes through its versions as under one serial upgrade, and who
\* gets past Migrate finds the last one.
THEOREM MigratesSerially == Spec => ImplementsSerialUpgrade
<1>1. IInv /\ IInv' /\ [Next]_migrateVars => [Upgrade!Next]_(Upgrade!upgradeVars)
  BY StepRefines
<1> QED
  BY <1>1, InitIInv, StepIInv, InitRefines, PTL
  DEF Spec, ImplementsSerialUpgrade, Upgrade!Spec

==============================================================================
