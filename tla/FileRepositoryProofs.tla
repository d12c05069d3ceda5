------------------------ MODULE FileRepositoryProofs ------------------------
(***************************************************************************)
(* What FileRepository's run checks on one key with two values, proved for *)
(* any keys, values and demo users and any of the failures.                *)
(***************************************************************************)
EXTENDS FileRepository, TLAPS

-----------------------------------------------------------------------------
(* The inductive invariant *)

(* A call that runs would still change what callers see, and was begun by  *)
(* the boot while the boot runs.                                           *)
JobIsLive ==
  job # NoJob =>
    /\ process # "down"
    /\ Changes(job.op, memory[Target], job.row)
    /\ process = "seeding" =>
         \E u \in toSeed : job.op = "UpsertUser" /\ job.row = <<u, DemoValue>>

(* How far a call is with its file.                                        *)
JobAndFile ==
  job # NoJob =>
    /\ job.stage \in {"stored", "filled"} => disk[Target] = File("whole", NewRows)
    /\ renames => job.stage \in {"begun", "written", "stored"}

(* Where renaming works, files differ from memory only between the rename  *)
(* and the answer.                                                         *)
FilesExact ==
  renames =>
    \A t \in Tables :
      /\ disk[t].form \in {"missing", "whole"}
      /\ process # "down" => disk[t].rows = memory[t] \/ (At("stored") /\ t = Target)

(* What a boot has written so far.                                         *)
SeededSoFar ==
  /\ process = "seeding" => \A u \in DemoUsers \ toSeed : HasKey(memory["users"], u)
  /\ DemoUsersReady

(* What a running call would make of its table is among the unconfirmed,   *)
(* and no unconfirmed call takes a bid or an order away.                   *)
Unconfirmed ==
  /\ job # NoJob => NewRows \in unconfirmed[Target]
  /\ \A t \in {"bids", "orders"} : \A rows \in unconfirmed[t] : memory[t] \subseteq rows

IInv ==
  /\ RepositoryTypeOK /\ JobIsLive /\ JobAndFile /\ FilesExact /\ SeededSoFar
  /\ Unconfirmed /\ FilesCurrent

-----------------------------------------------------------------------------
(* The operators of RepositoryTables *)

LEMMA TableOfTables ==
  ASSUME NEW op \in Operations
  PROVE  TableOf(op) \in Tables
BY DEF Operations, TableOf, Tables

LEMMA AfterType ==
  ASSUME NEW op, NEW rows \in SUBSET Rows, NEW row \in Rows
  PROVE  After(op, rows, row) \in SUBSET Rows
BY DEF After

(* A call never makes a key disappear, and its own is there afterwards.    *)
LEMMA AfterKeys ==
  ASSUME NEW op, NEW rows, NEW row
  PROVE  /\ HasKey(After(op, rows, row), row[1])
         /\ \A key : HasKey(rows, key) => HasKey(After(op, rows, row), key)
BY DEF After, HasKey

(* Bids and orders that are there stay there.                              *)
LEMMA AfterTrades ==
  ASSUME NEW op \in Operations, NEW rows, NEW row,
         TableOf(op) \in {"bids", "orders"}, Changes(op, rows, row)
  PROVE  rows \subseteq After(op, rows, row)
BY DEF Operations, TableOf, Changes, HasKey, After

-----------------------------------------------------------------------------
(* Types *)

LEMMA JobType ==
  ASSUME RepositoryTypeOK, job # NoJob
  PROVE  /\ job \in [op : Operations, row : Rows, stage : Stages]
         /\ job.op \in Operations /\ job.row \in Rows /\ job.stage \in Stages
         /\ Target \in Tables
         /\ memory[Target] \in SUBSET Rows
         /\ NewRows \in SUBSET Rows
<1>1. /\ job \in [op : Operations, row : Rows, stage : Stages]
      /\ job.op \in Operations /\ job.row \in Rows /\ job.stage \in Stages
  BY DEF RepositoryTypeOK
<1>2. Target \in Tables
  BY <1>1, TableOfTables DEF Target
<1>3. memory[Target] \in SUBSET Rows
  BY <1>2 DEF RepositoryTypeOK
<1>4. NewRows \in SUBSET Rows
  BY <1>1, <1>3, AfterType DEF NewRows
<1> QED BY <1>1, <1>2, <1>3, <1>4

LEMMA RunningIsSome ==
  ASSUME NEW op \in Operations, NEW row, NEW s
  PROVE  [op |-> op, row |-> row, stage |-> s] # NoJob
BY DEF Operations, NoJob

Forms == {Missing, Empty, Torn} \cup [form : {"whole"}, rows : SUBSET Rows]

LEMMA BeginKeepsType ==
  ASSUME RepositoryTypeOK, NEW op \in Operations, NEW row \in Rows, Begin(op, row)
  PROVE  RepositoryTypeOK'
<1>1. unconfirmed' \in [Tables -> SUBSET SUBSET Rows]
  <2>1. memory[TableOf(op)] \in SUBSET Rows
    BY TableOfTables DEF RepositoryTypeOK
  <2>2. After(op, memory[TableOf(op)], row) \in SUBSET Rows
    BY <2>1, AfterType
  <2> QED BY <2>2 DEF RepositoryTypeOK, Begin
<1> QED BY <1>1 DEF RepositoryTypeOK, Begin, Stages

LEMMA SaveKeepsType ==
  ASSUME RepositoryTypeOK, NEW from, NEW to \in Stages, NEW file \in Forms,
         Save(from, to, file)
  PROVE  RepositoryTypeOK'
<1>1. job # NoJob
  BY DEF Save, At
<1>2. job' \in [op : Operations, row : Rows, stage : Stages]
  BY <1>1, JobType DEF Save
<1>3. disk' \in [Tables -> Forms]
  BY <1>1, JobType DEF Save, RepositoryTypeOK, Forms
<1> QED BY <1>2, <1>3 DEF Save, RepositoryTypeOK, Forms

LEMMA FileSteps ==
  ASSUME RepositoryTypeOK,
         WriteTemporary \/ Rename \/ Truncate \/ Fill \/ Complete
  PROVE  /\ job # NoJob
         /\ \E from, to \in Stages, file \in Forms : Save(from, to, file)
<1>1. job # NoJob
  BY DEF WriteTemporary, Rename, Truncate, Fill, Complete, Save, At
<1>2. disk[Target] \in Forms /\ File("whole", NewRows) \in Forms
  BY <1>1, JobType DEF RepositoryTypeOK, Forms, File
<1> QED BY <1>1, <1>2
        DEF WriteTemporary, Rename, Truncate, Fill, Complete, Stages, Forms

LEMMA AnswerKeepsType ==
  ASSUME RepositoryTypeOK, NEW word \in {"success", "error"}, job # NoJob,
         Answer(word), Seeded(word), UNCHANGED <<renames, disk>>,
         unconfirmed' \in {unconfirmed, [unconfirmed EXCEPT ![Target] = {}]}
  PROVE  RepositoryTypeOK'
<1>1. memory' \in [Tables -> SUBSET Rows]
  BY JobType DEF Answer, RepositoryTypeOK
<1>2. toSeed' \subseteq DemoUsers
  BY DEF Seeded, RepositoryTypeOK
<1>3. process' \in {"down", "seeding", "up"}
  BY DEF Seeded, RepositoryTypeOK
<1>4. unconfirmed' \in [Tables -> SUBSET SUBSET Rows]
  BY JobType DEF RepositoryTypeOK
<1> QED BY <1>1, <1>2, <1>3, <1>4 DEF Answer, RepositoryTypeOK

LEMMA StepCases ==
  ASSUME RepositoryTypeOK, [Next]_vars
  PROVE  \/ UNCHANGED vars
         \/ \E op \in Operations, row \in Rows :
              /\ Begin(op, row)
              /\ process = "up" \/ process = "seeding"
              /\ process = "seeding" =>
                   \E u \in toSeed : op = "UpsertUser" /\ row = <<u, DemoValue>>
         \/ WriteTemporary \/ Rename \/ Truncate \/ Fill \/ Complete
         \/ Succeed \/ Fail \/ Crash \/ Boot
<1>1. CASE Request
  BY <1>1, RepositoryAssumption DEF Request
<1>2. CASE Seed
  BY <1>2, RepositoryAssumption DEF Seed, RepositoryTypeOK, Rows, Operations
<1> QED BY <1>1, <1>2 DEF Next

LEMMA TypeInit == ASSUME Init PROVE RepositoryTypeOK
  BY DEF Init, RepositoryTypeOK

LEMMA TypeKeeps ==
  ASSUME RepositoryTypeOK, [Next]_vars
  PROVE  RepositoryTypeOK'
<1>1. CASE UNCHANGED vars
  BY <1>1 DEF RepositoryTypeOK, vars
<1>2. ASSUME NEW op \in Operations, NEW row \in Rows, Begin(op, row)
      PROVE  RepositoryTypeOK'
  BY <1>2, BeginKeepsType
<1>3. CASE WriteTemporary \/ Rename \/ Truncate \/ Fill \/ Complete
  BY <1>3, FileSteps, SaveKeepsType
<1>4. CASE Succeed
  BY <1>4, AnswerKeepsType DEF Succeed, At
<1>5. CASE Fail
  BY <1>5, AnswerKeepsType DEF Fail, At
<1>6. CASE Crash
  BY <1>6 DEF Crash, RepositoryTypeOK
<1>7. CASE Boot
  <2>1. \A t \in Tables : Loaded(t) \in SUBSET Rows
    BY DEF Loaded, RepositoryTypeOK, Missing, Empty, Torn, File
  <2> QED BY <1>7, <2>1 DEF Boot, RepositoryTypeOK
<1> QED BY StepCases, <1>1, <1>2, <1>3, <1>4, <1>5, <1>6, <1>7

(* All variables keep their types; a file is missing, empty, half written  *)
(* or a whole table (file.go:275-324).                                     *)
THEOREM RepositoryTypeCorrect == Spec => []RepositoryTypeOK
<1>1. Init => RepositoryTypeOK
  BY TypeInit
<1>2. RepositoryTypeOK /\ [Next]_vars => RepositoryTypeOK'
  BY TypeKeeps
<1> QED BY <1>1, <1>2, PTL DEF Spec

-----------------------------------------------------------------------------
(* The invariant *)

LEMMA BeginKeeps ==
  ASSUME IInv, NEW op \in Operations, NEW row \in Rows, Begin(op, row),
         process = "up" \/ process = "seeding",
         process = "seeding" => \E u \in toSeed : op = "UpsertUser" /\ row = <<u, DemoValue>>
  PROVE  IInv'
<1>1. RepositoryTypeOK'
  BY BeginKeepsType DEF IInv
<1>2. /\ job = NoJob
      /\ job' = [op |-> op, row |-> row, stage |-> "begun"]
      /\ UNCHANGED <<renames, process, toSeed, memory, disk>>
      /\ Changes(op, memory[TableOf(op)], row)
  BY DEF Begin
<1>3. JobIsLive'
  BY <1>2 DEF JobIsLive, Target
<1>4. JobAndFile'
  BY <1>2 DEF JobAndFile
<1>5. FilesExact'
  BY <1>2 DEF IInv, FilesExact, At
<1>6. SeededSoFar'
  BY <1>2 DEF IInv, SeededSoFar, DemoUsersReady
<1>7. /\ TableOf(op) \in Tables
      /\ unconfirmed' = [unconfirmed EXCEPT ![TableOf(op)] =
                           @ \cup {After(op, memory[TableOf(op)], row)}]
      /\ unconfirmed \in [Tables -> SUBSET SUBSET Rows]
  BY TableOfTables DEF Begin, IInv, RepositoryTypeOK
<1>8. FilesCurrent'
  BY <1>2, <1>7 DEF IInv, FilesCurrent, AsTold
<1>9. Unconfirmed'
  <2>1. Target' = TableOf(op) /\ NewRows' = After(op, memory[TableOf(op)], row)
    BY <1>2 DEF Target, NewRows
  <2>2. NewRows' \in unconfirmed'[Target']
    BY <1>7, <2>1
  <2>3. ASSUME NEW t \in {"bids", "orders"}, NEW rows \in unconfirmed'[t]
        PROVE  memory'[t] \subseteq rows
    <3>1. t \in Tables
      BY DEF Tables
    <3>2. CASE rows \in unconfirmed[t]
      BY <1>2, <3>2 DEF IInv, Unconfirmed
    <3>3. CASE rows \notin unconfirmed[t]
      <4>1. t = TableOf(op) /\ rows = After(op, memory[t], row)
        BY <1>7, <2>3, <3>1, <3>3
      <4> QED BY <1>2, <4>1, AfterTrades
    <3> QED BY <3>2, <3>3
  <2> QED BY <2>2, <2>3 DEF Unconfirmed
<1> QED BY <1>1, <1>3, <1>4, <1>5, <1>6, <1>8, <1>9 DEF IInv

LEMMA SaveKeeps ==
  ASSUME IInv, WriteTemporary \/ Rename \/ Truncate \/ Fill \/ Complete
  PROVE  IInv'
<1>1. RepositoryTypeOK
  BY DEF IInv
<1>2. PICK from, to \in Stages, file \in Forms : Save(from, to, file)
  BY <1>1, FileSteps
<1>3. RepositoryTypeOK'
  BY <1>1, <1>2, SaveKeepsType
<1>4. /\ job # NoJob
      /\ job.op \in Operations /\ job.row \in Rows
      /\ job' = [op |-> job.op, row |-> job.row, stage |-> job'.stage]
      /\ job' # NoJob
      /\ Target' = Target
      /\ UNCHANGED <<renames, process, toSeed, memory, answer, unconfirmed>>
  BY <1>1, <1>2, JobType, RunningIsSome DEF Save, At, Target
<1>5. NewRows' = NewRows
  BY <1>4 DEF NewRows
<1>6. JobIsLive'
  BY <1>4 DEF IInv, JobIsLive
<1>7. /\ disk' = [disk EXCEPT ![Target] = disk'[Target]]
      /\ Target \in Tables
  BY <1>1, <1>2, <1>4, JobType DEF Save, RepositoryTypeOK
<1>8. /\ job'.stage \in {"stored", "filled"} => disk'[Target] = File("whole", NewRows)
      /\ renames => job'.stage \in {"written", "stored"}
      /\ renames /\ job'.stage = "written" => disk'[Target] = disk[Target] /\ ~At("stored")
      /\ disk'[Target] \in {disk[Target], Empty, Torn, File("whole", NewRows)}
  <2>1. CASE WriteTemporary
    BY <1>1, <1>4, <1>7, <2>1, JobType
       DEF WriteTemporary, Save, At, RepositoryTypeOK
  <2>2. CASE Rename
    BY <1>1, <1>4, <1>7, <2>2, JobType DEF Rename, Save, RepositoryTypeOK
  <2>3. CASE Truncate
    BY <1>1, <1>4, <1>7, <2>3, JobType DEF Truncate, Save, RepositoryTypeOK
  <2>4. CASE Fill
    BY <1>1, <1>4, <1>7, <2>4, JobType DEF IInv, JobAndFile, Fill, Save, At, RepositoryTypeOK
  <2>5. CASE Complete
    BY <1>1, <1>4, <1>7, <2>5, JobType
       DEF IInv, JobAndFile, Complete, Save, At, RepositoryTypeOK
  <2> QED BY <2>1, <2>2, <2>3, <2>4, <2>5
<1>9. JobAndFile'
  BY <1>4, <1>5, <1>8 DEF JobAndFile
<1>10. FilesExact'
  <2> SUFFICES ASSUME renames, NEW t \in Tables
               PROVE  /\ disk'[t].form \in {"missing", "whole"}
                      /\ process # "down" =>
                           disk'[t].rows = memory[t] \/ (At("stored")' /\ t = Target)
    BY <1>4 DEF FilesExact
  <2>1. CASE t # Target
    BY <1>1, <1>7, <2>1 DEF IInv, FilesExact, RepositoryTypeOK
  <2>2. CASE t = Target /\ job'.stage = "stored"
    BY <1>4, <1>8, <2>2 DEF At, File
  <2>3. CASE t = Target /\ job'.stage = "written"
    BY <1>8, <2>3 DEF IInv, FilesExact
  <2> QED BY <1>8, <2>1, <2>2, <2>3
<1>11. SeededSoFar'
  BY <1>4 DEF IInv, SeededSoFar, DemoUsersReady
<1>12. FilesCurrent'
  <2> SUFFICES ASSUME NEW t \in Tables, disk'[t].form \in {"missing", "whole"}
               PROVE  AsTold(t, disk'[t].rows)
    BY <1>4 DEF FilesCurrent, AsTold
  <2>1. CASE disk'[t] = disk[t]
    BY <2>1 DEF IInv, FilesCurrent
  <2>2. CASE t = Target /\ disk'[t] = File("whole", NewRows)
    <3>1. NewRows \in unconfirmed[t]
      BY <1>4, <2>2 DEF IInv, Unconfirmed
    <3> QED BY <2>2, <3>1 DEF AsTold, File
  <2>3. CASE t = Target /\ disk'[t] \in {Empty, Torn}
    BY <2>3 DEF Empty, Torn, File
  <2> QED BY <1>1, <1>7, <1>8, <2>1, <2>2, <2>3 DEF RepositoryTypeOK
<1>13. Unconfirmed'
  BY <1>4, <1>5 DEF IInv, Unconfirmed
<1> QED BY <1>3, <1>6, <1>9, <1>10, <1>11, <1>12, <1>13 DEF IInv

LEMMA SucceedKeeps ==
  ASSUME IInv, Succeed
  PROVE  IInv'
<1>1. RepositoryTypeOK /\ job # NoJob /\ job.stage \in {"stored", "filled"}
  BY DEF IInv, Succeed, At
<1>2. RepositoryTypeOK'
  BY <1>1, AnswerKeepsType DEF Succeed
<1>3. /\ memory' = [memory EXCEPT ![Target] = NewRows]
      /\ job' = NoJob
      /\ UNCHANGED <<renames, disk>>
      /\ Target \in Tables
      /\ memory'[Target] = NewRows
      /\ \A t \in Tables \ {Target} : memory'[t] = memory[t]
      /\ unconfirmed'[Target] = {}
      /\ \A t \in Tables \ {Target} : unconfirmed'[t] = unconfirmed[t]
  BY <1>1, JobType DEF Succeed, Answer, RepositoryTypeOK
<1>4. JobIsLive' /\ JobAndFile'
  BY <1>3 DEF JobIsLive, JobAndFile
<1>5. disk[Target].form = "whole" /\ disk[Target].rows = NewRows
  BY <1>1 DEF IInv, JobAndFile, File
<1>6. process' # "down" => process # "down"
  BY <1>1 DEF IInv, JobIsLive
<1>7. FilesExact'
  BY <1>3, <1>5, <1>6 DEF IInv, FilesExact
<1>8. FilesCurrent'
  <2> SUFFICES ASSUME NEW t \in Tables, disk[t].form \in {"missing", "whole"}
               PROVE  AsTold(t, disk[t].rows)'
    BY <1>3 DEF FilesCurrent
  <2>1. CASE t = Target
    BY <1>3, <1>5, <2>1 DEF AsTold
  <2>2. CASE t # Target
    BY <1>3, <2>2 DEF IInv, FilesCurrent, AsTold
  <2> QED BY <2>1, <2>2
<1>9. SeededSoFar'
  <2>1. \A key : HasKey(memory["users"], key) => HasKey(memory'["users"], key)
    BY <1>3, AfterKeys DEF NewRows, Tables
  <2>2. CASE process = "up"
    BY <2>1, <2>2 DEF IInv, SeededSoFar, DemoUsersReady, Succeed, Seeded
  <2>3. CASE process = "seeding"
    <3>1. PICK u \in toSeed : job.op = "UpsertUser" /\ job.row = <<u, DemoValue>>
      BY <1>1, <2>3 DEF IInv, JobIsLive
    <3>2. Target = "users" /\ job.row[1] = u
      BY <3>1 DEF Target, TableOf
    <3>3. HasKey(memory'["users"], u)
      BY <1>3, <3>2, AfterKeys DEF NewRows
    <3>4. toSeed' = toSeed \ {u}
      BY <2>3, <3>2 DEF Succeed, Seeded
    <3>5. \A w \in DemoUsers \ toSeed' : HasKey(memory'["users"], w)
      BY <2>1, <2>3, <3>3, <3>4 DEF IInv, SeededSoFar
    <3>6. process' = "up" => toSeed' = {}
      BY <2>3 DEF Succeed, Seeded
    <3> QED BY <3>5, <3>6 DEF SeededSoFar, DemoUsersReady
  <2> QED BY <1>1, <2>2, <2>3 DEF IInv, JobIsLive, RepositoryTypeOK
<1>10. Unconfirmed'
  <2> SUFFICES ASSUME NEW t \in {"bids", "orders"}, NEW rows \in unconfirmed'[t]
               PROVE  memory'[t] \subseteq rows
    BY <1>3 DEF Unconfirmed
  <2>1. t \in Tables /\ t # Target
    BY <1>3 DEF Tables
  <2> QED BY <1>3, <2>1 DEF IInv, Unconfirmed
<1> QED BY <1>2, <1>4, <1>7, <1>8, <1>9, <1>10 DEF IInv

LEMMA FailKeeps ==
  ASSUME IInv, Fail
  PROVE  IInv'
<1>1. RepositoryTypeOK /\ job # NoJob
  BY DEF IInv, Fail, At
<1>2. RepositoryTypeOK'
  BY <1>1, AnswerKeepsType DEF Fail
<1>3. /\ job' = NoJob
      /\ UNCHANGED <<renames, disk, memory, unconfirmed>>
      /\ renames => job.stage = "begun"
  BY DEF Fail, Answer, At
<1>4. JobIsLive' /\ JobAndFile'
  BY <1>3 DEF JobIsLive, JobAndFile
<1>5. FilesExact'
  BY <1>1, <1>3 DEF IInv, FilesExact, JobIsLive, At
<1>6. FilesCurrent'
  BY <1>3 DEF IInv, FilesCurrent, AsTold
<1>7. process \in {"seeding", "up"}
  BY <1>1 DEF IInv, JobIsLive, RepositoryTypeOK
<1>8. IF process = "up" THEN process' = "up" ELSE process' = "down"
  BY <1>7 DEF Fail, Seeded
<1>9. SeededSoFar'
  BY <1>3, <1>7, <1>8 DEF IInv, SeededSoFar, DemoUsersReady
<1>10. Unconfirmed'
  BY <1>3 DEF IInv, Unconfirmed
<1> QED BY <1>2, <1>4, <1>5, <1>6, <1>9, <1>10 DEF IInv

LEMMA BootKeeps ==
  ASSUME IInv, Boot
  PROVE  IInv'
<1>1. RepositoryTypeOK'
  BY TypeKeeps DEF IInv, Next
<1>2. job = NoJob /\ job' = NoJob
  BY DEF IInv, JobIsLive, Boot
<1>3. /\ UNCHANGED <<renames, disk>>
      /\ \A t \in Tables : memory'[t] = disk[t].rows
  BY DEF Boot, Loaded
<1>4. JobIsLive' /\ JobAndFile'
  BY <1>2 DEF JobIsLive, JobAndFile
<1>5. FilesExact'
  BY <1>3 DEF IInv, FilesExact
<1>6. FilesCurrent'
  BY <1>3 DEF FilesCurrent, AsTold
<1>7. SeededSoFar'
  BY DEF SeededSoFar, DemoUsersReady, Boot
<1>8. Unconfirmed'
  BY <1>2 DEF Unconfirmed, Boot, Tables
<1> QED BY <1>1, <1>4, <1>5, <1>6, <1>7, <1>8 DEF IInv

LEMMA InvKeeps ==
  ASSUME IInv, [Next]_vars
  PROVE  IInv'
<1>1. RepositoryTypeOK /\ RepositoryTypeOK'
  BY TypeKeeps DEF IInv
<1>2. CASE UNCHANGED vars
  BY <1>1, <1>2 DEF vars, IInv, JobIsLive, JobAndFile, FilesExact, SeededSoFar, DemoUsersReady,
        Unconfirmed, FilesCurrent, AsTold, At, Target, NewRows
<1>3. CASE Crash
  <2>1. process' = "down" /\ job' = NoJob /\ UNCHANGED <<renames, memory, disk, unconfirmed>>
    BY <1>3 DEF Crash
  <2> QED BY <1>1, <2>1 DEF IInv, JobIsLive, JobAndFile, FilesExact, SeededSoFar,
          DemoUsersReady, Unconfirmed, FilesCurrent, AsTold
<1> QED BY <1>1, StepCases, <1>2, <1>3, BeginKeeps, SaveKeeps, SucceedKeeps, FailKeeps, BootKeeps

LEMMA InvInit == ASSUME Init PROVE IInv
<1>1. RepositoryTypeOK
  BY TypeInit
<1>2. JobIsLive /\ JobAndFile /\ SeededSoFar
  BY DEF Init, JobIsLive, JobAndFile, SeededSoFar, DemoUsersReady
<1>3. FilesExact /\ Unconfirmed /\ FilesCurrent
  BY DEF Init, FilesExact, Unconfirmed, FilesCurrent, AsTold, Missing, File, Tables
<1> QED BY <1>1, <1>2, <1>3 DEF IInv

LEMMA Invariant == Spec => []IInv
<1>1. Init => IInv
  BY InvInit
<1>2. IInv /\ [Next]_vars => IInv'
  BY InvKeeps
<1> QED BY <1>1, <1>2, PTL DEF Spec

(* A readable file never lacks a change that was answered with success,    *)
(* and has at most one more, of a call that was told of no success,        *)
(* wherever the process stopped, also where files are written in place     *)
(* (file.go:300-324).                                                      *)
THEOREM FilesStayCurrent == Spec => []FilesCurrent
<1>1. IInv => FilesCurrent
  BY DEF IInv
<1> QED BY <1>1, Invariant, PTL

(* The server answers only with all its demo users there (auth.go:69-92).  *)
THEOREM DemoUsersAreReady == Spec => []DemoUsersReady
<1>1. IInv => DemoUsersReady
  BY DEF IInv, SeededSoFar
<1> QED BY <1>1, Invariant, PTL

-----------------------------------------------------------------------------
(* What restarts bring back *)

LEMMA OnlyBootRaises ==
  ASSUME IInv, [Next]_vars, process = "down"
  PROVE  Boot \/ UNCHANGED <<process, memory>>
<1>1. job = NoJob
  BY DEF IInv, JobIsLive
<1> QED BY <1>1 DEF Next, Request, Seed, WriteTemporary, Rename, Truncate, Fill, Complete,
        Save, Succeed, Fail, Crash, At, vars

(* Where renaming works, a restart undoes no change that was answered with *)
(* success and adds at most one of a call that was told of none, for any   *)
(* number of records (file.go:45-73 and 300-324).                          *)
THEOREM NothingIsLost == Spec => NothingLost
<1>1. ASSUME IInv, [Next]_vars, renames, process = "down", process' # "down",
             NEW t \in Tables
      PROVE  AsTold(t, memory'[t])
  <2>1. memory'[t] = disk[t].rows
    BY <1>1, OnlyBootRaises DEF Boot, Loaded
  <2> QED BY <1>1, <2>1 DEF IInv, FilesExact, FilesCurrent
<1>2. IInv /\ [Next]_vars =>
        [renames /\ process = "down" /\ process' # "down" =>
           \A t \in Tables : AsTold(t, memory'[t])]_vars
  BY <1>1
<1> QED BY <1>2, Invariant, PTL DEF Spec, NothingLost

LEMMA MemorySteps ==
  ASSUME IInv, [Next]_vars
  PROVE  Succeed \/ Boot \/ memory' = memory
BY DEF Next, Request, Seed, Begin, WriteTemporary, Rename, Truncate, Fill, Complete, Save,
       Fail, Answer, Crash, vars

(* Where renaming works, bids and orders stay, also over restarts (file.go:*)
(* 201-235).                                                               *)
THEOREM TradesStay == Spec => TradesKept
<1>1. ASSUME IInv, [Next]_vars, renames, NEW t \in {"bids", "orders"}
      PROVE  memory[t] \subseteq memory'[t]
  <2>1. t \in Tables
    BY DEF Tables
  <2>2. ASSUME Succeed
        PROVE  memory[t] \subseteq memory'[t]
    <3>1. RepositoryTypeOK /\ job # NoJob
      BY <1>1, <2>2 DEF IInv, Succeed, At
    <3>2. job.op \in Operations /\ Changes(job.op, memory[Target], job.row)
      BY <1>1, <3>1, JobType DEF IInv, JobIsLive
    <3>3. memory' = [memory EXCEPT ![Target] = NewRows]
      BY <2>2 DEF Succeed, Answer
    <3>4. CASE t = Target
      BY <2>1, <3>1, <3>2, <3>3, <3>4, AfterTrades DEF Target, NewRows, RepositoryTypeOK
    <3>5. CASE t # Target
      BY <2>1, <3>1, <3>3, <3>5 DEF RepositoryTypeOK
    <3> QED BY <3>4, <3>5
  <2>3. ASSUME Boot
        PROVE  memory[t] \subseteq memory'[t]
    <3>1. AsTold(t, memory'[t])
      BY <1>1, <2>1, <2>3 DEF Boot, Loaded, IInv, FilesExact, FilesCurrent
    <3>2. CASE memory'[t] \in unconfirmed[t]
      BY <1>1, <3>2 DEF IInv, Unconfirmed
    <3> QED BY <3>1, <3>2 DEF AsTold
  <2> QED BY <1>1, <2>2, <2>3, MemorySteps
<1>2. IInv /\ [Next]_vars =>
        [renames => \A t \in {"bids", "orders"} : memory[t] \subseteq memory'[t]]_vars
  BY <1>1
<1> QED BY <1>2, Invariant, PTL DEF Spec, TradesKept

-----------------------------------------------------------------------------
(* The contract *)

LEMMA SameOperators ==
  /\ \A op : Contract!TableOf(op) = TableOf(op)
  /\ \A op, rows, row : Contract!Changes(op, rows, row) <=> Changes(op, rows, row)
  /\ \A op, rows, row : Contract!After(op, rows, row) = After(op, rows, row)
  /\ Contract!Operations = Operations /\ Contract!Rows = Rows /\ Contract!Tables = Tables
BY DEF Contract!TableOf, TableOf, Contract!Changes, Changes, Contract!After, After,
       Contract!HasKey, HasKey, Contract!Operations, Operations, Contract!Rows, Rows,
       Contract!Tables, Tables

(* Where renaming is refused the contract sees nothing.                    *)
LEMMA NoContract ==
  ASSUME ~renames, ~renames'
  PROVE  UNCHANGED Contract!tableVars
BY DEF Contract!tableVars, StoredRows, CallOfJob, Told

LEMMA BeginAsks ==
  ASSUME IInv, renames, NEW op \in Operations, NEW row \in Rows, Begin(op, row),
         process # "down"
  PROVE  Contract!Ask(op, row)
<1>1. /\ job = NoJob
      /\ job' = [op |-> op, row |-> row, stage |-> "begun"]
      /\ job' # NoJob
      /\ UNCHANGED <<renames, memory, disk>>
      /\ Changes(op, memory[TableOf(op)], row)
      /\ answer' = "none"
  BY RunningIsSome DEF Begin
<1>2. CallOfJob = NoJob /\ CallOfJob' = [op |-> op, row |-> row]
  BY <1>1 DEF CallOfJob, At
<1>3. StoredRows[TableOf(op)] = memory[TableOf(op)]
  BY <1>1, TableOfTables DEF IInv, FilesExact, StoredRows, At
<1>4. StoredRows' = StoredRows /\ Told' = "none"
  BY <1>1 DEF StoredRows, Told
<1> QED BY <1>1, <1>2, <1>3, <1>4, SameOperators DEF Contract!Ask, Contract!NoCall, NoJob

LEMMA SaveStores ==
  ASSUME IInv, renames, WriteTemporary \/ Rename \/ Truncate \/ Fill \/ Complete
  PROVE  Contract!Store \/ UNCHANGED Contract!tableVars
<1>1. RepositoryTypeOK /\ job # NoJob /\ process # "down"
  BY FileSteps DEF IInv, JobIsLive
<1>2. job.stage \in {"begun", "written", "stored"}
  BY <1>1 DEF IInv, JobAndFile
<1>3. /\ job.op \in Operations /\ job.row \in Rows
      /\ job \in [op : Operations, row : Rows, stage : Stages]
      /\ Target \in Tables
  BY <1>1, JobType
<1>4. Told' = Told /\ renames' = renames
  BY DEF WriteTemporary, Rename, Truncate, Fill, Complete, Save, Told
<1>5. CASE WriteTemporary
  <2>1. /\ At("begun") /\ disk' = disk
        /\ job' = [op |-> job.op, row |-> job.row, stage |-> "written"]
        /\ job' # NoJob
    BY <1>1, <1>3, <1>5, RunningIsSome DEF WriteTemporary, Save, RepositoryTypeOK
  <2>2. CallOfJob' = CallOfJob
    BY <1>1, <1>4, <2>1 DEF CallOfJob, At
  <2>3. StoredRows' = StoredRows
    BY <1>4, <2>1 DEF StoredRows
  <2> QED BY <1>4, <2>2, <2>3 DEF Contract!tableVars
<1>6. CASE Rename
  <2>1. /\ At("written")
        /\ disk' = [disk EXCEPT ![Target] = File("whole", NewRows)]
        /\ job' = [op |-> job.op, row |-> job.row, stage |-> "stored"]
        /\ job' # NoJob
    BY <1>1, <1>3, <1>6, RunningIsSome DEF Rename, Save
  <2>2. CallOfJob = [op |-> job.op, row |-> job.row] /\ CallOfJob' = [op |-> "stored"]
    BY <1>1, <1>4, <2>1 DEF CallOfJob, At
  <2>3. StoredRows[Target] = memory[Target]
    BY <1>1, <1>3, <2>1 DEF IInv, FilesExact, StoredRows, At
  <2>4. StoredRows' = [StoredRows EXCEPT ![Target] = NewRows]
    BY <1>1, <1>3, <1>4, <2>1 DEF StoredRows, File, RepositoryTypeOK
  <2>5. StoredRows' = [StoredRows EXCEPT ![Contract!TableOf(job.op)] =
                                      Contract!After(job.op, @, job.row)]
    BY <2>3, <2>4, SameOperators DEF Target, NewRows
  <2> QED BY <1>3, <1>4, <2>2, <2>5, SameOperators DEF Contract!Store, Contract!Stored
<1>7. CASE Truncate \/ Fill \/ Complete
  BY <1>2, <1>7 DEF Truncate, Fill, Complete, Save, At
<1> QED BY <1>5, <1>6, <1>7

LEMMA SucceedConfirms ==
  ASSUME IInv, renames, Succeed
  PROVE  Contract!Confirm
<1>1. /\ At("stored") /\ job # NoJob
      /\ answer' = "success" /\ job' = NoJob /\ UNCHANGED <<renames, disk>>
  BY DEF IInv, JobAndFile, Succeed, Answer, At
<1>2. CallOfJob = [op |-> "stored"] /\ CallOfJob' = NoJob
  BY <1>1 DEF CallOfJob, At
<1>3. StoredRows' = StoredRows /\ Told' = "success"
  BY <1>1 DEF StoredRows, Told
<1> QED BY <1>2, <1>3 DEF Contract!Confirm, Contract!Stored, Contract!NoCall, NoJob

LEMMA FailRefuses ==
  ASSUME IInv, renames, Fail
  PROVE  Contract!Refuse
<1>1. /\ At("begun") /\ job # NoJob
      /\ answer' = "error" /\ job' = NoJob /\ UNCHANGED <<renames, disk>>
  BY DEF Fail, Answer, At
<1>2. job.op \in Operations
  BY <1>1, JobType DEF IInv
<1>3. CallOfJob = [op |-> job.op, row |-> job.row] /\ CallOfJob' = NoJob
  BY <1>1 DEF CallOfJob, At
<1>4. StoredRows' = StoredRows /\ Told' = "error"
  BY <1>1 DEF StoredRows, Told
<1> QED BY <1>2, <1>3, <1>4, SameOperators DEF Contract!Refuse, Contract!NoCall, NoJob

LEMMA CrashRestarts ==
  ASSUME renames, Crash
  PROVE  Contract!Restart
BY DEF Crash, Contract!Restart, Contract!NoCall, NoJob, CallOfJob, StoredRows, Told,
       At

LEMMA BootStutters ==
  ASSUME IInv, Boot
  PROVE  UNCHANGED Contract!tableVars
<1>1. UNCHANGED <<renames, disk, job, answer>>
  BY DEF Boot
<1> QED BY <1>1 DEF Contract!tableVars, StoredRows, CallOfJob, Told, At

LEMMA StepKeepsContract ==
  ASSUME IInv, [Next]_vars
  PROVE  [Contract!TablesNext]_(Contract!tableVars)
<1>1. renames' = renames
  BY DEF Next, Request, Seed, Begin, WriteTemporary, Rename, Truncate, Fill, Complete, Save,
         Succeed, Fail, Crash, Boot, vars
<1>2. CASE ~renames
  BY <1>1, <1>2, NoContract
<1>3. CASE renames
  <2>1. CASE UNCHANGED vars
    BY <2>1 DEF vars, Contract!tableVars, StoredRows, CallOfJob, Told, At
  <2>2. ASSUME NEW op \in Operations, NEW row \in Rows, Begin(op, row),
               process = "up" \/ process = "seeding"
        PROVE  Contract!TablesNext
    BY <1>3, <2>2, BeginAsks, SameOperators DEF Contract!TablesNext
  <2> QED BY <1>3, <2>1, <2>2, StepCases, SaveStores, SucceedConfirms, FailRefuses,
             CrashRestarts, BootStutters DEF IInv, Contract!TablesNext
<1> QED BY <1>2, <1>3

(* Where renaming works, the repository is what its interface promises:    *)
(* success means stored, an error means not stored, a restart changes      *)
(* nothing (file.go:75-109, 151-176, 201-235, 300-324).                    *)
THEOREM ContractIsKept == Spec => KeepsContract
<1>1. Init => Contract!TablesInit
  BY DEF Init, Contract!TablesInit, StoredRows, CallOfJob, Told, Contract!NoCall, NoJob,
         Contract!Tables, Tables, Missing, File, At
<1>2. IInv /\ [Next]_vars => [Contract!TablesNext]_(Contract!tableVars)
  BY StepKeepsContract
<1> QED BY <1>1, <1>2, Invariant, PTL DEF Spec, KeepsContract, Contract!TablesSpec

=============================================================================
