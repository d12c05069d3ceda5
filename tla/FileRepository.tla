--------------------------- MODULE FileRepository ---------------------------
(***************************************************************************)
(* internal/repository/file.go with the boot of main.go: five tables in    *)
(* memory, each saved as a whole to its JSON file on every change, before  *)
(* the change is seen.  The mutex lets one call run at a time, so the      *)
(* steps are those of save, between which the process may stop.            *)
(***************************************************************************)
EXTENDS RepositoryTables

CONSTANTS
  DemoUsers,  \* the users SeedDemoUsers writes at every boot
  DemoValue,  \* what it writes
  Called,     \* the operations that are called; the server never saves sessions
  Failures    \* what may go wrong: "io", "crash"

ASSUME RepositoryAssumption ==
  /\ DemoUsers \subseteq Keys
  /\ DemoValue \in Values
  /\ Called \subseteq Operations
  /\ Failures \subseteq {"io", "crash"}

VARIABLES
  renames,  \* renaming over a file is never refused; on some Windows it may be
  process,  \* "down", "seeding" or "up"
  toSeed,   \* the demo users this boot has still to write
  memory,   \* per table the records callers see
  disk,     \* per table its file
  job,      \* the call that runs: NoJob, or its operation, record and stage
  answer,   \* what the last call was told
  unconfirmed \* history: per table the records of calls made since the last
              \* success or boot, which were told of no success

vars == <<renames, process, toSeed, memory, disk, job, answer, unconfirmed>>

File(form, rows) == [form |-> form, rows |-> rows]
Missing == File("missing", {})
Empty == File("empty", {})
Torn == File("torn", {})

NoJob == [op |-> "none"]
Stages == {"begun", "written", "truncated", "torn", "filled", "stored"}

RepositoryTypeOK ==
  /\ renames \in BOOLEAN
  /\ process \in {"down", "seeding", "up"}
  /\ toSeed \subseteq DemoUsers
  /\ memory \in [Tables -> SUBSET Rows]
  /\ disk \in [Tables -> {Missing, Empty, Torn} \cup [form : {"whole"}, rows : SUBSET Rows]]
  /\ job \in {NoJob} \cup [op : Operations, row : Rows, stage : Stages]
  /\ answer \in {"none", "success", "error"}
  /\ unconfirmed \in [Tables -> SUBSET SUBSET Rows]

Init ==
  /\ renames \in BOOLEAN
  /\ process = "down"
  /\ toSeed = {}
  /\ memory = [t \in Tables |-> {}]
  /\ disk = [t \in Tables |-> Missing]
  /\ job = NoJob
  /\ answer = "none"
  /\ unconfirmed = [t \in Tables |-> {}]

-----------------------------------------------------------------------------
(* A call: the mutex is taken, the table cloned and changed, and saved     *)

Begin(op, row) ==
  /\ job = NoJob
  /\ Changes(op, memory[TableOf(op)], row)
  /\ job' = [op |-> op, row |-> row, stage |-> "begun"]
  /\ answer' = "none"
  /\ unconfirmed' = [unconfirmed EXCEPT ![TableOf(op)] =
                       @ \cup {After(op, memory[TableOf(op)], row)}]
  /\ UNCHANGED <<renames, process, toSeed, memory, disk>>

Request ==
  /\ process = "up"
  /\ \E op \in Called, row \in Rows : Begin(op, row)

(* SeedDemoUsers, before the server listens.  The order of the users makes *)
(* no difference.                                                          *)
Seed ==
  /\ process = "seeding"
  /\ \E u \in toSeed : Begin("UpsertUser", <<u, DemoValue>>)

Target == TableOf(job.op)
NewRows == After(job.op, memory[Target], job.row)

At(stage) == job # NoJob /\ job.stage = stage

(* save goes on, leaving file in the table's place.                        *)
Save(from, to, file) ==
  /\ At(from)
  /\ job' = [job EXCEPT !.stage = to]
  /\ disk' = [disk EXCEPT ![Target] = file]
  /\ UNCHANGED <<renames, process, toSeed, memory, answer, unconfirmed>>

(* CreateTemp, Write and Close of the temporary file.                      *)
WriteTemporary == Save("begun", "written", disk[Target])

(* Slip: the records without the change are saved.                         *)
RenameOld == Save("written", "stored", File("whole", memory[Target]))

Rename == Save("written", "stored", File("whole", NewRows))

(* When this rename is refused WriteFile writes in place: the file is      *)
(* emptied, then filled, and may be seen half written.                     *)
Truncate == ~renames /\ Save("written", "truncated", Empty)
Fill == Save("truncated", "torn", Torn)
Complete == Save("torn", "filled", File("whole", NewRows))

(* Slip: memory has the change whatever becomes of the file.               *)
AnswerEarly(word) ==
  /\ answer' = word
  /\ memory' = [memory EXCEPT ![Target] = NewRows]
  /\ job' = NoJob

(* The caller's answer; memory has the change only if the file has.        *)
Answer(word) ==
  /\ answer' = word
  /\ memory' = IF word = "success" THEN [memory EXCEPT ![Target] = NewRows] ELSE memory
  /\ job' = NoJob

(* Slip: a seed that fails is passed over.                                 *)
SeededAnyway(word) ==
  /\ toSeed' = IF process = "seeding" THEN toSeed \ {job.row[1]} ELSE toSeed
  /\ process' = IF toSeed' = {} THEN "up" ELSE "seeding"

(* At boot a seed that fails ends the process, a seed that succeeds is     *)
(* struck off, and after the last one the server listens.                  *)
Seeded(word) ==
  /\ toSeed' = IF process = "seeding" THEN toSeed \ {job.row[1]} ELSE toSeed
  /\ process' = CASE process = "up" -> "up"
                  [] process # "up" /\ word = "error" -> "down"
                  [] OTHER -> IF toSeed' = {} THEN "up" ELSE "seeding"

Succeed ==
  /\ At("stored") \/ At("filled")
  /\ Answer("success")
  /\ Seeded("success")
  /\ unconfirmed' = [unconfirmed EXCEPT ![Target] = {}]
  /\ UNCHANGED <<renames, disk>>

(* A step of save fails: before the file is touched, while it is written   *)
(* in place, or when WriteFile closes it.                                  *)
Fail ==
  /\ "io" \in Failures
  /\ \/ At("begun")
     \/ ~renames /\ job # NoJob /\ job.stage \notin {"begun", "stored"}
  /\ Answer("error")
  /\ Seeded("error")
  /\ UNCHANGED <<renames, disk, unconfirmed>>

-----------------------------------------------------------------------------
(* The process *)

Crash ==
  /\ "crash" \in Failures
  /\ process # "down"
  /\ process' = "down"
  /\ job' = NoJob
  /\ answer' = "none"
  /\ UNCHANGED <<renames, toSeed, memory, disk, unconfirmed>>

(* A missing or empty file is an empty table.                              *)
Loaded(t) == disk[t].rows

(* NewFileRepository: a file that is no JSON ends the process.             *)
Boot ==
  /\ process = "down"
  /\ \A t \in Tables : disk[t].form # "torn"
  /\ memory' = [t \in Tables |-> Loaded(t)]
  /\ toSeed' = DemoUsers
  /\ process' = IF DemoUsers = {} THEN "up" ELSE "seeding"
  /\ unconfirmed' = [t \in Tables |-> {}]
  /\ UNCHANGED <<renames, disk, job, answer>>

Next ==
  \/ Request \/ Seed
  \/ WriteTemporary \/ Rename \/ Truncate \/ Fill \/ Complete
  \/ Succeed \/ Fail
  \/ Crash \/ Boot

Spec == Init /\ [][Next]_vars

-----------------------------------------------------------------------------
(* Properties.  While the process is down, memory is what callers had been *)
(* told before it stopped.                                                 *)

(* What callers were told, or that with the one change of a call that was  *)
(* made since and answered with an error or not at all.                    *)
AsTold(t, rows) == rows = memory[t] \/ rows \in unconfirmed[t]

(* A file that is neither emptied nor half written holds what callers were *)
(* told, or that with the change of one call that was told of no success:  *)
(* a change that was answered with success is never missing, wherever the  *)
(* process stops and whatever fails (file.go:300-324: memory is replaced   *)
(* after the file, and whole).                                             *)
FilesCurrent ==
  \A t \in Tables :
    disk[t].form \in {"missing", "whole"} => AsTold(t, disk[t].rows)

(* The server answers nobody before all its demo users are there, however  *)
(* earlier boots ended (auth.go:69-92, main.go:66-69).                     *)
DemoUsersReady ==
  process = "up" => \A u \in DemoUsers : HasKey(memory["users"], u)

(* Where renaming works, a restart brings back what callers were told, or  *)
(* that with the change of one call that was told of no success; what was  *)
(* answered with success is not undone (file.go:45-73 and 300-324).        *)
NothingLost ==
  [][renames /\ process = "down" /\ process' # "down" =>
       \A t \in Tables : AsTold(t, memory'[t])]_vars

(* Where renaming works, an order is never replaced and a bid never leaves *)
(* the audit trail, also when the process stops after the file was written *)
(* and before the answer (file.go:201-235).                                *)
TradesKept ==
  [][renames => \A t \in {"bids", "orders"} : memory[t] \subseteq memory'[t]]_vars

(* The contract, on the files; it says nothing where renaming is refused.  *)
StoredRows == [t \in Tables |-> IF renames THEN disk[t].rows ELSE {}]
CallOfJob ==
  CASE ~renames \/ job = NoJob -> NoJob
    [] renames /\ At("stored") -> [op |-> "stored"]
    [] OTHER -> [op |-> job.op, row |-> job.row]
Told == IF renames THEN answer ELSE "none"

Contract == INSTANCE DurableTables
              WITH stored <- StoredRows, call <- CallOfJob, answer <- Told

(* Where renaming works, success means stored, an error means not stored,  *)
(* and a restart changes nothing (file.go:75-109, 151-176, 201-235,        *)
(* 300-324).                                                               *)
KeepsContract == Contract!TablesSpec

=============================================================================
