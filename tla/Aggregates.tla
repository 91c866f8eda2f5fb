----------------------------- MODULE Aggregates -----------------------------
(***************************************************************************)
(* The search optimisation: the command                                    *)
(* src/src/commands/search_tx_optimizations.rs, which applies and drops    *)
(* src/sql/migrations/1_apply_search_tx_optimizations.*.sql while the      *)
(* archiver writes, and what search_transactions.rs then reads.            *)
(*                                                                         *)
(* The migration copies each of three tables into an aggregate of its own  *)
(* and then creates the trigger that keeps the copy up to date.  All of it *)
(* is one transaction (sqlx), but at the isolation level read committed:   *)
(* a copy sees what is committed when that statement starts, and only the  *)
(* trigger statement locks writers out of the table.  In between they go   *)
(* on.  An archiver transaction writes the rows of one block, in an order  *)
(* that mixes the tables, so that it and the migration may wait for each   *)
(* other; the database then aborts one of them.                            *)
(***************************************************************************)
EXTENDS Integers, FiniteSets

CONSTANTS
  Rows,       \* rows of blocks_{user,internal,zkapp}_commands
  TableOf,    \* the table a row belongs to
  Archivers,  \* connections that write blocks: archive, missing-blocks-guardian
  Operators,  \* mina-mesh search-tx-optimizations processes
  None,
  MaxRuns     \* bound: how often the command is run

\* user, internal, zkapp: in the order of the migration.
Tables == 1..3

ASSUME RowsAssumption == TableOf \in [Rows -> Tables]
ASSUME NoneAssumption == None \notin Rows \cup Operators \cup {0, 1, 2}
ASSUME RunsAssumption == MaxRuns \in Nat

VARIABLES
  base,        \* committed rows of the three tables
  written,     \* rows each archiver transaction has inserted
  copied,      \* those of them its triggers have put in the aggregates
  wants,       \* the row it is inserting, perhaps waiting for a lock
  applied,     \* the aggregates, their triggers and the version row exist
  aggregated,  \* committed rows of the aggregates
  lock,        \* the advisory lock of the migrator
  command,     \* --apply, --drop or --check
  phase,       \* how far each process is
  exit,        \* how it ended: 0, 1 or 2
  at,          \* the table the open migration is at; it has locked those before
  staged,      \* what it has copied
  late,        \* history: inserted before the trigger, uncommitted at the copy
  runs         \* how often the command has been run

archiverVars == <<base, written, copied, wants>>
schemaVars == <<applied, aggregated>>
migrationVars == <<lock, at, staged>>
processVars == <<command, phase, exit, runs>>
aggVars == <<archiverVars, schemaVars, migrationVars, processVars, late>>

InTable(t) == {r \in Rows : TableOf[r] = t}
Uncommitted == UNION {written[a] : a \in Archivers}

\* ROW EXCLUSIVE: an archiver transaction holds the tables it has written.
Holds(a, t) == written[a] \cap InTable(t) # {}

\* The trigger statement of the migration has run: no one else writes t.
Locked(t) == t < at

\* It is waiting for t, and those who do not hold t queue up behind it.
Queued(t) == lock # None /\ phase[lock] = "ask" /\ t = at

Waiting(a) ==
  /\ wants[a] # None
  /\ \/ Locked(TableOf[wants[a]])
     \/ Queued(TableOf[wants[a]]) /\ ~Holds(a, TableOf[wants[a]])

\* A migration that adds the table at hand has copied it, not locked it yet.
InGap(t) ==
  /\ lock # None
  /\ command[lock] = "apply"
  /\ phase[lock] \in {"copied", "ask"}
  /\ t = at

InTransaction(o) == phase[o] \in {"copy", "copied", "ask", "commit"}

AggInit ==
  /\ base \in SUBSET Rows
  /\ written = [a \in Archivers |-> {}]
  /\ copied = [a \in Archivers |-> {}]
  /\ wants = [a \in Archivers |-> None]
  /\ applied = FALSE
  /\ aggregated = {}
  /\ lock = None
  /\ command = [o \in Operators |-> "check"]
  /\ phase = [o \in Operators |-> "idle"]
  /\ exit = [o \in Operators |-> None]
  /\ at = 1
  /\ staged = {}
  /\ late = {}
  /\ runs = 0

-----------------------------------------------------------------------------
\* The archiver.
Ask(a, r) ==
  /\ wants[a] = None
  /\ r \notin base \cup Uncommitted
  /\ \A b \in Archivers : wants[b] # r
  /\ wants' = [wants EXCEPT ![a] = r]
  /\ UNCHANGED <<base, written, copied, schemaVars, migrationVars, processVars, late>>

\* Mutant: the trigger fires for the user commands only.
BugTriggered(r) == IF applied /\ TableOf[r] = 1 THEN {r} ELSE {}

\* AFTER INSERT .. FOR EACH ROW: what the trigger adds for a new row.
Triggered(r) == IF applied THEN {r} ELSE {}

InsertRow(a) ==
  LET r == wants[a]
  IN  /\ r # None
      /\ ~Waiting(a)
      /\ written' = [written EXCEPT ![a] = @ \cup {r}]
      /\ copied' = [copied EXCEPT ![a] = @ \cup Triggered(r)]
      /\ wants' = [wants EXCEPT ![a] = None]
      /\ late' = IF InGap(TableOf[r]) THEN late \cup {r} ELSE late
      /\ UNCHANGED <<base, schemaVars, migrationVars, processVars>>

CommitBlock(a) ==
  /\ written[a] # {}
  /\ wants[a] = None
  /\ base' = base \cup written[a]
  /\ aggregated' = aggregated \cup copied[a]
  /\ written' = [written EXCEPT ![a] = {}]
  /\ copied' = [copied EXCEPT ![a] = {}]
  /\ UNCHANGED <<wants, applied, migrationVars, processVars, late>>

Undone(a) ==
  /\ written' = [written EXCEPT ![a] = {}]
  /\ copied' = [copied EXCEPT ![a] = {}]
  /\ wants' = [wants EXCEPT ![a] = None]
  /\ late' = late \ written[a]
  /\ UNCHANGED <<base, schemaVars, migrationVars, processVars>>

\* The archiver fails, and the block is tried again some time.
RollBack(a) ==
  /\ written[a] # {} \/ wants[a] # None
  /\ Undone(a)

-----------------------------------------------------------------------------
\* The command.
Exits(o, code) ==
  /\ phase' = [phase EXCEPT ![o] = "idle"]
  /\ exit' = [exit EXCEPT ![o] = code]
  /\ UNCHANGED <<command, runs>>

Goes(o, p) ==
  /\ phase' = [phase EXCEPT ![o] = p]
  /\ UNCHANGED <<command, exit, runs>>

Run(o, c) ==
  /\ phase[o] = "idle"
  /\ runs < MaxRuns
  /\ runs' = runs + 1
  /\ command' = [command EXCEPT ![o] = c]
  /\ phase' = [phase EXCEPT ![o] = "check"]
  /\ exit' = [exit EXCEPT ![o] = None]
  /\ UNCHANGED <<archiverVars, schemaVars, migrationVars, late>>

\* check_if_optimizations_applied reads the version row of the migrator's
\* table, if there is one.
Check(o) ==
  /\ phase[o] = "check"
  /\ CASE command[o] = "check" -> Exits(o, IF applied THEN 0 ELSE 1)
       [] command[o] = "apply" -> IF applied THEN Exits(o, 0) ELSE Goes(o, "queue")
       [] command[o] = "drop"  -> IF applied THEN Goes(o, "queue") ELSE Exits(o, 1)
  /\ UNCHANGED <<archiverVars, schemaVars, migrationVars, late>>

\* A statement fails before the transaction: the ? of the check leaves through
\* main, with code 1, the migrator's error is caught, with code 2.
Fails(o) ==
  /\ phase[o] \in {"check", "queue"}
  /\ Exits(o, IF phase[o] = "check" THEN 1 ELSE 2)
  /\ UNCHANGED <<archiverVars, schemaVars, migrationVars, late>>

\* Mutant: what the check saw is taken for granted.
BugNothingToDo(o) == FALSE

\* MIGRATOR.run and MIGRATOR.undo look at the version rows again.
NothingToDo(o) == (command[o] = "apply") = applied

\* Mutant: the advisory lock keeps nobody waiting.
BugTakeLock(o) ==
  /\ phase[o] = "queue"
  /\ IF NothingToDo(o) THEN Exits(o, 0) /\ UNCHANGED lock
     ELSE /\ Goes(o, IF command[o] = "apply" THEN "copy" ELSE "ask")
          /\ lock' = o
  /\ UNCHANGED <<archiverVars, schemaVars, at, staged, late>>

\* They take an advisory lock first.
TakeLock(o) ==
  /\ phase[o] = "queue"
  /\ lock = None
  /\ IF NothingToDo(o) THEN Exits(o, 0) /\ UNCHANGED lock
     ELSE /\ Goes(o, IF command[o] = "apply" THEN "copy" ELSE "ask")
          /\ lock' = o
  /\ UNCHANGED <<archiverVars, schemaVars, at, staged, late>>

\* CREATE TABLE, CREATE INDEX, and INSERT INTO .. SELECT starts.
Populate(o) ==
  /\ phase[o] = "copy"
  /\ staged' = staged \cup (base \cap InTable(at))
  /\ late' = late \cup (Uncommitted \cap InTable(at))
  /\ Goes(o, "copied")
  /\ UNCHANGED <<archiverVars, schemaVars, lock, at>>

\* It has ended, and CREATE TRIGGER asks for the table.
Populated(o) ==
  /\ phase[o] = "copied"
  /\ Goes(o, "ask")
  /\ UNCHANGED <<archiverVars, schemaVars, migrationVars, late>>

\* Mutant: the trigger does not wait for those who are writing.
BugLockTable(o) ==
  /\ phase[o] = "ask"
  /\ at' = at + 1
  /\ Goes(o, IF at = 3 THEN "commit" ELSE IF command[o] = "apply" THEN "copy" ELSE "ask")
  /\ UNCHANGED <<archiverVars, schemaVars, lock, staged, late>>

\* CREATE TRIGGER (SHARE ROW EXCLUSIVE) and DROP TRIGGER (ACCESS EXCLUSIVE)
\* keep the table from other writers until the transaction ends.
LockTable(o) ==
  /\ phase[o] = "ask"
  /\ \A a \in Archivers : ~Holds(a, at)
  /\ at' = at + 1
  /\ Goes(o, IF at = 3 THEN "commit" ELSE IF command[o] = "apply" THEN "copy" ELSE "ask")
  /\ UNCHANGED <<archiverVars, schemaVars, lock, staged, late>>

\* Mutant: the advisory lock is kept.
BugLockKept == at' = 1 /\ staged' = {} /\ UNCHANGED lock

\* Mutant: the next migration goes on where this one was.
BugNotReset == staged' = {} /\ lock' = None /\ UNCHANGED at

\* The end of the migration's transaction: what it staged and the advisory
\* lock go with it.
Released == at' = 1 /\ staged' = {} /\ lock' = None

\* The version row is written or deleted, and the transaction commits.
Commit(o) ==
  /\ phase[o] = "commit"
  /\ applied' = (command[o] = "apply")
  /\ aggregated' = staged
  /\ late' = IF command[o] = "apply" THEN late ELSE {}
  /\ Released
  /\ Exits(o, 0)
  /\ UNCHANGED archiverVars

\* Mutant: the error is printed and the process goes on to Ok.
BugAborted(o) ==
  /\ InTransaction(o)
  /\ late' = IF command[o] = "apply" THEN {} ELSE late
  /\ Released
  /\ Exits(o, 0)
  /\ UNCHANGED <<archiverVars, schemaVars>>

\* The transaction is rolled back: an error, or the process is killed.  Only a
\* migration that adds the tables has rows in late.
Aborted(o) ==
  /\ InTransaction(o)
  /\ late' = IF command[o] = "apply" THEN {} ELSE late
  /\ Released
  /\ Exits(o, 2)
  /\ UNCHANGED <<archiverVars, schemaVars>>

\* The migration waits for an archiver that waits for the migration.
Deadlocked(o, a) ==
  /\ phase[o] = "ask"
  /\ Holds(a, at)
  /\ Waiting(a)

\* deadlock_timeout: either of them may be the victim.
Detect ==
  \E o \in Operators, a \in Archivers :
    Deadlocked(o, a) /\ (Aborted(o) \/ Undone(a))

ProcessStep(o) ==
  \/ Check(o) \/ TakeLock(o)
  \/ Populate(o) \/ Populated(o) \/ LockTable(o) \/ Commit(o)

ArchiverStep(a) == InsertRow(a) \/ CommitBlock(a)

AggNext ==
  \/ \E a \in Archivers : ArchiverStep(a) \/ RollBack(a) \/ \E r \in Rows : Ask(a, r)
  \/ \E o \in Operators : ProcessStep(o) \/ Fails(o) \/ Aborted(o)
  \/ \E o \in Operators, c \in {"apply", "drop", "check"} : Run(o, c)
  \/ Detect

\* Statements end, an archiver commits what it has inserted, and the database
\* breaks deadlocks.  Nobody need run the command, or send another row.
AggFairness ==
  /\ \A o \in Operators : WF_aggVars(ProcessStep(o))
  /\ \A a \in Archivers : WF_aggVars(ArchiverStep(a))
  /\ WF_aggVars(Detect)

AggSpec == AggInit /\ [][AggNext]_aggVars
FairAggSpec == AggSpec /\ AggFairness

-----------------------------------------------------------------------------
\* The rows fetch_user_commands, fetch_internal_commands and
\* fetch_zkapp_commands choose from.  (With no aggregates the optimised
\* statements fail.)
Fetch(optimised, t) == (IF optimised THEN aggregated ELSE base) \cap InTable(t)

AggTypeOK ==
  /\ base \subseteq Rows
  /\ written \in [Archivers -> SUBSET Rows]
  /\ copied \in [Archivers -> SUBSET Rows]
  /\ wants \in [Archivers -> Rows \cup {None}]
  /\ applied \in BOOLEAN
  /\ aggregated \subseteq Rows
  /\ lock \in Operators \cup {None}
  /\ command \in [Operators -> {"apply", "drop", "check"}]
  /\ phase \in [Operators -> {"idle", "check", "queue", "copy", "copied", "ask", "commit"}]
  /\ exit \in [Operators -> {0, 1, 2, None}]
  /\ at \in 1..4
  /\ staged \subseteq Rows
  /\ late \subseteq Rows
  /\ runs \in 0..MaxRuns

(***************************************************************************)
(* What a server with use_search_tx_optimizations does not find, and one   *)
(* without it does, are the rows the archiver inserted after the migration *)
(* had copied their table, or had not committed by then, and before it     *)
(* created the trigger: those and no others, however migrations, drops,    *)
(* rollbacks and deadlocks interleave.                                     *)
(***************************************************************************)
MissesOnlyLate ==
  applied => \A t \in Tables : Fetch(TRUE, t) = Fetch(FALSE, t) \ late

(***************************************************************************)
(* What a command has checked may change before its migration runs, but    *)
(* the migration always finds the schema it needs: it never creates a      *)
(* table that exists, nor drops one that does not.                         *)
(***************************************************************************)
MigrationFits ==
  \A o \in Operators : InTransaction(o) => applied = (command[o] = "drop")

(***************************************************************************)
(* Exit code 0 of the command's documentation, "Optimizations applied      *)
(* (status check or apply success)": the schema is as it was asked for,    *)
(* whatever failed and whoever else applied or dropped it meanwhile.  (A   *)
(* drop that succeeds ends with 0 too, which the documentation leaves      *)
(* out.)                                                                   *)
(***************************************************************************)
ExitTruthful ==
  [][\A o \in Operators :
       exit[o] = None /\ exit'[o] = 0 =>
         /\ command[o] \in {"apply", "check"} => applied'
         /\ command[o] = "drop" => ~applied']_aggVars

(***************************************************************************)
(* Every run of the command ends, though it waits for the archiver, for    *)
(* the other migrator, and now and then for itself by way of the archiver. *)
(***************************************************************************)
CommandEnds == \A o \in Operators : phase[o] # "idle" ~> phase[o] = "idle"

\* The statements that a run of the command still has before it.
CommandLeft(o) ==
  CASE phase[o] = "idle"   -> 0
    [] phase[o] = "check"  -> 12
    [] phase[o] = "queue"  -> 11
    [] phase[o] = "copy"   -> 13 - 3 * at
    [] phase[o] = "copied" -> 12 - 3 * at
    [] phase[o] = "ask"    -> 11 - 3 * at
    [] phase[o] = "commit" -> 1

(***************************************************************************)
(* A run of the command never goes back: each of its statements brings it  *)
(* nearer to its end, and nothing that another migrator, an archiver or    *)
(* the deadlock detector does takes it further away.  So it ends after     *)
(* twelve statements, however long it waits for each.                      *)
(***************************************************************************)
CommandAdvances ==
  [][\A o \in Operators :
       phase[o] # "idle" =>
         /\ CommandLeft(o)' <= CommandLeft(o)
         /\ ProcessStep(o) => CommandLeft(o)' < CommandLeft(o)]_aggVars
=============================================================================
