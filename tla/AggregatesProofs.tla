-------------------------- MODULE AggregatesProofs --------------------------
(***************************************************************************)
(* Proofs about Aggregates.  Table by table, the migration leaves a table  *)
(* uncopied, in the gap, or locked; AggInv says what is in staged, late    *)
(* and the open archiver transactions in each case, and that the advisory  *)
(* lock singles out the process whose transaction that is.                 *)
(***************************************************************************)
EXTENDS Aggregates, TLAPS

-----------------------------------------------------------------------------
\* The open migration adds the aggregates, and has filled that of t.
Filled(t) ==
  /\ lock # None
  /\ command[lock] = "apply"
  /\ t < at \/ (t = at /\ phase[lock] \in {"copied", "ask"})

\* The advisory lock and the transaction belong together.
LockInv ==
  /\ \A o \in Operators : InTransaction(o) <=> lock = o
  /\ lock = None => at = 1 /\ staged = {}
  /\ lock # None =>
       /\ at = 4 <=> phase[lock] = "commit"
       /\ applied = (command[lock] = "drop")
       /\ command[lock] = "drop" => staged = {} /\ phase[lock] \in {"ask", "commit"}
       /\ command[lock] # "check"
  /\ \A o \in Operators : phase[o] = "queue" => command[o] # "check"

\* Rows are inserted once.
RowsInv ==
  /\ \A a \in Archivers : written[a] \cap base = {}
  /\ \A a, b \in Archivers : a # b => written[a] \cap written[b] = {}
  /\ \A a \in Archivers : wants[a] \notin base
  /\ \A a, b \in Archivers : wants[a] \notin written[b]
  /\ \A a, b \in Archivers : a # b /\ wants[a] # None => wants[a] # wants[b]
  /\ \A r \in late : r \notin base => \E a \in Archivers : r \in written[a]

\* No one writes a table the migration has locked.
TablesInv ==
  \A a \in Archivers : \A r \in written[a] : ~ Locked(TableOf[r])

\* What triggers add, and what they have missed.
AppliedInv ==
  /\ applied => /\ aggregated = base \ late
                /\ \A a \in Archivers : copied[a] = written[a] \ late
  /\ ~ applied => /\ aggregated = {}
                  /\ \A a \in Archivers : copied[a] = {}

\* What the open migration has copied, and what it has missed.
StagedInv ==
  ~ applied =>
    \A r \in Rows :
      IF Filled(TableOf[r])
      THEN /\ r \in staged <=> r \in base /\ r \notin late
           /\ \A a \in Archivers : r \in written[a] => r \in late
      ELSE r \notin staged /\ r \notin late

AggInv ==
  AggTypeOK /\ LockInv /\ RowsInv /\ TablesInv /\ AppliedInv /\ StagedInv

USE DEF AggInv

LEMMA AggInitInv == AggInit => AggInv
<1> SUFFICES ASSUME AggInit PROVE AggInv
  OBVIOUS
<1>1. AggTypeOK
  <2>1. /\ base \subseteq Rows /\ aggregated \subseteq Rows
        /\ staged \subseteq Rows /\ late \subseteq Rows
        /\ lock \in Operators \cup {None} /\ applied \in BOOLEAN
    BY Zenon DEF AggInit
  <2>4. at \in 1..4 /\ runs \in 0..MaxRuns
    <3>1. at = 1 /\ runs = 0
      BY DEF AggInit
    <3> QED
      BY <3>1, RunsAssumption
  <2>2. /\ written \in [Archivers -> SUBSET Rows]
        /\ copied \in [Archivers -> SUBSET Rows]
        /\ wants \in [Archivers -> Rows \cup {None}]
    BY DEF AggInit
  <2>3. /\ command \in [Operators -> {"apply", "drop", "check"}]
        /\ phase \in [Operators -> {"idle", "check", "queue", "copy", "copied",
                                    "ask", "commit"}]
        /\ exit \in [Operators -> {0, 1, 2, None}]
    BY DEF AggInit
  <2> QED
    BY <2>1, <2>2, <2>3, <2>4 DEF AggTypeOK
<1>2. LockInv
  BY NoneAssumption DEF AggInit, LockInv, InTransaction
<1>3. RowsInv /\ TablesInv
  BY NoneAssumption DEF AggInit, RowsInv, TablesInv
<1>4. AppliedInv /\ StagedInv
  BY DEF AggInit, AppliedInv, StagedInv, Filled
<1> QED
  BY <1>1, <1>2, <1>3, <1>4

\* A step of the archiver leaves the command alone.
LEMMA ArchiverKeepsLock ==
  ASSUME AggInv, UNCHANGED <<applied, lock, command, phase, at, staged>>
  PROVE  /\ LockInv'
         /\ \A t : Filled(t)' <=> Filled(t)
         /\ \A t : Locked(t)' <=> Locked(t)
<1>1. /\ \A t : Filled(t)' <=> Filled(t)
      /\ \A t : Locked(t)' <=> Locked(t)
  BY DEF Filled, Locked
<1>2. \A o \in Operators : InTransaction(o)' <=> InTransaction(o)
  BY DEF InTransaction
<1>3. LockInv'
  BY <1>2 DEF LockInv
<1> QED
  BY <1>1, <1>3

LEMMA AskInv ==
  ASSUME AggInv, NEW a \in Archivers, NEW r \in Rows, Ask(a, r)
  PROVE  AggInv'
<1>0. /\ UNCHANGED <<base, written, copied, applied, aggregated, lock, command,
                     phase, exit, runs, at, staged, late>>
      /\ wants' = [wants EXCEPT ![a] = r]
      /\ r \notin base /\ \A b \in Archivers : r \notin written[b] /\ wants[b] # r
  BY DEF Ask, Uncommitted, schemaVars, migrationVars, processVars
<1>1. AggTypeOK'
  BY <1>0 DEF AggTypeOK
<1>2. RowsInv'
  BY <1>0, NoneAssumption DEF RowsInv, AggTypeOK
<1>3. TablesInv' /\ AppliedInv' /\ StagedInv'
  BY <1>0, ArchiverKeepsLock DEF TablesInv, AppliedInv, StagedInv
<1> QED
  BY <1>0, <1>1, <1>2, <1>3, ArchiverKeepsLock

LEMMA InsertRowInv ==
  ASSUME AggInv, NEW a \in Archivers, InsertRow(a)
  PROVE  AggInv'
<1> DEFINE r == wants[a]
<1>0. /\ UNCHANGED <<base, applied, aggregated, lock, command,
                     phase, exit, runs, at, staged>>
      /\ r \in Rows /\ r # None /\ ~Waiting(a)
      /\ written' = [written EXCEPT ![a] = @ \cup {r}]
      /\ copied' = [copied EXCEPT ![a] = @ \cup Triggered(r)]
      /\ wants' = [wants EXCEPT ![a] = None]
      /\ late' = IF InGap(TableOf[r]) THEN late \cup {r} ELSE late
  BY DEF InsertRow, schemaVars, migrationVars, processVars, AggTypeOK
<1>1. AggTypeOK'
  <2>1. Triggered(r) \subseteq Rows
    BY <1>0 DEF Triggered
  <2> QED
    BY <1>0, <2>1 DEF AggTypeOK
<1>2. /\ r \notin base /\ \A b \in Archivers : r \notin written[b]
      /\ r \notin late
  BY <1>0 DEF RowsInv
<1>3. RowsInv'
  <2>1. \A b \in Archivers : b # a => written'[b] = written[b] /\ wants'[b] = wants[b]
    BY <1>0 DEF AggTypeOK
  <2>2. written'[a] = written[a] \cup {r} /\ wants'[a] = None
    BY <1>0 DEF AggTypeOK
  <2>3. \A s \in late' : s \in late \/ s = r
    BY <1>0
  <2>4. /\ \A b \in Archivers : written'[b] \cap base' = {}
        /\ \A b, c \in Archivers : b # c => written'[b] \cap written'[c] = {}
    BY <1>0, <1>2, <2>1, <2>2 DEF RowsInv
  <2>5. /\ \A b \in Archivers : wants'[b] \notin base'
        /\ \A b, c \in Archivers : b # c /\ wants'[b] # None => wants'[b] # wants'[c]
    BY <1>0, <2>1, <2>2, NoneAssumption DEF RowsInv, AggTypeOK
  <2>6. \A b, c \in Archivers : wants'[b] \notin written'[c]
    <3> SUFFICES ASSUME NEW b \in Archivers, NEW c \in Archivers
                 PROVE  wants'[b] \notin written'[c]
      OBVIOUS
    <3>1. CASE b = a
      BY <3>1, <2>1, <2>2, <1>0, NoneAssumption DEF AggTypeOK
    <3>2. CASE b # a
      BY <3>2, <2>1, <2>2, <1>0, NoneAssumption DEF RowsInv, AggTypeOK
    <3> QED
      BY <3>1, <3>2
  <2>7. \A s \in late' : s \notin base' => \E b \in Archivers : s \in written'[b]
    BY <1>0, <2>1, <2>2, <2>3 DEF RowsInv
  <2> QED
    BY <2>4, <2>5, <2>6, <2>7 DEF RowsInv
<1>4. TablesInv'
  BY <1>0 DEF TablesInv, AggTypeOK, Waiting, Locked
<1>5. AppliedInv'
  <2>1. CASE applied
    <3>1. late' = late
      BY <1>0, <2>1 DEF InGap, LockInv
    <3>2. copied' = [copied EXCEPT ![a] = @ \cup {r}]
      BY <1>0, <2>1 DEF Triggered
    <3>3. aggregated' = base' \ late'
      BY <1>0, <2>1, <3>1 DEF AppliedInv
    <3>4. ASSUME NEW b \in Archivers PROVE copied'[b] = written'[b] \ late'
      BY <1>0, <1>2, <2>1, <3>1, <3>2 DEF AppliedInv, AggTypeOK
    <3> QED
      BY <1>0, <2>1, <3>3, <3>4 DEF AppliedInv
  <2>2. CASE ~ applied
    <3>1. copied' = copied
      BY <1>0, <2>2 DEF Triggered, AggTypeOK
    <3> QED
      BY <1>0, <2>2, <3>1 DEF AppliedInv
  <2> QED
    BY <2>1, <2>2
<1>6. StagedInv'
  <2> SUFFICES ASSUME ~ applied', NEW s \in Rows
               PROVE  IF Filled(TableOf[s])'
                      THEN /\ s \in staged' <=> s \in base' /\ s \notin late'
                           /\ \A b \in Archivers : s \in written'[b] => s \in late'
                      ELSE s \notin staged' /\ s \notin late'
    BY DEF StagedInv
  <2>0. Filled(TableOf[s])' <=> Filled(TableOf[s])
    BY <1>0, ArchiverKeepsLock
  <2>1. CASE s # r
    <3>1. /\ s \in late' <=> s \in late
          /\ \A b \in Archivers : s \in written'[b] <=> s \in written[b]
      BY <1>0, <2>1 DEF AggTypeOK
    <3> QED
      BY <1>0, <2>0, <3>1 DEF StagedInv
  <2>2. CASE s = r
    <3>1. ~ Locked(TableOf[r])
      BY <1>0 DEF Waiting
    <3>2. TableOf[r] \in Tables /\ at \in 1..4
      BY <1>0, RowsAssumption DEF AggTypeOK
    <3>3. Filled(TableOf[r]) <=> InGap(TableOf[r])
      BY <3>1, <3>2 DEF Filled, InGap, Locked
    <3> QED
      BY <1>0, <1>2, <2>0, <2>2, <3>3 DEF StagedInv
  <2> QED
    BY <2>1, <2>2
<1> QED
  BY <1>0, <1>1, <1>3, <1>4, <1>5, <1>6, ArchiverKeepsLock

LEMMA CommitBlockInv ==
  ASSUME AggInv, NEW a \in Archivers, CommitBlock(a)
  PROVE  AggInv'
<1>0. /\ UNCHANGED <<wants, applied, lock, command, phase, exit, runs, at, staged, late>>
      /\ base' = base \cup written[a]
      /\ aggregated' = aggregated \cup copied[a]
      /\ written' = [written EXCEPT ![a] = {}]
      /\ copied' = [copied EXCEPT ![a] = {}]
  BY DEF CommitBlock, migrationVars, processVars
<1>1. AggTypeOK'
  BY <1>0 DEF AggTypeOK
<1>2. /\ written'[a] = {} /\ copied'[a] = {}
      /\ \A b \in Archivers : b # a => written'[b] = written[b] /\ copied'[b] = copied[b]
  BY <1>0 DEF AggTypeOK
<1>3. RowsInv'
  <2>1. /\ \A b \in Archivers : written'[b] \cap base' = {}
        /\ \A b, c \in Archivers : b # c => written'[b] \cap written'[c] = {}
    BY <1>0, <1>2 DEF RowsInv
  <2>2. /\ \A b \in Archivers : wants'[b] \notin base'
        /\ \A b, c \in Archivers : wants'[b] \notin written'[c]
        /\ \A b, c \in Archivers : b # c /\ wants'[b] # None => wants'[b] # wants'[c]
    BY <1>0, <1>2 DEF RowsInv
  <2>3. \A r \in late' : r \notin base' => \E b \in Archivers : r \in written'[b]
    BY <1>0, <1>2 DEF RowsInv
  <2> QED
    BY <2>1, <2>2, <2>3 DEF RowsInv
<1>4. TablesInv'
  BY <1>0, <1>2, ArchiverKeepsLock DEF TablesInv
<1>5. AppliedInv'
  BY <1>0, <1>2 DEF AppliedInv
<1>6. StagedInv'
  BY <1>0, <1>2, ArchiverKeepsLock DEF StagedInv
<1> QED
  BY <1>0, <1>1, <1>3, <1>4, <1>5, <1>6, ArchiverKeepsLock

LEMMA UndoneInv ==
  ASSUME AggInv, NEW a \in Archivers, Undone(a)
  PROVE  AggInv'
<1>0. /\ UNCHANGED <<base, applied, aggregated, lock, command, phase, exit, runs,
                     at, staged>>
      /\ written' = [written EXCEPT ![a] = {}]
      /\ copied' = [copied EXCEPT ![a] = {}]
      /\ wants' = [wants EXCEPT ![a] = None]
      /\ late' = late \ written[a]
  BY DEF Undone, schemaVars, migrationVars, processVars
<1>1. AggTypeOK'
  BY <1>0 DEF AggTypeOK
<1>2. /\ written'[a] = {} /\ copied'[a] = {} /\ wants'[a] = None
      /\ \A b \in Archivers : b # a => /\ written'[b] = written[b]
                                     /\ copied'[b] = copied[b]
                                     /\ wants'[b] = wants[b]
  BY <1>0 DEF AggTypeOK
<1>3. RowsInv'
  <2>1. /\ \A b \in Archivers : written'[b] \cap base' = {}
        /\ \A b, c \in Archivers : b # c => written'[b] \cap written'[c] = {}
    BY <1>0, <1>2 DEF RowsInv
  <2>2. /\ \A b \in Archivers : wants'[b] \notin base'
        /\ \A b, c \in Archivers : b # c /\ wants'[b] # None => wants'[b] # wants'[c]
    BY <1>0, <1>2, NoneAssumption DEF RowsInv, AggTypeOK
  <2>3. \A b, c \in Archivers : wants'[b] \notin written'[c]
    BY <1>0, <1>2, NoneAssumption DEF RowsInv, AggTypeOK
  <2>4. \A r \in late' : r \notin base' => \E b \in Archivers : r \in written'[b]
    BY <1>0, <1>2 DEF RowsInv
  <2> QED
    BY <2>1, <2>2, <2>3, <2>4 DEF RowsInv
<1>4. TablesInv'
  BY <1>0, <1>2, ArchiverKeepsLock DEF TablesInv
<1>5. AppliedInv'
  <2>1. written[a] \cap base = {}
    BY DEF RowsInv
  <2>2. ASSUME applied PROVE aggregated' = base' \ late'
    BY <1>0, <2>1, <2>2 DEF AppliedInv
  <2>3. ASSUME applied, NEW b \in Archivers PROVE copied'[b] = written'[b] \ late'
    BY <1>0, <1>2, <2>3 DEF AppliedInv, RowsInv
  <2> QED
    BY <1>0, <1>2, <2>2, <2>3 DEF AppliedInv
<1>6. StagedInv'
  <2> SUFFICES ASSUME ~ applied', NEW s \in Rows
               PROVE  IF Filled(TableOf[s])'
                      THEN /\ s \in staged' <=> s \in base' /\ s \notin late'
                           /\ \A b \in Archivers : s \in written'[b] => s \in late'
                      ELSE s \notin staged' /\ s \notin late'
    BY DEF StagedInv
  <2>1. Filled(TableOf[s])' <=> Filled(TableOf[s])
    BY <1>0, ArchiverKeepsLock
  <2>2. s \in base => s \notin written[a]
    BY DEF RowsInv
  <2>3. \A b \in Archivers : s \in written'[b] => s \in written[b] /\ s \notin written[a]
    BY <1>2 DEF RowsInv
  <2> QED
    BY <1>0, <2>1, <2>2, <2>3 DEF StagedInv
<1> QED
  BY <1>0, <1>1, <1>3, <1>4, <1>5, <1>6, ArchiverKeepsLock

-----------------------------------------------------------------------------
\* A step of one process that is in no transaction and stays out of it.
LEMMA OutsideInv ==
  ASSUME AggInv, NEW o \in Operators, ~ InTransaction(o),
         UNCHANGED <<archiverVars, schemaVars, migrationVars, late>>,
         phase' \in [Operators -> {"idle", "check", "queue", "copy", "copied",
                                   "ask", "commit"}],
         command' \in [Operators -> {"apply", "drop", "check"}],
         exit' \in [Operators -> {0, 1, 2, None}],
         runs' \in 0..MaxRuns,
         \A p \in Operators : p # o => phase'[p] = phase[p] /\ command'[p] = command[p],
         ~ InTransaction(o)',
         phase'[o] = "queue" => command'[o] # "check"
  PROVE  AggInv'
<1>0. /\ UNCHANGED <<base, written, copied, wants, applied, aggregated, lock, at,
                     staged, late>>
  BY DEF archiverVars, schemaVars, migrationVars
<1>1. lock # o
  BY DEF LockInv
<1>2. lock # None => lock \in Operators /\ phase'[lock] = phase[lock] /\ command'[lock] = command[lock]
  BY <1>1 DEF AggTypeOK
<1>3. AggTypeOK'
  BY <1>0 DEF AggTypeOK
<1>4. LockInv'
  <2>1. \A p \in Operators : InTransaction(p)' <=> lock' = p
    <3> SUFFICES ASSUME NEW p \in Operators PROVE InTransaction(p)' <=> lock' = p
      OBVIOUS
    <3>1. CASE p = o
      BY <3>1, <1>0, <1>1
    <3>2. CASE p # o
      BY <3>2, <1>0 DEF LockInv, InTransaction
    <3> QED
      BY <3>1, <3>2
  <2>2. \A p \in Operators : phase'[p] = "queue" => command'[p] # "check"
    BY DEF LockInv
  <2> QED
    BY <1>0, <1>2, <2>1, <2>2 DEF LockInv
<1>5. \A t : Filled(t)' <=> Filled(t)
  BY <1>0, <1>2 DEF Filled
<1>6. RowsInv' /\ TablesInv' /\ AppliedInv'
  BY <1>0 DEF RowsInv, TablesInv, AppliedInv, Locked
<1>7. StagedInv'
  BY <1>0, <1>5 DEF StagedInv
<1> QED
  BY <1>3, <1>4, <1>6, <1>7

LEMMA RunInv ==
  ASSUME AggInv, NEW o \in Operators, NEW c \in {"apply", "drop", "check"}, Run(o, c)
  PROVE  AggInv'
BY OutsideInv, RunsAssumption DEF Run, AggTypeOK, InTransaction

LEMMA CheckInv ==
  ASSUME AggInv, NEW o \in Operators, Check(o) \/ Fails(o)
  PROVE  AggInv'
<1>1. CASE Check(o)
  <2>1. command[o] \in {"apply", "drop", "check"}
    BY DEF AggTypeOK
  <2>2. /\ phase[o] = "check"
        /\ \/ Goes(o, "queue") /\ command[o] # "check"
           \/ \E c \in {0, 1} : Exits(o, c)
        /\ UNCHANGED <<archiverVars, schemaVars, migrationVars, late>>
    BY <1>1, <2>1 DEF Check
  <2>3. CASE Goes(o, "queue") /\ command[o] # "check"
    BY <2>2, <2>3, OutsideInv DEF Goes, AggTypeOK, InTransaction
  <2>4. CASE \E c \in {0, 1} : Exits(o, c)
    BY <2>2, <2>4, OutsideInv DEF Exits, AggTypeOK, InTransaction
  <2> QED
    BY <2>2, <2>3, <2>4
<1>2. CASE Fails(o)
  BY <1>2, OutsideInv DEF Fails, Exits, AggTypeOK, InTransaction
<1> QED
  BY <1>1, <1>2

\* The process with the lock goes on to a later phase of its transaction,
\* with the archiver and the schema as they were.
LEMMA InsideFacts ==
  ASSUME AggInv, NEW o \in Operators, InTransaction(o)
  PROVE  /\ lock = o /\ o # None
         /\ command[o] \in {"apply", "drop"}
         /\ applied = (command[o] = "drop")
         /\ command[o] = "drop" => staged = {} /\ phase[o] \in {"ask", "commit"}
         /\ at = 4 <=> phase[o] = "commit"
<1>1. lock = o
  BY DEF LockInv
<1>2. o # None
  BY NoneAssumption
<1>3. command[o] \in {"apply", "drop", "check"}
  BY DEF AggTypeOK
<1> QED
  BY <1>1, <1>2, <1>3 DEF LockInv

LEMMA TakeLockInv ==
  ASSUME AggInv, NEW o \in Operators, TakeLock(o)
  PROVE  AggInv'
<1>1. CASE NothingToDo(o)
  BY <1>1, OutsideInv DEF TakeLock, Exits, AggTypeOK, InTransaction, migrationVars
<1>2. CASE ~ NothingToDo(o)
  <2>0. /\ UNCHANGED <<base, written, copied, wants, applied, aggregated, at, staged,
                       late, command, exit, runs>>
        /\ lock = None /\ lock' = o /\ o # None
        /\ phase[o] = "queue" /\ command[o] \in {"apply", "drop"}
        /\ phase' = [phase EXCEPT ![o] = IF command[o] = "apply" THEN "copy" ELSE "ask"]
        /\ applied = (command[o] = "drop")
    <3>1. command[o] \in {"apply", "drop"}
      BY DEF TakeLock, LockInv, AggTypeOK
    <3>2. applied = (command[o] = "drop")
      BY <1>2, <3>1 DEF NothingToDo, AggTypeOK
    <3> QED
      BY <1>2, <3>1, <3>2, NoneAssumption DEF TakeLock, Goes, archiverVars, schemaVars
  <2>1. at = 1 /\ staged = {}
    BY <2>0 DEF LockInv
  <2>2. AggTypeOK'
    BY <2>0 DEF AggTypeOK
  <2>3. phase'[o] = IF command[o] = "apply" THEN "copy" ELSE "ask"
    BY <2>0 DEF AggTypeOK
  <2>4. \A p \in Operators : p # o => phase'[p] = phase[p]
    BY <2>0 DEF AggTypeOK
  <2>5. LockInv'
    <3>1. InTransaction(o)'
      BY <2>3 DEF InTransaction
    <3>2. \A p \in Operators : p # o => ~ InTransaction(p)'
      <4>1. \A p \in Operators : ~ InTransaction(p)
        BY <2>0, NoneAssumption DEF LockInv
      <4> QED
        BY <2>4, <4>1 DEF InTransaction
    <3>3. \A p \in Operators : InTransaction(p)' <=> lock' = p
      BY <2>0, <3>1, <3>2
    <3>4. \A p \in Operators : phase'[p] = "queue" => command'[p] # "check"
      BY <2>0, <2>3, <2>4 DEF LockInv
    <3> QED
      BY <3>3, <3>4, <2>0, <2>1, <2>3 DEF LockInv
  <2>6. RowsInv' /\ TablesInv' /\ AppliedInv'
    BY <2>0 DEF RowsInv, TablesInv, AppliedInv, Locked
  <2>7. \A r \in Rows : ~ Filled(TableOf[r]) /\ ~ Filled(TableOf[r])'
    BY <2>0, <2>1, <2>3, RowsAssumption DEF Filled, Tables
  <2>8. StagedInv'
    BY <2>0, <2>7 DEF StagedInv
  <2> QED
    BY <2>2, <2>5, <2>6, <2>8
<1> QED
  BY <1>1, <1>2

LEMMA PopulateInv ==
  ASSUME AggInv, NEW o \in Operators, Populate(o)
  PROVE  AggInv'
<1>0. /\ UNCHANGED <<base, written, copied, wants, applied, aggregated, at, lock,
                     command, exit, runs>>
      /\ phase[o] = "copy" /\ phase' = [phase EXCEPT ![o] = "copied"]
      /\ staged' = staged \cup (base \cap InTable(at))
      /\ late' = late \cup (Uncommitted \cap InTable(at))
  BY DEF Populate, Goes, archiverVars, schemaVars
<1>1. InTransaction(o)
  BY <1>0 DEF InTransaction
<1>2. lock = o /\ o # None /\ command[o] = "apply" /\ applied = FALSE /\ at # 4
  BY <1>0, <1>1, InsideFacts
<1>3. phase'[o] = "copied" /\ \A p \in Operators : p # o => phase'[p] = phase[p]
  BY <1>0 DEF AggTypeOK
<1>4. AggTypeOK'
  BY <1>0 DEF AggTypeOK, InTable
<1>5. LockInv'
  <2>1. \A p \in Operators : InTransaction(p)' <=> InTransaction(p)
    BY <1>0, <1>3 DEF InTransaction
  <2>2. \A p \in Operators : phase'[p] = "queue" => command'[p] # "check"
    BY <1>0, <1>3 DEF LockInv
  <2> QED
    BY <1>0, <1>2, <1>3, <2>1, <2>2 DEF LockInv
<1>6. \A r \in Rows : r \in late' <=> r \in late \/ (TableOf[r] = at /\ \E a \in Archivers : r \in written[a])
  BY <1>0 DEF Uncommitted, InTable
<1>7. RowsInv'
  BY <1>0, <1>6 DEF RowsInv, AggTypeOK, Uncommitted
<1>8. TablesInv' /\ AppliedInv'
  BY <1>0, <1>2 DEF TablesInv, AppliedInv, Locked
<1>9. StagedInv'
  <2> SUFFICES ASSUME NEW r \in Rows
               PROVE  IF Filled(TableOf[r])'
                      THEN /\ r \in staged' <=> r \in base /\ r \notin late'
                           /\ \A b \in Archivers : r \in written[b] => r \in late'
                      ELSE r \notin staged' /\ r \notin late'
    BY <1>0 DEF StagedInv
  <2>0. TableOf[r] \in 1..3 /\ at \in 1..4
    BY RowsAssumption DEF Tables, AggTypeOK
  <2>1. CASE TableOf[r] = at
    <3>1. ~ Filled(TableOf[r]) /\ Filled(TableOf[r])'
      BY <1>0, <1>2, <1>3, <2>0, <2>1 DEF Filled
    <3>2. r \notin staged /\ r \notin late
      BY <1>2, <3>1 DEF StagedInv
    <3>3. r \in staged' <=> r \in base
      BY <1>0, <2>1, <3>2 DEF InTable
    <3>4. r \in base => r \notin late'
      BY <1>6, <3>2 DEF RowsInv
    <3> QED
      BY <1>6, <2>1, <3>1, <3>3, <3>4
  <2>2. CASE TableOf[r] # at
    <3>1. Filled(TableOf[r])' <=> Filled(TableOf[r])
      BY <1>0, <2>2 DEF Filled
    <3>2. (r \in staged' <=> r \in staged) /\ (r \in late' <=> r \in late)
      BY <1>0, <1>6, <2>2 DEF InTable
    <3> QED
      BY <1>2, <3>1, <3>2 DEF StagedInv
  <2> QED
    BY <2>1, <2>2
<1> QED
  BY <1>4, <1>5, <1>7, <1>8, <1>9

LEMMA PopulatedInv ==
  ASSUME AggInv, NEW o \in Operators, Populated(o)
  PROVE  AggInv'
<1>0. /\ UNCHANGED <<base, written, copied, wants, applied, aggregated, at, staged,
                     late, lock, command, exit, runs>>
      /\ phase[o] = "copied" /\ phase' = [phase EXCEPT ![o] = "ask"]
  BY DEF Populated, Goes, archiverVars, schemaVars, migrationVars
<1>1. InTransaction(o)
  BY <1>0 DEF InTransaction
<1>2. lock = o /\ o # None /\ command[o] = "apply" /\ applied = FALSE /\ at # 4
  BY <1>0, <1>1, InsideFacts
<1>3. phase'[o] = "ask" /\ \A p \in Operators : p # o => phase'[p] = phase[p]
  BY <1>0 DEF AggTypeOK
<1>4. AggTypeOK'
  BY <1>0 DEF AggTypeOK
<1>5. LockInv'
  <2>1. \A p \in Operators : InTransaction(p)' <=> InTransaction(p)
    BY <1>0, <1>3 DEF InTransaction
  <2>2. \A p \in Operators : phase'[p] = "queue" => command'[p] # "check"
    BY <1>0, <1>3 DEF LockInv
  <2> QED
    BY <1>0, <1>2, <1>3, <2>1, <2>2 DEF LockInv
<1>6. RowsInv' /\ TablesInv' /\ AppliedInv'
  BY <1>0 DEF RowsInv, TablesInv, AppliedInv, Locked
<1>7. \A t : Filled(t)' <=> Filled(t)
  BY <1>0, <1>2, <1>3 DEF Filled
<1>8. StagedInv'
  BY <1>0, <1>7 DEF StagedInv
<1> QED
  BY <1>4, <1>5, <1>6, <1>8

LEMMA LockTableInv ==
  ASSUME AggInv, NEW o \in Operators, LockTable(o)
  PROVE  AggInv'
<1> DEFINE p == IF at = 3 THEN "commit" ELSE IF command[o] = "apply" THEN "copy" ELSE "ask"
<1>0. /\ UNCHANGED <<base, written, copied, wants, applied, aggregated, staged,
                     late, lock, command, exit, runs>>
      /\ phase[o] = "ask" /\ phase' = [phase EXCEPT ![o] = p]
      /\ at' = at + 1
      /\ \A a \in Archivers : ~Holds(a, at)
  BY DEF LockTable, Goes, archiverVars, schemaVars
<1>1. InTransaction(o)
  BY <1>0 DEF InTransaction
<1>2. /\ lock = o /\ o # None /\ command[o] \in {"apply", "drop"} /\ at # 4
      /\ applied = (command[o] = "drop")
      /\ command[o] = "drop" => staged = {}
  BY <1>0, <1>1, InsideFacts
<1>3. phase'[o] = p /\ \A q \in Operators : q # o => phase'[q] = phase[q]
  BY <1>0 DEF AggTypeOK
<1>4. at \in 1..3
  BY <1>2 DEF AggTypeOK
<1>5. AggTypeOK'
  BY <1>0, <1>4 DEF AggTypeOK
<1>6. LockInv'
  <2>1. \A q \in Operators : InTransaction(q)' <=> InTransaction(q)
    BY <1>0, <1>3 DEF InTransaction
  <2>2. \A q \in Operators : phase'[q] = "queue" => command'[q] # "check"
    BY <1>0, <1>3 DEF LockInv
  <2>3. at' = 4 <=> phase'[o] = "commit"
    BY <1>0, <1>3, <1>4
  <2>4. command[o] = "drop" => phase'[o] \in {"ask", "commit"}
    BY <1>3
  <2> QED
    BY <1>0, <1>2, <2>1, <2>2, <2>3, <2>4 DEF LockInv
<1>7. RowsInv' /\ AppliedInv'
  BY <1>0 DEF RowsInv, AppliedInv
<1>8. TablesInv'
  <2> SUFFICES ASSUME NEW a \in Archivers, NEW r \in written[a]
               PROVE  ~ (TableOf[r] < at + 1)
    BY <1>0 DEF TablesInv, Locked
  <2>1. r \in Rows /\ TableOf[r] \in 1..3
    BY RowsAssumption DEF AggTypeOK, Tables
  <2>2. TableOf[r] # at
    BY <1>0, <2>1 DEF Holds, InTable
  <2>3. ~ (TableOf[r] < at)
    BY DEF TablesInv, Locked
  <2> QED
    BY <1>4, <2>1, <2>2, <2>3
<1>9. ASSUME command[o] = "apply", NEW t \in Tables PROVE Filled(t)' <=> Filled(t)
  BY <1>0, <1>2, <1>3, <1>4, <1>9 DEF Filled, Tables
<1>10. StagedInv'
  BY <1>0, <1>2, <1>9, RowsAssumption DEF StagedInv
<1> QED
  BY <1>5, <1>6, <1>7, <1>8, <1>10

\* The end of a transaction, committed or not: the lock is free again.
LEMMA LockFreed ==
  ASSUME AggInv, NEW o \in Operators, InTransaction(o),
         phase' = [phase EXCEPT ![o] = "idle"], UNCHANGED command,
         lock' = None, at' = 1, staged' = {}
  PROVE  LockInv' /\ \A t : ~ Filled(t)'
<1>1. lock = o
  BY DEF LockInv
<1>2. phase'[o] = "idle" /\ \A p \in Operators : p # o => phase'[p] = phase[p]
  BY DEF AggTypeOK
<1>3. \A p \in Operators : ~ InTransaction(p)'
  BY <1>1, <1>2 DEF InTransaction, LockInv
<1>4. \A p \in Operators : InTransaction(p)' <=> lock' = p
  BY <1>3, NoneAssumption
<1>5. \A p \in Operators : phase'[p] = "queue" => command'[p] # "check"
  BY <1>2 DEF LockInv
<1> QED
  BY <1>4, <1>5 DEF LockInv, Filled

LEMMA CommitInv ==
  ASSUME AggInv, NEW o \in Operators, Commit(o)
  PROVE  AggInv'
<1>0. /\ UNCHANGED <<base, written, copied, wants, command, runs>>
      /\ phase[o] = "commit" /\ phase' = [phase EXCEPT ![o] = "idle"]
      /\ exit' = [exit EXCEPT ![o] = 0]
      /\ applied' = (command[o] = "apply")
      /\ aggregated' = staged
      /\ late' = IF command[o] = "apply" THEN late ELSE {}
      /\ lock' = None /\ at' = 1 /\ staged' = {}
  BY DEF Commit, Released, Exits, archiverVars
<1>1. InTransaction(o)
  BY <1>0 DEF InTransaction
<1>2. /\ lock = o /\ o # None /\ command[o] \in {"apply", "drop"} /\ at = 4
      /\ applied = (command[o] = "drop")
      /\ command[o] = "drop" => staged = {}
  BY <1>0, <1>1, InsideFacts
<1>3. AggTypeOK'
  <2>1. applied' \in BOOLEAN
    BY <1>0
  <2>2. late' \subseteq Rows /\ aggregated' \subseteq Rows
    BY <1>0 DEF AggTypeOK
  <2> QED
    BY <1>0, <2>1, <2>2 DEF AggTypeOK
<1>4. LockInv' /\ \A t : ~ Filled(t)'
  BY <1>0, <1>1, LockFreed
<1>5. \A a \in Archivers : written[a] = {}
  <2>1. \A a \in Archivers : \A r \in written[a] : TableOf[r] \in 1..3 /\ ~ (TableOf[r] < 4)
    BY <1>2, RowsAssumption DEF TablesInv, Locked, AggTypeOK, Tables
  <2> QED
    BY <2>1
<1>6. RowsInv'
  BY <1>0 DEF RowsInv
<1>7. TablesInv'
  BY <1>0, <1>5 DEF TablesInv
<1>8. AppliedInv' /\ StagedInv'
  <2>1. CASE command[o] = "apply"
    <3>1. \A r \in Rows : Filled(TableOf[r])
      BY <1>2, <2>1, RowsAssumption DEF Filled, Tables
    <3>2. ~ applied /\ applied'
      BY <1>0, <1>2, <2>1
    <3>3. staged = base \ late
      BY <3>1, <3>2 DEF StagedInv, AggTypeOK
    <3>4. \A a \in Archivers : copied[a] = {}
      BY <3>2 DEF AppliedInv
    <3> QED
      BY <1>0, <1>5, <2>1, <3>2, <3>3, <3>4 DEF AppliedInv, StagedInv
  <2>2. CASE command[o] = "drop"
    <3>1. applied /\ ~ applied' /\ aggregated' = {} /\ late' = {}
      BY <1>0, <1>2, <2>2
    <3>2. \A a \in Archivers : copied[a] = {}
      BY <1>5, <3>1 DEF AppliedInv
    <3> QED
      BY <1>0, <1>4, <3>1, <3>2 DEF AppliedInv, StagedInv
  <2> QED
    BY <1>2, <2>1, <2>2
<1> QED
  BY <1>3, <1>4, <1>6, <1>7, <1>8

LEMMA AbortedInv ==
  ASSUME AggInv, NEW o \in Operators, Aborted(o)
  PROVE  AggInv'
<1>0. /\ UNCHANGED <<base, written, copied, wants, command, runs, applied, aggregated>>
      /\ phase' = [phase EXCEPT ![o] = "idle"]
      /\ exit' = [exit EXCEPT ![o] = 2]
      /\ late' = IF command[o] = "apply" THEN {} ELSE late
      /\ lock' = None /\ at' = 1 /\ staged' = {}
      /\ InTransaction(o)
  BY DEF Aborted, Released, Exits, archiverVars, schemaVars
<1>1. /\ lock = o /\ command[o] \in {"apply", "drop"}
      /\ applied = (command[o] = "drop")
  BY <1>0, InsideFacts
<1>2. AggTypeOK'
  <2>1. late' \subseteq Rows
    BY <1>0 DEF AggTypeOK
  <2> QED
    BY <1>0, <2>1 DEF AggTypeOK
<1>3. LockInv' /\ \A t : ~ Filled(t)'
  BY <1>0, LockFreed
<1>4. RowsInv'
  BY <1>0 DEF RowsInv
<1>5. TablesInv'
  BY <1>0, RowsAssumption DEF TablesInv, Locked, AggTypeOK, Tables
<1>6. AppliedInv' /\ StagedInv'
  <2>1. CASE command[o] = "apply"
    BY <1>0, <1>1, <1>3, <2>1 DEF AppliedInv, StagedInv
  <2>2. CASE command[o] = "drop"
    BY <1>0, <1>1, <2>2 DEF AppliedInv, StagedInv
  <2> QED
    BY <1>1, <2>1, <2>2
<1> QED
  BY <1>2, <1>3, <1>4, <1>5, <1>6

-----------------------------------------------------------------------------
LEMMA AggStepInv == AggInv /\ [AggNext]_aggVars => AggInv'
<1> SUFFICES ASSUME AggInv, [AggNext]_aggVars PROVE AggInv'
  OBVIOUS
<1>1. ASSUME NEW a \in Archivers,
             ArchiverStep(a) \/ RollBack(a) \/ \E r \in Rows : Ask(a, r)
      PROVE  AggInv'
  BY <1>1, AskInv, InsertRowInv, CommitBlockInv, UndoneInv DEF ArchiverStep, RollBack
<1>2. ASSUME NEW o \in Operators, ProcessStep(o) \/ Fails(o) \/ Aborted(o)
      PROVE  AggInv'
  BY <1>2, CheckInv, TakeLockInv, PopulateInv, PopulatedInv, LockTableInv, CommitInv,
     AbortedInv DEF ProcessStep
<1>3. ASSUME NEW o \in Operators, NEW c \in {"apply", "drop", "check"}, Run(o, c)
      PROVE  AggInv'
  BY <1>3, RunInv
<1>4. CASE Detect
  BY <1>4, AbortedInv, UndoneInv DEF Detect
<1>5. CASE UNCHANGED aggVars
  <2>1. /\ UNCHANGED <<archiverVars, schemaVars, migrationVars, processVars, late>>
        /\ UNCHANGED <<base, written, copied, wants, applied, aggregated, lock, at,
                       staged, command, phase, exit, runs>>
    BY <1>5 DEF aggVars, archiverVars, schemaVars, migrationVars, processVars
  <2>2. LockInv' /\ \A t : Filled(t)' <=> Filled(t)
    BY <2>1, ArchiverKeepsLock
  <2>3. AggTypeOK' /\ RowsInv' /\ TablesInv' /\ AppliedInv'
    BY <2>1 DEF AggTypeOK, RowsInv, TablesInv, AppliedInv, Locked
  <2>4. StagedInv'
    BY <2>1, <2>2 DEF StagedInv
  <2> QED
    BY <2>2, <2>3, <2>4
<1> QED
  BY <1>1, <1>2, <1>3, <1>4, <1>5 DEF AggNext

LEMMA AggSpecInv == AggSpec => []AggInv
<1>1. AggInit => AggInv
  BY AggInitInv
<1>2. AggInv /\ [AggNext]_aggVars => AggInv'
  BY AggStepInv
<1> QED
  BY <1>1, <1>2, PTL DEF AggSpec

(***************************************************************************)
(* However many writers, processes and rows there are, every variable of   *)
(* Aggregates keeps its type.                                              *)
(***************************************************************************)
THEOREM AggTypeCorrect == AggSpec => []AggTypeOK
<1>1. AggInv => AggTypeOK
  OBVIOUS
<1> QED
  BY <1>1, AggSpecInv, PTL

(***************************************************************************)
(* The optimised search misses exactly the rows inserted between the copy  *)
(* of their table and its trigger, for any migrations, drops, rollbacks    *)
(* and deadlocks.                                                          *)
(***************************************************************************)
THEOREM OptimisedMissesOnlyLate == AggSpec => []MissesOnlyLate
<1>1. AggInv => MissesOnlyLate
  BY DEF AppliedInv, MissesOnlyLate, Fetch, InTable
<1> QED
  BY <1>1, AggSpecInv, PTL

(***************************************************************************)
(* Between the check and the migration the schema may change, but the      *)
(* migration's transaction always finds the one it is for.                 *)
(***************************************************************************)
THEOREM MigrationFindsItsSchema == AggSpec => []MigrationFits
<1>1. AggInv => MigrationFits
  BY InsideFacts DEF MigrationFits
<1> QED
  BY <1>1, AggSpecInv, PTL

(***************************************************************************)
(* A command that reports success leaves the schema as it was asked to,    *)
(* whatever other commands run at the same time.                           *)
(***************************************************************************)
THEOREM ExitCodesTruthful == AggSpec => ExitTruthful
<1> DEFINE Truthful ==
      \A o \in Operators :
        exit[o] = None /\ exit'[o] = 0 =>
          /\ command[o] \in {"apply", "check"} => applied'
          /\ command[o] = "drop" => ~applied'
<1>1. ASSUME AggInv, [AggNext]_aggVars PROVE Truthful
  <2> SUFFICES ASSUME NEW o \in Operators, exit[o] = None, exit'[o] = 0
               PROVE  /\ command[o] \in {"apply", "check"} => applied'
                      /\ command[o] = "drop" => ~applied'
    OBVIOUS
  <2>0. /\ command[o] \in {"apply", "drop", "check"}
        /\ exit' # exit
    BY <1>1, NoneAssumption DEF AggTypeOK
  <2>1. ASSUME NEW p \in Operators, NEW c, Exits(p, c) PROVE p = o /\ c = 0
    BY <1>1, <2>1, NoneAssumption DEF Exits, AggTypeOK
  <2>2. ASSUME NEW a \in Archivers,
               ArchiverStep(a) \/ RollBack(a) \/ (\E r \in Rows : Ask(a, r)) \/ Undone(a)
        PROVE  FALSE
    BY <2>0, <2>2 DEF ArchiverStep, RollBack, Ask, InsertRow, CommitBlock, Undone,
                      processVars
  <2>3. ASSUME NEW p \in Operators, Fails(p) \/ Aborted(p) PROVE FALSE
    BY <2>1, <2>3 DEF Fails, Aborted
  <2>4. ASSUME NEW p \in Operators, NEW c \in {"apply", "drop", "check"}, Run(p, c)
        PROVE  FALSE
    BY <1>1, <2>4, NoneAssumption DEF Run, AggTypeOK
  <2>5. ASSUME NEW p \in Operators, Check(p)
        PROVE  applied' = (command[o] # "drop")
    <3>1. UNCHANGED applied /\ command[p] \in {"apply", "drop", "check"}
      BY <1>1, <2>5 DEF Check, schemaVars, AggTypeOK
    <3>2. ~ Goes(p, "queue")
      BY <2>0 DEF Goes
    <3>3. CASE command[p] = "check"
      <4>1. Exits(p, IF applied THEN 0 ELSE 1)
        BY <2>5, <3>3 DEF Check
      <4>2. p = o /\ applied = TRUE
        BY <1>1, <2>1, <4>1 DEF AggTypeOK
      <4> QED
        BY <3>1, <3>3, <4>2
    <3>4. CASE command[p] = "apply"
      <4>1. applied = TRUE /\ Exits(p, 0)
        BY <1>1, <2>5, <3>2, <3>4 DEF Check, AggTypeOK
      <4> QED
        BY <2>1, <3>1, <3>4, <4>1
    <3>5. CASE command[p] = "drop"
      <4>1. Exits(p, 1)
        BY <2>5, <3>2, <3>5 DEF Check
      <4> QED
        BY <2>1, <4>1
    <3> QED
      BY <3>1, <3>3, <3>4, <3>5
  <2>6. ASSUME NEW p \in Operators, TakeLock(p)
        PROVE  applied' = (command[o] # "drop")
    <3>1. Exits(p, 0) /\ NothingToDo(p) /\ UNCHANGED applied /\ command[p] # "check"
      BY <1>1, <2>0, <2>6 DEF TakeLock, Goes, schemaVars, LockInv
    <3>2. p = o
      BY <2>1, <3>1
    <3>3. (command[o] = "apply") = applied
      BY <3>1, <3>2 DEF NothingToDo
    <3> QED
      BY <2>0, <3>1, <3>2, <3>3
  <2>7. ASSUME NEW p \in Operators, Commit(p)
        PROVE  applied' = (command[o] # "drop")
    <3>1. p = o /\ applied' = (command[p] = "apply") /\ InTransaction(p)
      BY <2>1, <2>7 DEF Commit, InTransaction
    <3> QED
      BY <1>1, <3>1, InsideFacts
  <2>8. ASSUME NEW p \in Operators, Populate(p) \/ Populated(p) \/ LockTable(p)
        PROVE  FALSE
    BY <2>0, <2>8 DEF Populate, Populated, LockTable, Goes
  <2>9. CASE Detect
    BY <2>2, <2>3, <2>9 DEF Detect
  <2>10. CASE UNCHANGED aggVars
    BY <2>0, <2>10 DEF aggVars, processVars
  <2> QED
    BY <1>1, <2>2, <2>3, <2>4, <2>5, <2>6, <2>7, <2>8, <2>9, <2>10
    DEF AggNext, ProcessStep
<1>2. AggInv /\ [AggNext]_aggVars => Truthful
  BY <1>1
<1> QED
  BY <1>2, AggSpecInv, PTL DEF AggSpec, ExitTruthful

-----------------------------------------------------------------------------
\* A statement of o's brings it nearer to its end.
LEMMA StatementAdvances ==
  ASSUME AggInv, NEW o \in Operators, ProcessStep(o)
  PROVE  CommandLeft(o)' \in Int /\ CommandLeft(o)' < CommandLeft(o)
<1>1. at \in 1..4 /\ phase \in [Operators -> {"idle", "check", "queue", "copy", "copied",
                                             "ask", "commit"}]
  BY DEF AggTypeOK
<1>2. phase[o] \in {"copy", "copied", "ask"} => at \in 1..3
  BY <1>1 DEF LockInv, InTransaction
<1>3. CASE Check(o)
  <2>1. phase[o] = "check" /\ phase' \in {[phase EXCEPT ![o] = "idle"], [phase EXCEPT ![o] = "queue"]}
    BY <1>3 DEF Check, Exits, Goes, AggTypeOK
  <2> QED
    BY <1>1, <2>1 DEF CommandLeft
<1>4. CASE TakeLock(o)
  <2>1. /\ phase[o] = "queue" /\ at' = at
        /\ phase'[o] \in {"idle", "copy", "ask"}
    BY <1>1, <1>4 DEF TakeLock, Exits, Goes
  <2> QED
    BY <1>1, <2>1 DEF CommandLeft
<1>5. CASE Populate(o)
  <2>1. phase[o] = "copy" /\ at' = at /\ phase'[o] = "copied"
    BY <1>1, <1>5 DEF Populate, Goes
  <2> QED
    BY <1>1, <2>1 DEF CommandLeft
<1>6. CASE Populated(o)
  <2>1. phase[o] = "copied" /\ at' = at /\ phase'[o] = "ask"
    BY <1>1, <1>6 DEF Populated, Goes, migrationVars
  <2> QED
    BY <1>1, <2>1 DEF CommandLeft
<1>7. CASE LockTable(o)
  <2>1. /\ phase[o] = "ask" /\ at' = at + 1
        /\ phase'[o] \in {"commit", "copy", "ask"} /\ (at = 3 <=> phase'[o] = "commit")
    BY <1>1, <1>7 DEF LockTable, Goes
  <2>2. CASE at = 3
    BY <2>1, <2>2 DEF CommandLeft
  <2>3. CASE at # 3
    BY <1>2, <2>1, <2>3 DEF CommandLeft
  <2> QED
    BY <2>2, <2>3
<1>8. CASE Commit(o)
  <2>1. phase[o] = "commit" /\ phase'[o] = "idle"
    BY <1>1, <1>8 DEF Commit, Exits
  <2> QED
    BY <2>1 DEF CommandLeft
<1> QED
  BY <1>3, <1>4, <1>5, <1>6, <1>7, <1>8 DEF ProcessStep

\* Another process does not touch o, nor, while o has the lock, the table it is at.
LEMMA OthersLeaveAlone ==
  ASSUME AggInv, NEW o \in Operators, NEW p \in Operators, p # o,
         ProcessStep(p) \/ Fails(p) \/ Aborted(p)
                        \/ \E c \in {"apply", "drop", "check"} : Run(p, c)
  PROVE  CommandLeft(o)' = CommandLeft(o)
<1>1. phase'[o] = phase[o]
  BY DEF ProcessStep, Check, TakeLock, Populate, Populated, LockTable, Commit, Fails,
         Aborted, Run, Exits, Goes, AggTypeOK
<1>2. InTransaction(o) => at' = at
  <2> SUFFICES ASSUME InTransaction(o)
               PROVE  at' = at
    OBVIOUS
  <2>1. ~ InTransaction(p)
    BY DEF LockInv
  <2> QED
    BY <2>1 DEF InTransaction, ProcessStep, Check, TakeLock, Populate, Populated, LockTable,
                Commit, Fails, Aborted, Run, migrationVars
<1> QED
  BY <1>1, <1>2 DEF CommandLeft, InTransaction, AggTypeOK

(***************************************************************************)
(* Every statement of a run of search-tx-optimizations brings it nearer to *)
(* its end, and nothing that another migrator, an archiver or the deadlock *)
(* detector does takes it further away: at most twelve statements, for any *)
(* number of archivers and migrators.  What keeps it from going back is    *)
(* the advisory lock, which lets one migration at a time move from table   *)
(* to table.                                                               *)
(***************************************************************************)
THEOREM CommandRunsForward == AggSpec => CommandAdvances
<1> DEFINE Advance ==
      \A o \in Operators :
        phase[o] # "idle" =>
          /\ CommandLeft(o)' <= CommandLeft(o)
          /\ ProcessStep(o) => CommandLeft(o)' < CommandLeft(o)
<1>1. ASSUME AggInv, [AggNext]_aggVars PROVE Advance
  <2> SUFFICES ASSUME NEW o \in Operators, phase[o] # "idle"
               PROVE  CommandLeft(o)' <= CommandLeft(o)
    BY <1>1, StatementAdvances
  <2>1. CommandLeft(o) \in Int
    BY <1>1 DEF CommandLeft, AggTypeOK
  <2>2. ASSUME UNCHANGED <<phase, at>>
        PROVE  CommandLeft(o)' = CommandLeft(o)
    BY <2>2 DEF CommandLeft
  <2>3. ASSUME NEW a \in Archivers,
               ArchiverStep(a) \/ RollBack(a) \/ (\E r \in Rows : Ask(a, r)) \/ Undone(a)
        PROVE  UNCHANGED <<phase, at>>
    BY <2>3 DEF ArchiverStep, RollBack, Ask, InsertRow, CommitBlock, Undone, processVars,
                migrationVars
  <2>4. ASSUME Aborted(o) \/ Fails(o)
        PROVE  CommandLeft(o)' <= CommandLeft(o)
    <3>1. phase'[o] = "idle"
      BY <1>1, <2>4 DEF Aborted, Fails, Exits, AggTypeOK
    <3>2. CommandLeft(o)' = 0
      BY <3>1 DEF CommandLeft
    <3>3. CommandLeft(o) >= 0
      BY <1>1 DEF CommandLeft, AggTypeOK, LockInv, InTransaction
    <3> QED
      BY <2>1, <3>2, <3>3
  <2>5. ASSUME NEW p \in Operators,
               ProcessStep(p) \/ Fails(p) \/ Aborted(p)
                              \/ \E c \in {"apply", "drop", "check"} : Run(p, c)
        PROVE  CommandLeft(o)' <= CommandLeft(o)
    <3>1. CASE p # o
      BY <1>1, <2>1, <2>5, <3>1, OthersLeaveAlone
    <3>2. CASE p = o
      <4>1. ~ \E c \in {"apply", "drop", "check"} : Run(o, c)
        BY DEF Run
      <4>2. CASE ProcessStep(o)
        <5>1. CommandLeft(o)' \in Int /\ CommandLeft(o)' < CommandLeft(o)
          BY <1>1, <4>2, StatementAdvances
        <5> QED
          BY <2>1, <5>1
      <4> QED
        BY <2>4, <2>5, <3>2, <4>1, <4>2
    <3> QED
      BY <3>1, <3>2
  <2>6. CASE AggNext
    BY <2>1, <2>2, <2>3, <2>5, <2>6 DEF AggNext, Detect
  <2>7. CASE UNCHANGED aggVars
    BY <2>1, <2>2, <2>7 DEF aggVars, processVars, migrationVars
  <2> QED
    BY <1>1, <2>6, <2>7
<1>2. AggInv /\ [AggNext]_aggVars => [Advance]_aggVars
  BY <1>1
<1> QED
  BY <1>2, AggSpecInv, PTL DEF AggSpec, CommandAdvances
=============================================================================
