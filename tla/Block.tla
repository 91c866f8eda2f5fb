------------------------------- MODULE Block -------------------------------
(***************************************************************************)
(* /block, src/src/api/block.rs: which block a partial identifier stands   *)
(* for, and what is read of it.                                            *)
(*                                                                         *)
(* The request may give a height, a hash, both or neither.  For a height   *)
(* alone the handler first asks how far the chain is settled, and then     *)
(* looks for a canonical block or along the best chain.  Each query is a   *)
(* statement of its own, and the archiver writes in between.  Commands are *)
(* written with their block and never changed, so that only which tables   *)
(* have been read is kept.                                                 *)
(***************************************************************************)
EXTENDS Archive

VARIABLES
  phase,         \* where the request is
  index,         \* the height it gives, or None
  hash,          \* the hash it gives, or None
  maxCanonical,  \* max_canonical_height, as the handler read it
  found,         \* the block_metadata
  parent,        \* the parent_block_metadata
  unread         \* the command tables still to be read

blockVars == <<phase, index, hash, maxCanonical, found, parent, unread>>

-----------------------------------------------------------------------------
BlockPhases == {"idle", "metadata", "byIndex", "parent", "commands",
                "answered", "missing", "failed", "panicked"}
BlockDone == {"answered", "missing", "failed", "panicked"}
CommandTables == {"user", "internal", "zkapp"}

\* The heights requests name: those of blocks, and one above each.
Heights == {Height[b] : b \in Blocks} \cup {Height[b] + 1 : b \in Blocks}

\* What a height stands for: the block of the best chain at that height.
OnBestChain(i) ==
  IF \E b \in QueryBest : \E c \in Line[b] : Height[c] = i
  THEN CHOOSE c \in Line[Best] : Height[c] = i
  ELSE None

BlockInit ==
  /\ phase = "idle"
  /\ index = None /\ hash = None
  /\ maxCanonical = 0
  /\ found = None /\ parent = None /\ unread = {}

-----------------------------------------------------------------------------
\* The request is in, and validate_network has let it pass.
AskBlock(i, h) ==
  /\ phase = "idle"
  /\ phase' = "metadata"
  /\ index' = i
  /\ hash' = h
  /\ UNCHANGED <<status, maxCanonical, found, parent, unread>>

\* Mutant: the block is taken for granted.
BugTake(b) ==
  /\ found' = b
  /\ phase' = "parent"
  /\ UNCHANGED <<status, index, hash, maxCanonical, parent, unread>>

\* The handler goes on with the block one statement has returned.
Take(b) ==
  /\ found' = b
  /\ phase' = IF b = None THEN "missing" ELSE "parent"
  /\ UNCHANGED <<status, index, hash, maxCanonical, parent, unread>>

\* block_metadata, the cases of one statement: both, hash, or neither.
Lookup ==
  /\ phase = "metadata"
  /\ index = None \/ hash # None
  /\ \E b \in FetchOptional(IF index # None THEN QueryBoth(index, hash)
                            ELSE IF hash # None THEN QueryHash(hash)
                            ELSE QueryBest) : Take(b)

\* block_metadata, a height alone: the first statement.  unwrap() panics
\* while nothing is canonical.
ReadMaxCanonical ==
  /\ phase = "metadata"
  /\ index # None /\ hash = None
  /\ IF Canonical = {}
     THEN /\ phase' = "panicked"
          /\ UNCHANGED maxCanonical
     ELSE /\ phase' = "byIndex"
          /\ maxCanonical' = MaxCanonicalHeight
  /\ UNCHANGED <<status, index, hash, found, parent, unread>>

\* The second statement.
LookupByIndex ==
  /\ phase = "byIndex"
  /\ \E b \in FetchOptional(IF index <= maxCanonical THEN QueryCanonical(index)
                            ELSE QueryPending(index)) : Take(b)

\* query_id.sql for the parent; the first block has none and names itself.
ReadParent ==
  /\ phase = "parent"
  /\ parent' = IF Parent(found) \in Stored THEN Parent(found) ELSE found
  /\ phase' = "commands"
  /\ unread' = CommandTables
  /\ UNCHANGED <<status, index, hash, maxCanonical, found>>

\* try_join! of three statements, in any order.
ReadCommands(t) ==
  /\ phase = "commands"
  /\ t \in unread
  /\ unread' = unread \ {t}
  /\ phase' = IF unread' = {} THEN "answered" ELSE "commands"
  /\ UNCHANGED <<status, index, hash, maxCanonical, found, parent>>

\* A statement fails: the first ? ends the request.
BlockFails ==
  /\ phase \in {"metadata", "byIndex", "parent", "commands"}
  /\ phase' = "failed"
  /\ unread' = {}
  /\ UNCHANGED <<status, index, hash, maxCanonical, found, parent>>

\* The response goes out, and the next request may come.
BlockReplied ==
  /\ phase \in BlockDone
  /\ phase' = "idle"
  /\ index' = None /\ hash' = None
  /\ maxCanonical' = 0
  /\ found' = None /\ parent' = None /\ unread' = {}
  /\ UNCHANGED status

BlockStep ==
  \/ Lookup \/ ReadMaxCanonical \/ LookupByIndex \/ ReadParent
  \/ \E t \in CommandTables : ReadCommands(t)
  \/ BlockFails \/ BlockReplied

-----------------------------------------------------------------------------
BlockTypeOK ==
  /\ phase \in BlockPhases
  /\ index \in Heights \cup {None}
  /\ hash \in Blocks \cup {None}
  /\ maxCanonical \in Nat
  /\ found \in Blocks \cup {None}
  /\ parent \in Blocks \cup {None}
  /\ unread \subseteq CommandTables
  /\ phase = "byIndex" => index # None /\ hash = None
  /\ phase \in {"parent", "commands", "answered"} => found \in Stored
  /\ phase \in {"commands", "answered"} => parent \in Stored
  /\ unread # {} <=> phase = "commands"

(***************************************************************************)
(* A height stands for the block of the best chain at that height, settled *)
(* or not, also when the chain grows, forks or settles one more height     *)
(* between the two statements: query_pending goes one block into the       *)
(* settled part for that.  Were two or more heights settled in between, a  *)
(* block may be missed, but no other one is ever answered.                 *)
(***************************************************************************)
IndexLookupRight ==
  [][phase = "byIndex" /\ phase' \in {"parent", "missing"}
       => IF MaxCanonicalHeight <= maxCanonical + 1
          THEN found' = OnBestChain(index)
          ELSE found' \in {None, OnBestChain(index)}]_<<status, blockVars>>
=============================================================================
