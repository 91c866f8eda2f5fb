------------------------------- MODULE Reads -------------------------------
(***************************************************************************)
(* The requests that read the archive about a block, /block and            *)
(* /account/balance, one at a time, while the archiver writes.  Handlers   *)
(* of these requests share nothing with each other but the database.       *)
(***************************************************************************)
EXTENDS Block, Balance

readsVars == <<status, blockVars, balanceVars>>

ReadsInit == ArchiveInit /\ BlockInit /\ BalanceInit

\* A request for some height, some hash, both or neither.
Ask ==
  \E i \in Heights \cup {None}, h \in Blocks \cup {None} :
    \/ AskBlock(i, h) /\ bphase = "idle" /\ UNCHANGED balanceVars
    \/ AskBalance(i, h) /\ phase = "idle" /\ UNCHANGED blockVars

\* Meanwhile the archiver adds a block.
BlockArrives(b) ==
  /\ Arrive(b)
  /\ forked' = (forked \/ (bphase \in {"find", "account"} /\ ~ OneLine(Visible')))
  /\ UNCHANGED <<blockVars, bphase, at, atHash, block, row, schedule, reply, final>>

ReadsNext ==
  \/ Ask
  \/ BlockStep /\ UNCHANGED balanceVars
  \/ BalanceStep /\ phase = "idle" /\ UNCHANGED blockVars
  \/ \E b \in Blocks : BlockArrives(b)

ReadsSpec == ReadsInit /\ [][ReadsNext]_readsVars

-----------------------------------------------------------------------------
ReadsTypeOK == ArchiveTypeOK /\ BlockTypeOK /\ BalanceTypeOK
=============================================================================
