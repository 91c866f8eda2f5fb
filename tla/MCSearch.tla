------------------------------ MODULE MCSearch ------------------------------
(***************************************************************************)
(* Search over two commands of each table in four blocks: one settled,     *)
(* two rivals, and one on top.  The second user command has a receiver     *)
(* with two account identifiers.                                           *)
(***************************************************************************)
EXTENDS Search, TLC

MCCommands == 1..6
MCTableOf == <<"user", "internal", "zkapp", "user", "internal", "zkapp">>
MCBlocks == 1..3
MCBlockOf == <<1, 1, 1, 2, 3, 3>>
MCHeight == <<1, 2, 2>>
MCAccounts == {"mina", "token"}
MCAccountsOf == [c \in MCCommands |-> IF c = 4 THEN {"mina", "token"} ELSE {"mina"}]
=============================================================================
