------------------------------ MODULE MCLedger ------------------------------
(***************************************************************************)
(* Ledger with three keys and one custom token.  Before the block one key  *)
(* has an account in the default token, a second has one in the custom     *)
(* token only, and the third has none.                                     *)
(***************************************************************************)
EXTENDS Ledger

CONSTANTS a, b, c, T

LedgersDef == {{<<a, DefaultToken>>, <<b, T>>}}

\* No update; one in the default token; one in the custom token; both.
UpdateSetsDef ==
  LET mina == [account |-> <<b, DefaultToken>>, change |-> 11]
      custom == [account |-> <<b, T>>, change |-> 5]
  IN  {{}, {mina}, {custom}, {mina, custom}}
=============================================================================
