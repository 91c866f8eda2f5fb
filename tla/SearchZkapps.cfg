SPECIFICATION SearchSpec
CONSTANTS
  Commands <- MCCommands
  TableOf <- MCTableOf
  Blocks <- MCBlocks
  BlockOf <- MCBlockOf
  Height <- MCHeight
  Genesis = 1
  Accounts <- MCAccounts
  AccountsOf <- MCAccountsOf
  None = None
  Limits = {0, 1, 2, 100}
  Offsets = {0, 1}
  MaxChanges = 3
INVARIANT
  BelowLimitFetchesZkapps
