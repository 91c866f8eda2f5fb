SPECIFICATION ConstructSpec
CONSTANTS
  a = a
  b = b
  c = c
  o = o
  x = x
  mina = mina
  other = other
  bad = bad
  memo = memo
  long = long
  None = None
  MaxI64 = 7
  MaxU32 = 3
  Strings = {a, b, c, o, x}
  Keys = {a, b, o}
  Points = {a, b}
  Checked = {a, b, c, o}
  Tokens = {mina, other, bad}
  DefaultToken = mina
  Base58 = {mina, other}
  EmptyMemo = EmptyMemo
  Memos = {EmptyMemo, memo, long}
  ShortMemos = {EmptyMemo, memo}
  Requests <- MCRequests
  MinFee = 2
  BestFees <- MCBestFees
  MaxNonce = 1
INVARIANTS
  ConstructTypeOK
  SignedIsMeant
  HashIsOfSigned
  RefusedForCause
