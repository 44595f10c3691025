CONSTANTS
  a1 = a1
  a2 = a2
  a3 = a3
  a4 = a4
  d1 = d1
  d2 = d2
  d3 = d3
  c1 = c1
  c2 = c2
  c3 = c3
  Account = {a1, a2, a3, a4}
  NameOf <- Names
  First = a1
  Call = {c1, c2, c3}
  Doc = {d1, d2, d3}
  Old = d1
  Scenarios <- AllThree
  MaxAccounts = 2
  DocLimit <- FreeOneProTwo
  ByteLimit <- FreeTwoProFour
  Contents = {1, 2}
  Original = 1
SPECIFICATION FairSpec
INVARIANT TypeOK
INVARIANT AccountCap
INVARIANT OneWinner
INVARIANT FilesBelong
PROPERTY WithinCapacity
PROPERTY LeftoversGo
CHECK_DEADLOCK FALSE
