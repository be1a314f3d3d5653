SPECIFICATION Spec
CONSTANTS
  contact = contact
  setting = setting
  r1 = r1
  r2 = r2
  Namespaces <- MCContactOnly
  Row <- MCRow
  InitialRows <- MCUnseeded
  MaxIndex = 3
INVARIANTS
  IInv
PROPERTIES
  HistoryImmutable
  HistorySpec
