CONSTANTS
  k1 = k1
  k2 = k2
  k3 = k3
  k4 = k4
  Keys = {k1, k2, k3}
  Values = {v1}
  Blocks = {p1, p2, p3, p4, p5, p6}
  Free = Free
  Null = Null
  Absent = Absent
  FirstSize = 1
  HashKeys = {k1, k2, k3, k4}
  Data = {v1}
  NoKey = Null
  NoData = Absent
  Hash <- MCHash
  Slots = 7
SPECIFICATION MCSpec
SYMMETRY Addresses
INVARIANTS
  Owned
  ShowsAll
  HashShowsAll
PROPERTIES
  IsDictionary
  HashIsDictionary
