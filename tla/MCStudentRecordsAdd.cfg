SPECIFICATION Spec
CONSTANTS
  Procs = {p1, p2}
  Adders = {p1, p2}
  Rec = {r1, r2}
  Nothing = Nothing
  MaxRecords = 2
PROPERTIES
  AddAppends
