SPECIFICATION Spec
CONSTANTS
  default = default
  other = other
  code = code
  edited = edited
  Users = {u1, u2}
  SubIds = {a, b}
  ClientTypes <- MCClientTypes
  Profiles = {default, other}
  Default = default
  Codes = {code, edited}
  Configs = {config}
  Encode <- MCEncode
  Blank = Blank
  Forms <- MCForms
  Service = service
  Commands = {command}
  Sessions = {s1, s2}
  NoRow = NoRow
  Unborn = Unborn
  Gone = Gone
  Anything = Anything
  MaxOps = 2
  MaxFaults = 1
SYMMETRY MCSymmetry
INVARIANTS TypeOK ServedAsSaved MigrationNeverConflicts
