SPECIFICATION SidesSpec
CONSTANTS
  Keys = {"clash/default", "happ/default"}
  Formats = {"clash", "happ"}
  FormatOf <- MCFormatOf
  Order <- MCOrder
  Contents = {"v1", "v2"}
  Admins = {a1}
  Importers = {i1, i2}
  MaxStamp = 4
  MaxReleases = 1
  None = None
  Profiles = {"premium"}
  Readers = {r1, r2}
  Savers = {w1, w2}
  CacheStamps = 3
SYMMETRY Symmetry
INVARIANTS TypeOK ProvenanceExact ImportedIsCurrent
PROPERTIES AdminEditsKept TemplatesFollowTable
