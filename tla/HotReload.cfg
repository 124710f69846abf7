SPECIFICATION SurfacesSpec
CONSTANTS
  Readers = {r1, r2}
  Writers = {w1, w2}
  Editors = {e1, e2}
  MaxStamp = 3
  None = None
  Apps = {a1, a2}
  Html = {"layout.html"}
  Statics = {"static/style.css"}
  Others = {}
  Known = {"xui", "subscription", "server"}
  Validated = {"xui", "subscription"}
  Required = {"xui", "subscription"}
  Unknown = {"other"}
SYMMETRY Symmetry
CONSTRAINT InOrder
INVARIANTS ReloadTypeOK SettingsStayLoadable
PROPERTIES CatalogFollowsTable ThemeFollowsTables ClientFollowsSettings
