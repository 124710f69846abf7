SPECIFICATION Spec
CONSTANTS
  Readers = {r1}
  Writers = {w}
  MaxStamp = 3
  None = None
  Html = {"layout.html"}
  Statics = {"static/style.css", "static/logo.svg"}
  Others = {}
PROPERTY DeletedFileIsGone
