CONSTANTS
  Char <- Chars
  NUL = ""
  Keyboard = {"h", "/"}
  LINENOISE_MAX_LINE = 8
  LINENOISE_HISTORY_MAX_LEN = 3
  Letters = {"h", "H"}
  Digits = {"1"}
  SLASH = "/"
  DOT = "."
  PERCENT = "%"
  BANG = "!"
  Upper <- ToUpper
  NameLen = 3
  CommandLines <- Lines
  Disks <- OldDisks
  UrlChoices <- Urls
  DriveSpecs <- Specs
  Volumes <- Vols
  Directories <- Dirs
  MaxKeys = 4
  MaxRuns = 1
SPECIFICATION ArgsSpec
INVARIANTS
  LineIsString
  ArgIntact
  NameIsValid
PROPERTIES
  ImplementsLineEditor
  HistoryComesBack
CHECK_DEADLOCK FALSE
