CONSTANTS
  Requests <- All
  SLASH = "/"
  SPACE = " "
  QUERY = "?"
  EOL = "eol"
  IoSize = 10
  OutSize = 5
  VarSize = 10
  Seconds = 4
  HTTPD_TIMEOUT_SECONDS = 2
  Clocks = {TRUE, FALSE}
  MayAbort = TRUE
  MayFail = TRUE
  Lingering <- Slow
  GET = "get"
  DOT = "."
  BufSize = 16
  TextSize <- Texts
  Disks <- Drives
  Dirs <- Directories
  Entries <- Listing
  Data <- Contents
SPECIFICATION HfsSpec
INVARIANTS
  HfsInv
  AnswerIsWhole
  AnswerIsPrefix
  BatchFits
  RequestIsHeard
PROPERTIES
  ServerReturns
