CONSTANTS
  Radix = 4
  PtrMod = 16
  KB = 1
  SizeCodes = {2}
  PtrStarts = {15}
  Byte <- Bytes
  Foreign = 0
  MayAbort = FALSE
  MayReset = FALSE
  Request <- GetRequest
  OkStatus <- OkStatuses
  BufLen = 16
  PtrSize = 2
  Page = 1
  Targets = {"file"}
  Headers <- OneHeader
  Body <- Bodies
  MayFail = FALSE
SPECIFICATION WgetSpec
INVARIANTS
  OkMeansWhole
