CONSTANTS
  Radix = 4
  PtrMod = 16
  KB = 1
  SizeCodes = {2}
  PtrStarts = {15}
  Byte <- Bytes
  Foreign = 0
  MayAbort = TRUE
  MayReset = TRUE
  Request <- GetRequest
  OkStatus <- OkStatuses
  BufLen = 16
  PtrSize = 2
  Page = 1
  Targets = {"file","prodos","dos"}
  Headers <- AllHeaders
  Body <- Bodies
  MayFail = TRUE
SPECIFICATION WgetFairSpec
INVARIANTS
  WgetInv
  BodyInPlace
  RequestInOrder
  OffersWhatIsThere
PROPERTIES
  CommandsExecuted
  ProgramReturns
