SPECIFICATION Spec
CONSTANTS
  CloseCodes <- MCCloseCodes
  MaxPayloads = 3
INVARIANTS TypeOK ReleasedOnce EndsAreClosed OnlyBlobsAreOvertaken NothingLostWhileOpen
PROPERTY EndsGoTogether
CHECK_DEADLOCK FALSE
