SPECIFICATION FairSpec
CHECK_DEADLOCK FALSE
CONSTANTS
  v1 = v1
  rival = rival
  NoTx = NoTx
  Versions = {v1}
  Rivals = {rival}
  NumConfirmations = 2
  SafeAbortNonceTooLowCount = 2
  NotFoundAnswers = {"error", "nil"}
  MaxSends = 3
  MaxEmpty = 0
  MaxMishaps = 1
INVARIANTS ReceiptConfirmed GivesUpOnlyUsedNonce
PROPERTY SendReturns
