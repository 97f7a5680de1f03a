\* A USB board, lost messages, kills, reboots and unplugging; a deploy never
\* meets a board in the middle of a trial.  FairSpec adds that the host runs.
SPECIFICATION FairSpec
CONSTANTS
  Digests <- MCDigests
  Speech <- MCSpeech
  NoDigest = "none"
  Factory = "factory"
  Transport = "usb"
  Lossy = TRUE
  ConnectMidTrial = FALSE
  Retries = 1
  MaxDeploys = 3
  MaxMishaps = 2
INVARIANTS
  TypeOK
  RollbackKept
  ConfirmedOnlyThroughContract
  ContractLossNeverPermanent
  WrongContractNeverConfirmed
PROPERTIES
  SuccessMeansRunning
  TrialBootSpec
  DeployEnds
  LostBoardIsNoticed
CHECK_DEADLOCK FALSE
