\* A second deploy meets the board in mid-trial (restart policy).
SPECIFICATION Spec
CONSTANTS
  Digests <- AllDigests
  Speech <- AllSpeech
  NoDigest = "none"
  Factory = "factory"
  Transport = "usb"
  Lossy = FALSE
  ConnectMidTrial = TRUE
  Retries = 1
  MaxDeploys = 2
  MaxMishaps = 0
INVARIANTS
  WrongContractNeverConfirmed
CHECK_DEADLOCK FALSE
