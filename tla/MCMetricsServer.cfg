SPECIFICATION FairSpec
CONSTANTS
  MaxVersion = 1
  ExtraPaths = {"/debug"}
  MaxConns = 1
CHECK_DEADLOCK FALSE
INVARIANTS
  CallbackKnows
  HandshakeHasCertificate
PROPERTIES
  GoesBackInRaceOnly
  Refreshes
  ServerStops
