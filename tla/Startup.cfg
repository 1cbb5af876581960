\* A rolling upgrade of two replicas on one shared vault-like keystore, one
\* with the TSA on; a statement or a call fails, a process dies or a session
\* is lost.
SPECIFICATION FairStartup
\* Processes are started again only as often as the bound allows.
CHECK_DEADLOCK FALSE
CONSTANTS
  Replicas = {"x1", "x2"}
  Ships <- Upgrade
  MaxFaults = 1
  Keystores = {"d1"}
  Keystore <- Shared
  Replaces = FALSE
  TSAFlags <- OneWithTSA
  Issuable = {"server-tls"}
  None = None
  MaxStarts = 3
  MaxExits = 1
  MaxLost = 1
INVARIANTS
  SchemaRecorded
  InOrder
  UpMigrated
  OneOfEach
  UpConsistent
PROPERTIES
  StartsEnd
