\* Two calls at a time, over the files of one process or over Vault or a
\* token from one or two replicas; three faults.
SPECIFICATION FairSpec
CONSTANTS
  Workers = {"w1", "w2"}
  Processes = {"x1", "x2"}
  Refs = {"f1"}
  Keys = {"k1", "k2", "k3"}
  None = None
  Torn = Torn
  FreshAttempts = 1
  MaxFaults = 3
PROPERTIES
  ImplementsKeyMap
  CallsEnd
