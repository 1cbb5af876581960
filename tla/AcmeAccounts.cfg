\* Two requests at a time, two keys, two tokens, two faults
\* and a clock.
SPECIFICATION Spec
SYMMETRY Symmetry
CONSTANTS
  Workers = {w1, w2}
  Keys = {k1, k2}
  ECKeys = {k1}
  Tokens = {t1, t2}
  Ids = {i1, i2}
  TokenTTL = 1
  None = None
  MaxFaults = 2
  MaxNonces = 2
  NonceTTL = 1
  MaxTime = 1
INVARIANTS
  OneAccountPerKey
  AccountBacked
  TokenAccounted
  LocationIsOwn
PROPERTIES
  ImplementsClaimOnce
