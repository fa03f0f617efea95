SPECIFICATION LeaseFairSpec
CONSTANTS
  Nodes = {n1, n2, n3}
  Nobody = Nobody
  TTL = 4
  MaxSkew = 1
INVARIANTS
  OnePrimary
PROPERTIES
  TakenOver
