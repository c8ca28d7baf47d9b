SPECIFICATION Spec
CONSTANTS
  ADDR = 2
  WORD = 5
  CTR = 3
  STRIDE = 9
  Base = 2
  ITERS = 3
  MAX_HITS = 2
  MAX_PREFIX = 3
  Mode = {"create2", "create3", "createx", "create2tag"}
  g1 = g1
  g2 = g2
  BaseSalts <- MCBaseSalts
  Deployer = Deployer
  Factory = Factory
  Owner = Owner
  Permissions = Permissions
  InitCodeHash = InitCodeHash
  Prefix = Prefix
  Literal = Literal
  Nothing = Nothing
  ProxyHash = ProxyHash
INVARIANTS KernelAgreesWithHost HitsReadBack CandidateIsUnique
