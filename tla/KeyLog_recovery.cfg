SPECIFICATION Spec
CONSTANTS
  e = e
  i1 = i1
  i2 = i2
  Identity = {e, i1, i2}
  None = None
  Plaintext = Plaintext
  Malformed = Malformed
  Environment = {None, Malformed, e}
  Faults = {"crash", "write", "encode", "keygen"}
  Arguments <- MCArguments
  UnknownFlag = {"--reveal8"}
  Number <- MCNumber
  Bytes <- MCBytes
  Long = {}
  AddressOf <- MCAddressOf
  Addresses <- MCAddresses
  MaxKeys = 3
  MaxTorn = 2
SYMMETRY GeneratedSymmetry
INVARIANTS NoFalseRecovery ColumnsNameTheKey LossBounded FailClosed SecretsKept
