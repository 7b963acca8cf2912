CONSTANTS
  Keys <- MCKeys
  HalfOf <- MCHalfOf
  Algorithms = {"es256", "es384"}
  Hashes <- MCHashes
  HashLen <- MCHashLen
  Leads = {"low", "high", "zerolow", "zerohigh"}
  MaxCalls = 4
  MaxFaults = 2
  JwtKey = "p256"
  JwtAlgorithm = "es256"
  MaxPrograms = 3
SPECIFICATION JwtSpec
INVARIANTS
  JwtTypeOK
  SignatureIsOwn
  DerCarriesSignature
  TokenIsSigned
  PrintsWhatItSigned
CHECK_DEADLOCK FALSE
