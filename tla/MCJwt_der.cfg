CONSTANTS
  Keys <- MCKeys
  HalfOf <- MCHalfOf
  Algorithms = {"es256", "es384"}
  Hashes <- MCHashes
  HashLen <- MCHashLen
  Leads = {"low", "high", "zerolow", "zerohigh"}
  MaxCalls = 2
  MaxFaults = 0
  JwtKey = "p256"
  JwtAlgorithm = "es256"
  MaxPrograms = 3
SPECIFICATION JwtSpec
INVARIANT SignedIsDer
CHECK_DEADLOCK FALSE
