SPECIFICATION Spec
CONSTANTS
  Lines <- MCLines
  Envs <- MCEnvs
  Flags <- MCFlags
  Home <- MCHome
  MaxLines = 3
  MinTTL = 1
  DefaultTTL = 2
  MaxTTL = 3
  DefaultURL = DefaultURL
  DefaultStore = DefaultStore
  OtherStore = OtherStore
  TildeStore = TildeStore
  Mirror = Mirror
  NaN = NaN
  PosInf = PosInf
  NegInf = NegInf
  Words = Words
  Unreadable = Unreadable
  None = None
INVARIANTS TypeOK TTLInRange Precedence
PROPERTY FetchesSpaced
