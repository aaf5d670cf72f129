SPECIFICATION Spec
CONSTANTS
  None = None
  BRL = BRL
  USD = USD
  brl = brl
  xyz = xyz
  Bits = 10
  Texts <- MCTexts
  Codes = {BRL, USD, brl, xyz, None}
  Canonical <- MCCanonical
  Columns <- MCColumns
  BaseBackoff = 20
  MaxBackoff = 100
  MaxAttempts = 12
INVARIANTS
  ArithmeticIsExact
  TextRoundTrips
  BackoffDoubles
