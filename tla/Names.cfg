SPECIFICATION Spec
CONSTANTS
  root = root  kid = kid  grandkid = grandkid  None = None
  Bus <- ThreeBuses
  Root = root
  Parent <- InARow
  Name = {n1, n2}
  Channel = {c1, c2}
  Adapter = {a}
  MaxSteps = 7
SYMMETRY Interchangeable
INVARIANTS
  TypeOK
  LookupsFailForACause
  NoNamesOfTheDead
PROPERTIES
  NamesKeepMeaning
  NobodyIsCutOff
\* The steps are bounded.
CHECK_DEADLOCK FALSE
