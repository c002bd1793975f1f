SPECIFICATION Spec
CONSTANTS
  s1 = s1
  s2 = s2
  Session = {s1, s2}
  Command <- Representative
  Interval = {6000}
  Default = 5000
INVARIANTS
  KeepNotValidated
  FeaturesFollow
  ConfigurationRestores
PROPERTY CatchesUp
