SPECIFICATION Spec
CONSTANTS
  a1 = a1
  a11 = a11
  p1 = p1
  p11 = p11
  NoSource = NoSource
  Protocol = {"tftp", "all"}
  AllProtocol = "all"
  Address = {a1, a11}
  Port = {p1, p11}
  NamePrefix <- Prefixes
  Addressing <- Addressings
  s1 = s1
  s2 = s2
  Session = {s1, s2}
SYMMETRY Symmetry
PROPERTIES
  Obeyed
  OneSourceAgain
  OthersKept
