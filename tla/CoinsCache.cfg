SPECIFICATION Spec
CONSTANTS
  OutPoints = {o1, o2}
  Coins = {c1, c2}
  NoCoin = NoCoin
  Hashes = {h1, h2}
  NullHash = NullHash
  Absent = Absent
INVARIANTS
  NeverThrows
  FlagsSound
PROPERTY
  ImplementsUtxoSet
