SPECIFICATION ListSpec
CONSTANTS
  Owners = {o1, o2}
  Consumers = {c1, c2}
  TokenUsers = {c1}
  MaxProducers = 2
  MaxItems = 1
  MaxBulk = 2
  Quota = 1
  Null = Null
INVARIANTS
  OneOwner
  TriesEveryQueue
SYMMETRY Symmetry
