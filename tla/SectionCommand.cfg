SPECIFICATION Spec
CONSTANTS
  Commands = {c1, c2, c3}
INVARIANTS TypeOK RefusedNotSent AcceptedSent RestoredAtRest
PROPERTY IgnoredOnlyWhileAway
