CONSTANTS
  NumVMs = 6
  MaxFaults = 2
SPECIFICATION Spec
INVARIANT TypeOK
INVARIANT AllServed
INVARIANT KeysRemoved
INVARIANT DamageTraced
INVARIANT RoundsMinimal
PROPERTY Floods
