CONSTANTS
  Clients = {alice, bob}
  MaxTurns = 3
  None = None
SPECIFICATION Spec
INVARIANT ChatAnswers
