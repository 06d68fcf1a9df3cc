CONSTANTS
  Clients = {alice, bob}
  MaxTurns = 3
  None = None
SPECIFICATION FairSpec
INVARIANTS TypeOK OneModelPerState StateCoversTranscript
PROPERTY RefusedTurnsAreAnswered
