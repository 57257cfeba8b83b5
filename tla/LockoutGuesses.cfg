SPECIFICATION Spec
CONSTANTS
  Tasks = {h1, h2, h3}
  MaxAttempts = 2
  Duration = 1
  Window = 1
  Retries = 2
  MaxNow = 2
SYMMETRY Symmetry
INVARIANT TypeOK
INVARIANT GuessBound
