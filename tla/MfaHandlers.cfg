SPECIFICATION Spec
CONSTANTS
  Secrets = {a, b}
  BackupCodes = {k1}
  NoSecret = NoSecret
  MaxStep = 3
  Tasks = {h1, h2}
SYMMETRY Symmetry
INVARIANT TypeOK
INVARIANT CodeOnce
INVARIANT BackupCodeOnce
PROPERTY OnlyCurrentCodeDisables
