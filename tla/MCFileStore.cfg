CONSTANTS
  p1 = p1
  p2 = p2
  Processes = {p1, p2}
  MaxIds = 2
  MaxRuns = 2
  MaxEvents = 2
  MaxCrashes = 1
SYMMETRY ProcessSymmetry
SPECIFICATION Spec
INVARIANTS FilesArePrefixes KeptRunsAreComplete CopiesAreHonest
PROPERTY KeepsDirectory
