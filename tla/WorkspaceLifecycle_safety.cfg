SPECIFICATION Spec
CONSTANTS
  Procs = {p1, p2}
  Projects <- MCProjects
  Resources = {x, y, z}
  Offers <- MCOffers
  MaxCommands = 4
  None = None
INVARIANTS ManifestAgreed PlansSound
PROPERTIES OnlyEarlierCommandsUnpause
CHECK_DEADLOCK FALSE
