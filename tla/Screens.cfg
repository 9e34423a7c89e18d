SPECIFICATION Spec
CONSTANTS
  Queries <- WebQueries
  Commands <- WebCommands
  Overlooked <- WebOverlooked
  Watched <- WebWatched
  MaxWrites = 2
  MaxTroubles = 1
INVARIANTS
  OwnChangesAreShown
PROPERTY
  ChangesReachScreens
