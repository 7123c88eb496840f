SPECIFICATION Spec
CONSTANTS
  MaxRuns = 3
  Migrations = 2
  Rerunnable <- MCRerunnable
  SeedFiles = 2
  RerunnableSeeds <- MCRerunnableSeeds
  None = None
  Placeholder = Placeholder
  MaxPolls = 1
  Overlapping = 2
\* every run has ended: the system may stop
CHECK_DEADLOCK FALSE
INVARIANT IInv
INVARIANT HistoryIsTrue
INVARIANT SettingsSurvive
PROPERTY SecretIsStable
PROPERTY OnlyTornRunsBlock
PROPERTY DoneMeansComplete
PROPERTY EveryRunEnds
