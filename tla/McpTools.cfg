SPECIFICATION Spec
CONSTANTS
  Watched <- MCWatched
  Timers <- MCTimers
  Half = 4
  MaxEvents = 2
  MaxChanges = 2
  Names <- MCNames
  Texts <- MCTexts
  Written <- MCWritten
  Ids = {"7"}
  PathValues <- MCPathValues
  Asked <- MCAsked
  HalfDuration = 8
  Second = 3
  HasAssets = TRUE
  Observed <- MCObserved
  Folded <- MCFolded
  Allow = {}
  Said <- MCSaid
  NotString = NotString
  Escape <- MCEscape
INVARIANTS
  TypeOK RefusedDoesNothing NothingWithoutKey SendTimers FreshTimers CutMediaIsNotSent
  RenderingConfluent ToolReachesItsHandler WellFormedCallsAreTaken ToolOkMeansHandled
  GroupCallsNameTheGroup
CHECK_DEADLOCK FALSE
