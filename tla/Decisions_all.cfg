SPECIFICATION MCSpec
CONSTANTS
  Editors = {"a", "b"}
  Paths = {"f", "g"}
  Lines = {"x", "y"}
  Layouts = {{"f"}}
  MaxEdits = 1
  MaxForeign = 1
  Texts <- MCTexts
  Contexts <- MCContexts
  NewTexts <- MCNewTexts
  GateModes = {"read-only", "safe", "normal", "auto"}
  NetworkAccess = {"ask", "allow", "deny"}
  RuleLists <- MCRuleLists
  GateCalls <- MCCalls
  HookCommands = {"no hook", "make"}
  MaxGateCalls = 2
  SourceFiles <- MCFiles
  Workspaces <- MCWorkspaces
  MaxChanged = 2
  OutputLimit = 2
  MaxPrinted = 2
  Callers = {"a", "b"}
  DefaultModel <- MCDefault
  Requests <- MCRequests
  Levels <- MCLevels
  SettingModes = {"safe", "auto"}
  FileMode = "safe"
  Unselected = Unselected
  MaxSettingsCalls = 2
  MaxCrashes = 1
  Workers = {"a", "b"}
  CatalogOf <- MCCatalogOf
  Configurable <- MCConfigurable
  Builtin <- MCBuiltin
  NotFetched = NotFetched
  MaxJobs = 3
  MaxRestarts = 1
  Answers <- MCAnswers
  MilestoneSize = 2
  MaxItems = 3
  MaxSteps = 4
  MaxPlanRevisions = 2
  MaxPlanRuns = 3
  Inputs <- MCInputs
  TextSizes = {2, 45}
  Window = 14
  SizeLimit <- MCLimits
  RecentMessages = 2
  RecentResults = 2
  KeepMessages = 1
  Threshold = 12
  MaxModelTurns = 3
  MaxResults = 2
  SortedPaths <- MCPaths
  Manifests = {"m", "d/m"}
  WithLanguage = {"a", "d/b"}
  Enclosing <- MCEnclosing
  Shapes <- MCShapes
  ReportedChanges = {{"d/b", "d/m"}}
  MaxIndexFiles = 3
  MaxFileBytes = 2
  MaxTotalBytes = 3
  MaxWrites = 3
INVARIANTS TextEditsAreExact GateIsStrict VerificationIsHonest SettingsInForce
           CatalogIsKept ContextFits IndexIsTrue
PROPERTIES EditsAreSafe PlanIsFollowed
CHECK_DEADLOCK FALSE
