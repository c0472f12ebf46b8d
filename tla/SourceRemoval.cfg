SPECIFICATION Spec
CONSTANTS
  Builtins = {"new", "stale"}
  CatalogV1 = {"new"}
  Retired = {"stale"}
  Customs = {"copy", "own"}
  Uploads = {"upload"}
  Url <- MCUrl
  UrlKey <- MCUrlKey
  Groups = {"g"}
  Strategies = {"sticky"}
  Reserved = {"ANY", "DIRECT"}
  GroupAny = "ANY"
  GroupDirect = "DIRECT"
  RuleIds = {"r1"}
  Presets = {"lan", "gfw"}
  GFWPreset <- MCPreset
  MatchId = "match"
  Hosts = {"h1", "h2", "h3"}
  Covers <- MCCovers
  Listeners = {}
  Ports = {}
  Options = {"legacy", "default"}
  LegacyURL = "legacy"
  DefaultURL = "default"
  None = None
  MaxSources = 3
  MaxRules = 3
  MaxGroups = 1
  MaxListeners = 0
  LegacyStates = {"on"}
  MaxOps = 3
  MaxCrashes = 1
CHECK_DEADLOCK FALSE
INVARIANT RemovalRetires
