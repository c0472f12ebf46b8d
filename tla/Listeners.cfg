SPECIFICATION FairManagerSpec
CONSTANTS
  Builtins = {}
  CatalogV1 = {}
  Retired = {}
  Customs = {}
  Uploads = {}
  Url <- NoUrls
  UrlKey <- NoUrls
  Groups = {"g"}
  Strategies = {"sticky"}
  Reserved = {"ANY", "DIRECT"}
  GroupAny = "ANY"
  GroupDirect = "DIRECT"
  RuleIds = {}
  Presets = {}
  GFWPreset <- NoPreset
  MatchId = "match"
  Hosts = {}
  Covers <- NoCovers
  Listeners = {"l1", "l2"}
  Ports = {1, 2}
  Targets = {"rules", "g"}
  Options = {"legacy", "default"}
  LegacyURL = "legacy"
  DefaultURL = "default"
  None = None
  MaxSources = 0
  MaxRules = 1
  MaxGroups = 1
  MaxListeners = 2
  LegacyStates = {}
  MaxOps = 3
  MaxCrashes = 0
INVARIANTS
  RuntimeMatches
  ServersAccounted
PROPERTIES
  DeathIsHandled
CHECK_DEADLOCK FALSE
