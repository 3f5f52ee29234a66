SPECIFICATION ReconSpec
CONSTANTS
  Host = {"www", "api"}
  Domain = {"zone"}
  Param = {"query"}
  Route = {"script"}
  Ip = {"ip1", "ip2"}
  Spelling <- PageUrls
  Normal <- Normalized
  Scopes <- ExportScopes
  Bundles <- SomeBundles
  MaxImports = 2
  Map = {"index", "part", "leaf", "foreign"}
  Page = {"home", "about", "elsewhere"}
  Allowed = {"index", "part", "leaf", "home", "about"}
  Robots <- SomeRobots
  Children <- Sites
  Locs <- SomeLocs
  DepthLimit = 4
  Name = {1, 2, 3, 4}
  Workers = 2
  Entry = {"admin", "upload", "url"}
  Absolute = {"url"}
  Base = "base"
  Wordlists <- SomeWordlists
  MaxCandidates = 2
  ContentScopes <- SomeScopes
  Pages <- SomePages
  Missing <- SomeMissing
  Decoded <- AsText
INVARIANT OneLevelDeep
CHECK_DEADLOCK FALSE
