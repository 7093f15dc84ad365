CONSTANTS
  dat = dat
  arb = arb
  replset = replset
  Servers = {dat, arb}
  Groups = {replset}
  GroupOf <- MCGroupOf
  KindOf <- MCKindOf
  Mongos = mongos
  Commands = {c1}
  Options <- MCOptions
  proc1 = proc1
  proc2 = proc2
  l1 = l1
  l2 = l2
  l3 = l3
  ListCalls = {l1, l2, l3}
  Process <- MCProcess
  Clearers <- MCClearers
  CacheTime = 1
  MaxClock = 3
  MaxRounds = 1
  Absent = Absent
  Fetches = {f1, f2, f3}
  Schemes = {"ssh", "http"}
  NoRequest = NoRequest
  Timeouts = {"given", "omitted", "undefined"}
  HttpRequests = {h1, h2}
  MaxCodes = 3
  fa = fa
  fx = fx
  fb = fb
  aDoc = aDoc
  aStr = aStr
  xStr = xStr
  bStr = bStr
  d1 = d1
  d2 = d2
  d3 = d3
  Fields = {fa, fb, fx}
  Types = {aDoc, aStr, xStr, bStr}
  Parent <- MCParent
  Documents = {d1, d2, d3}
  Visits <- MCVisits
  Limit = 2
  Root = Root
  core = core
  lib = lib
  app = app
  Packages = {core, lib, app}
  Deps <- MCDeps
  First <- MCFirst
  Initial = {"exact", "*"}
  Skipped = {}
  MaxRuns = 2
  NoPackage = NoPackage
  AgentRequests = {r1, r2}
  Keys = {k1, k2, k3}
  CacheSize = 2
  Nil = Nil
  MaxAgents = 5
  Completions = {q1, q2}
  Connections = {conn}
  Databases = {db1, db2}
  Collections = {coll1, coll2}
  Schemas = {shape1, shape2}
  Unset = Unset
  MaxEvents = 3
  RootPackage = 3
  DepGroups <- MCGroups
  Ranges <- MCRanges
  Star = Star
  dir = dir
  Locations = {dir}
  NoRange = NoRange
  InitialDeps <- MCInitial
  Ignores <- MCIgnores
  CommandLines <- MCCommandLines
  MaxDepalignRuns = 2
  Builds = {b1, b2}
  Vulnerabilities = {1, 2, 3}
  Severe = {1, 2}
  Fixable = {1}
  Licenses = {3}
  NoVulnerability = NoVulnerability
  MaxReports = 3
  Jobs = {"ssh1", "ssh2", "here1", "here2"}
  Remote = {"ssh1", "ssh2"}
  Detached = {"ssh2", "here1"}
  LogServers = {"server1", "server2"}
  Conns = {"conn1"}
  WarningIds = {"warning"}
  Subscriptions = {"allow1", "allow2"}
  FilterOf <- MCFilterOf
  AllowedBy <- MCAllowedBy
  MaxWarnings = 1
  MaxCheckers = 2
  LastPort = 2
  MaxStarts = 2
  MaxLines = 1
  MaxEntries = 3
  Flushes = {w1, w2}
  SampleDocuments <- MCSamples
  MaxSamples = 2
  SchemaCalls = {a1, a2}
  NoSchema = NoSchema
  TsFiles = {"main", "types", "lib"}
  Main = "main"
  OnDisk = {"lib"}
  TsTexts = {"text1", "text2"}
  NoText = NoText
  MaxUpdates = 3
  Hosts <- MCHosts
  ListsOf <- MCListsOf
  Wishes <- MCWishes
  Unknown = Unknown
  RouteOptions <- MCRouteOptions
  Urls <- MCUrls
  Direct = Direct
  LocalServer = LocalServer
  Throws = Throws
  NotYet = NotYet
  QueryValues <- MCQueryValues
  QueryTexts <- MCQueryTexts
  Garbled = Garbled
  BlankText = BlankText
  Failure = Failure
  NoValue = NoValue
  Half = 4
  Plans <- MCPlans
  ComposeFiles <- MCComposeFiles
  PortRange = {1, 2, 3, 4}
  NoPort = NoPort
  NoName = NoName
  Unasked = Unasked
SPECIFICATION Spec
VIEW View
CONSTRAINT Bounds
CHECK_DEADLOCK FALSE
INVARIANTS ServicesTypeOK ClustersAreFound CacheIsSound LockServesItsHolder ProxiesAreRight
INVARIANTS ToldWhy CodesAreSpentOnce DocumentsSurvive BumpsFollowDependencies TicketsMatch
INVARIANTS DownloadIsBest SigningIsSound ServersAreSound LogIsInOrder
PROPERTIES CompletionsAreCurrent RunsConverge
