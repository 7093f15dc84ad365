----------------------------- MODULE MCServices -----------------------------
(* The components that share nothing, checked in one run: `part` names the    *)
(* one that takes steps, the others stay as they were.                        *)
EXTENDS Runner, VersionList, Proxies, ProxyFetch, DeviceId, OidcProvider, SchemaAnalyzer,
        Completion, PackageBump, Depalign, VulnTickets, Signing, Servers, LogWriter,
        SchemaConvert, DownloadChoice, QueryText, TLC

CONSTANTS
  dat, arb, replset,                               \* Runner
  proc1, proc2, l1, l2, l3,                        \* VersionList
  fa, fx, fb, aDoc, aStr, xStr, bStr, d1, d2, d3,  \* SchemaAnalyzer
  core, lib, app,                                  \* PackageBump
  dir                                              \* Depalign

VARIABLE part

allVars == <<part, runnerVars, versionVars, proxyVars, agentCacheVars, deviceVars, providerVars,
             schemaVars, autoVars, bumpVars, depalignVars, vulnVars, signingVars, checkerVars,
             startVars, writerVars, convertVars, serviceVars, choiceVars, routeVars, textVars,
             planVars>>

MCGroupOf == dat :> replset @@ arb :> replset
MCKindOf == dat :> "data" @@ arb :> "arbiter"
Option(exec, compose, oidc, keyFile, users, lenient) ==
  [exec |-> exec, compose |-> compose, oidc |-> oidc, keyFile |-> keyFile,
   users |-> users, lenient |-> lenient]
MCOptions == {Option(FALSE, TRUE, TRUE, FALSE, FALSE, TRUE),
              Option(TRUE, FALSE, FALSE, TRUE, TRUE, FALSE),
              Option(TRUE, FALSE, TRUE, FALSE, FALSE, FALSE)}

MCProcess == l1 :> proc1 @@ l2 :> proc2 @@ l3 :> proc2
MCClearers == {proc2}

MCParent == fa :> Root @@ fb :> Root @@ fx :> aDoc @@ aDoc :> fa @@ aStr :> fa
            @@ xStr :> fx @@ bStr :> fb
MCVisits == d1 :> <<fa, aDoc, fx, xStr>> @@ d2 :> <<fa, aStr>>
            @@ d3 :> <<fa, aDoc, fb, bStr>>

Dep(from, to, dev) == [from |-> from, to |-> to, dev |-> dev]
MCDeps == {Dep(lib, core, FALSE), Dep(app, lib, FALSE), Dep(app, core, TRUE)}
MCFirst == [major |-> 1, minor |-> 9, patch |-> 0]

Low == [versions |-> {1}, exact |-> FALSE]
Wide == [versions |-> {1, 2}, exact |-> FALSE]
Pinned == [versions |-> {2}, exact |-> TRUE]
MCGroups == {"dependencies", "peerDependencies"}
MCRanges == {Low, Wide, Pinned}
MCInitial ==
  {f \in [MCGroups -> MCRanges \cup {Star, dir, NoRange}] :
     /\ f["dependencies"] \notin {Star, Pinned}
     /\ f["peerDependencies"] \in IF f["dependencies"] = dir THEN {NoRange}
                                   ELSE {NoRange, Star, Pinned}}
MCIgnores == {{}, {Wide}}
MCCommandLines ==
  {[types |-> {"prod", "dev", "optional"}, typesOnly |-> FALSE,
    skipDeduped |-> FALSE, mismatched |-> FALSE],
   [types |-> {"prod", "peer", "dev", "optional"}, typesOnly |-> FALSE,
    skipDeduped |-> FALSE, mismatched |-> FALSE],
   [types |-> {"prod"}, typesOnly |-> TRUE,
    skipDeduped |-> TRUE, mismatched |-> TRUE]}

MCFilterOf == "allow1" :> "filter" @@ "allow2" :> "filter"
MCAllowedBy == "filter" :> {"warning"}

Leaf(type) == [bsonType |-> type]
ArrayOf(items) == [bsonType |-> "Array", items |-> items]
DocumentOf(fields) == [bsonType |-> "Document", fields |-> fields]
MCSamples ==
  {DocumentOf("x" :> Leaf("Int32")), DocumentOf("x" :> Leaf("Long")),
   DocumentOf("x" :> Leaf("Double")),
   DocumentOf(<<>>), DocumentOf("x" :> Leaf("Undefined")), DocumentOf("x" :> ArrayOf(<<>>)),
   DocumentOf("x" :> ArrayOf(<<Leaf("Date"), Leaf("Undefined")>>) @@ "y" :> Leaf("Date")),
   DocumentOf("x" :> DocumentOf("y" :> Leaf("Int32"))),
   DocumentOf("x" :> ArrayOf(<<DocumentOf("x" :> Leaf("Date")),
                               DocumentOf("y" :> Leaf("Long"))>>))}

NoVersion == [major |-> 0, minor |-> 0, minorDigits |-> 0]
Release(major) == [NoVersion EXCEPT !.major = major]
MinorRelease(major, minor, n) == [major |-> major, minor |-> minor, minorDigits |-> n]
SystemOf(id, v) == [id |-> id, version |-> v, codename |-> "none"]
Linux(s) == [platform |-> "linux", osRelease |-> s, lsb |-> Unknown, distroId |-> Unknown]
MCHosts ==
  {Linux(SystemOf("rhel", MinorRelease(8, 0, 1))), Linux(SystemOf("rhel", MinorRelease(8, 3, 1))),
   Linux(SystemOf("rhel", MinorRelease(8, 10, 2))),
   Linux(SystemOf("rhel", Release(9))), Linux(SystemOf("rhel", MinorRelease(10, 0, 1))),
   Linux(SystemOf("centos", Release(8))), Linux(SystemOf("ubuntu", MinorRelease(22, 4, 2))),
   Linux(SystemOf("ubuntu", MinorRelease(25, 10, 2))), Linux(SystemOf("debian", Release(13))),
   Linux(SystemOf("amazon", MinorRelease(2018, 3, 2))), Linux(SystemOf("amazon", Release(2))),
   Linux(SystemOf("suse", MinorRelease(15, 5, 1))), Linux(SystemOf("fedora", Release(40))),
   [Linux(SystemOf("fedora", Release(40))) EXCEPT !.lsb = SystemOf("rhel", MinorRelease(7, 9, 1))],
   [Linux(SystemOf("debian", NoVersion)) EXCEPT !.osRelease.codename = "bookworm"],
   [Linux(Unknown) EXCEPT !.distroId = SystemOf("ubuntu", Release(26))],
   [Linux(Unknown) EXCEPT !.platform = "win32"], [Linux(Unknown) EXCEPT !.platform = "darwin"]}

BuildsOf ==
  {{Target("rhel", n) : n \in {72, 80, 83, 8, 93}},
   {Target("ubuntu", n) : n \in {2204, 2404, 2604}},
   {Target("debian", n) : n \in {92, 10, 12}},
   {Generic("amazon"), Target("amazon", 2), Target("suse", 15), Generic("linux_x86_64")}}
Build(edition, arch, name, extras) ==
  [edition |-> edition, arch |-> arch, target |-> name, extras |-> extras]
ListOf(targets) ==
  {[number |-> "3.6.23", order |-> 1, tags |-> {"production_release"},
    downloads |-> {Build("base", "x86_64", Generic("linux_x86_64"), {}),
                   Build("base", "x86_64", Generic("windows_x86_64-2012plus"), {})}],
   [number |-> "8.0.1", order |-> 2, tags |-> {"production_release"},
    downloads |-> {Build("targeted", "x86_64", t, {}) : t \in targets}
                  \cup {Build("enterprise", "x86_64", t, {"crypt_shared", "cryptd"}) : t \in targets}
                  \cup {Build("enterprise", "x86_64", Generic("windows"), {"csfle"})}],
   [number |-> "8.1.0", order |-> 3, tags |-> {"continuous_release"},
    downloads |-> {Build("enterprise", "arm64", t, {"csfle"}) : t \in targets}]}
MCListsOf ==
  [h \in Hosts |->
     LET ids == {h.distroId, h.osRelease, h.lsb} \ {Unknown}
         families == {IF s.id = "centos" THEN "rhel" ELSE s.id : s \in ids}
         served == {T \in BuildsOf : \E t \in T : t.family \in families}
     IN {ListOf(S) : S \in SUBSET UNION served}]

Wish(number, distro, enterprise, what, arch) ==
  [version |-> number, distro |-> distro, enterprise |-> enterprise, what |-> what,
   arch |-> arch]
MCWishes ==
  {Wish("stable", Unknown, e, w, "x64") : e \in BOOLEAN, w \in {"archive", "crypt_shared"}}
  \cup {Wish("stable", Unknown, TRUE, "cryptd", "x64"),
        Wish("rapid", Unknown, TRUE, "crypt_shared", "aarch64"),
        Wish("3.6.23", Unknown, FALSE, "archive", "x64"),
        Wish("latest-alpha", Unknown, TRUE, "archive", "x64"),
        Wish("stable", Target("ubuntu", 2204), FALSE, "archive", "x64"),
        Wish("stable", Target("rhel", 80), TRUE, "archive", "x64"),
        Wish("stable", Generic("amazon1"), FALSE, "archive", "x64"),
        Wish("8.0.1", Unknown, FALSE, "both", "ia32")}

ProxyUrl(protocol, username, password, path) ==
  [protocol |-> protocol, username |-> username, password |-> password, path |-> path]
Plain(protocol) == ProxyUrl(protocol, "", "", "")
MCProxies ==
  {Plain(p) : p \in {"socks5", "http", "direct", "pac"}}
  \cup {ProxyUrl("ssh", "user", "password", ""), ProxyUrl("socks5", "user", "password", ""),
        ProxyUrl("http", "", "", "/path")}
HostNames == {"localhost", "db", "other"}
Rule(hosts, atPort) == [hosts |-> hosts, port |-> atPort]
RuleSets == {{}, {Rule({"db"}, "")}, {Rule({"db"}, ""), Rule({""}, "")},
             {Rule(HostNames \cup {""}, "")}, {Rule({"db"}, "1234"), Rule({"other"}, "")}}
Env(protocol, proxy) == [protocol |-> protocol, proxy |-> proxy]
Environments ==
  {<<>>, <<Env("all", Plain("socks5"))>>,
   <<Env("https", Plain("http")), Env("https", Plain("direct")),
     Env("all", ProxyUrl("ssh", "user", "", ""))>>,
   <<Env("http", Plain("https")), Env("mongodb", Plain("socks5")), Env("http", Plain("http"))>>}
RouteOption(proxy, rules, use, env, noProxy, passphrase) ==
  [proxy |-> proxy, noProxyHosts |-> rules, useEnvironment |-> use,
   environment |-> [variables |-> env, noProxy |-> noProxy], passphrase |-> passphrase]
MCRouteOptions ==
  {RouteOption(p, r, FALSE, <<>>, {}, s) :
     p \in MCProxies, r \in RuleSets, s \in {"", "passphrase"}}
  \cup {RouteOption(Direct, r, use, e, n, "") :
          r \in RuleSets, use \in BOOLEAN, e \in Environments, n \in RuleSets}
MCUrls == [protocol : {"http", "https", "ftp", "mongodb"}, host : HostNames, port : {"", "1234"}]

NumberOf(type, n) == [type |-> type, n |-> n]
IdValue == [type |-> "ObjectId", text |-> "id"]
BinaryValue(subType, bytes) == [type |-> "Binary", subType |-> subType, bytes |-> bytes]
TimestampValue(t, i) == [type |-> "Timestamp", t |-> t, i |-> i]
PatternValue(type, pattern, flags) == [type |-> type, pattern |-> pattern, flags |-> flags]
RefValue(oid, db, fields) ==
  [type |-> "DBRef", collection |-> String("coll"), oid |-> oid, db |-> db,
   fields |-> Document(fields)]
CodeWith(scope) == [type |-> "Code", code |-> "code", scope |-> scope]
InX(v) == Document(<<Field("x", v)>>)
Scalars ==
  {NumberOf(type, n) :
     type \in {"Number", "Long", "Int32", "Double", "Decimal128"}, n \in {-1, 5}}
  \cup {BinaryValue(s, b) : s \in {0, 3, 4}, b \in {"uuid", "bytes"}}
  \cup {TimestampValue(t, i) : t \in {0, 3, 4}, i \in {1, 7}}
  \cup {[type |-> "Date", when |-> w] : w \in {"within", "beyond", "invalid"}}
  \cup {PatternValue(t, p, f) :
          t \in {"RegExp", "BSONRegExp"}, p \in {"a", "(?i)a"}, f \in {"", "i", "s"}}
  \cup {CodeWith(s) : s \in {NoValue, InX(Number(-1)), InX(IdValue),
                           InX(UndefinedValue), InX(Simple("NaN"))}}
  \cup {[type |-> "BSONSymbol", text |-> "symbol"], String("text"), Numeral(5), IdValue,
        UndefinedValue, Null, Simple("NaN"), Simple("MaxKey")}
MCQueryValues ==
  {InX(v) : v \in Scalars}
  \cup {Document(<<Field("x", [type |-> "Array", items |-> <<v, Document(<<Field("y", v)>>)>>]),
                   Field("z", v)>>) : v \in Scalars}
  \cup {InX(RefValue(oid, db, fs)) :
          oid \in {IdValue, Number(1), RefValue(Number(1), UndefinedValue, <<>>)},
          db \in {UndefinedValue, String("db")},
          fs \in {<<>>, <<Field("y", Number(1))>>, <<Field("y", IdValue)>>}}

NumberTree(n) == Literal(Number(n))
StringTree(text) == Literal(String(text))
BinaryTree(op, l, r) == [node |-> "Binary", op |-> op, left |-> l, right |-> r]
FunctionTree == [node |-> "Function"]
NewDateTree == Method(NoValue, "Date", TRUE, <<NumberTree(0)>>)
EmptyTree == Tree(<<>>)
FieldTrees ==
  {Unary(op, NumberTree(1)) : op \in {"-", "+", "typeof"}}
  \cup {BinaryTree(op, NumberTree(1), NumberTree(2)) : op \in {"+", "<", "in", "instanceof"}}
  \cup {Call(name, <<>>) : name \in {"other", "UUID", "Date", "LegacyJavaUUID"}}
  \cup {Call("ObjectId", <<Call("other", <<>>)>>), Call("ISODate", <<StringTree("no date")>>),
        Call("Timestamp", <<NumberTree(1), NumberTree(2)>>), Call("Long", <<NumberTree(1)>>)}
  \cup {Method(Name("Math"), "max", FALSE, <<NumberTree(1), NumberTree(2)>>),
        Method(Name("Binary"), "createFromBase64", FALSE, <<StringTree("bytes")>>)}
  \cup {Method(object, name, FALSE, <<>>) :
          object \in {Name("Date"), NewDateTree, EmptyTree, StringTree("a")},
          name \in {"getTime", "now", "other", "concat", ""}}
  \cup {Method(object, name, FALSE, <<>>) :
          object \in {Name("Binary"), Call("Binary", <<StringTree("bytes")>>), EmptyTree},
          name \in Inherited}
  \cup {FunctionTree, Name("other"), Name("Infinity"), [node |-> "Spread"], NewDateTree,
        NumberTree(1), NumberTree(3), StringTree("asc"),
        Object(<<Field("$meta", StringTree("textScore"))>>)}
WholeTrees ==
  {FunctionTree, Tree(<<FunctionTree>>), Name("NaN"), NumberTree(5), NumberTree(0),
   Unary("-", NumberTree(5)), StringTree("index_1"), Literal(Null), Literal(Computed),
   Literal(False), Name("undefined"), EmptyTree, NewDateTree,
   Tree(<<Tree(<<StringTree("a"), NumberTree(1)>>)>>), Tree(<<StringTree("a")>>),
   Tree(<<Tree(<<NumberTree(1), NumberTree(1)>>)>>), Object(<<>>),
   Object(<<Field("locale", StringTree("simple")), Field("strength", NumberTree(1))>>),
   Object(<<Field("locale", StringTree("other"))>>)}
MCQueryTexts ==
  {Garbled, BlankText} \cup {Text(t) : t \in WholeTrees}
  \cup {Text(Object(<<Field("x", t)>>)) : t \in FieldTrees}
  \cup {[tree |-> Object(<<Field("x", NumberTree(1))>>), comments |-> TRUE],
        [tree |-> NumberTree(5), comments |-> TRUE]}

Standalone(args, storage) ==
  [topology |-> "standalone", args |-> args, secondaries |-> Unasked, arbiters |-> Unasked,
   rsMembers |-> Unasked, shards |-> Unasked, mongosArgs |-> <<NoArgs>>, storage |-> storage]
Replset(args, secondaries, arbiters, storage) ==
  [Standalone(args, storage) EXCEPT !.topology = "replset", !.secondaries = secondaries,
                                    !.arbiters = arbiters]
WithMembers(args, members, storage) ==
  [Replset(args, Unasked, Unasked, storage) EXCEPT !.rsMembers = members]
Sharded(args, shards, mongosArgs, storage) ==
  [Replset(args, 0, Unasked, storage) EXCEPT !.topology = "sharded", !.shards = shards,
                                             !.mongosArgs = mongosArgs]
RoleArg(r) == Args(<<>>, {r}, NoName)
NumberOfShards(n) == [number |-> n]
ListOfShards(args) == [list |-> args]
DataMember(priority) == NewMember(priority, FALSE, NoArgs)
MembersOfSets ==
  {<<DataMember(p), DataMember(q)>> : p \in {Unasked, 1}, q \in {Unasked, 2}}
  \cup {<<DataMember(0), DataMember(0)>>,
        <<NewMember(Unasked, TRUE, NoArgs), DataMember(Unasked)>>,
        <<DataMember(Unasked), NewMember(Unasked, FALSE, PortArg(2))>>}
MCPlans ==
  {Standalone(a, s) : a \in {NoArgs, PortArg(0), PortArg(1)}, s \in BOOLEAN}
  \cup {Replset(Args(<<1>>, {}, "name"), Unasked, 1, FALSE),
        Replset(PortArg(1), Unasked, Unasked, TRUE)}
  \cup {WithMembers(PortArg(1), m, FALSE) : m \in MembersOfSets}
  \cup {WithMembers(NoArgs, <<DataMember(Unasked), DataMember(p)>>, TRUE) : p \in {Unasked, 2}}
  \cup {Sharded(a, NumberOfShards(n), <<NoArgs>>, s) :
          a \in {NoArgs, PortArg(1)}, n \in {0, 1}, s \in BOOLEAN}
  \cup {Sharded(PortArg(1), s, m, FALSE) :
          s \in {NumberOfShards(2), ListOfShards(<<RoleArg("shardsvr"), NoArgs>>),
                 ListOfShards(<<PortArg(2), RoleArg("configsvr")>>)},
          m \in {<<NoArgs>>, <<PortArg(3), PortArg(0)>>}}

KeyLine(kind, name) == [kind |-> kind, name |-> name]
PortLine(var, listed) == [kind |-> "port", name |-> var, listed |-> listed]
MCComposeFiles ==
  {<<KeyLine("top", "services"), KeyLine("key", "cms"), PortLine("A", TRUE),
     KeyLine("key", "other"), PortLine("A", FALSE)>>,
   <<KeyLine("top", "services"), KeyLine("key", "other"), PortLine("A", TRUE),
     KeyLine("top", "volumes"), KeyLine("key", "cms"), PortLine("B", TRUE)>>,
   <<KeyLine("top", "networks"), KeyLine("key", "cms"), PortLine("A", TRUE)>>,
   <<KeyLine("top", "services"), KeyLine("key", "cms"), PortLine("A", TRUE),
     KeyLine("key", "other"), PortLine("B", TRUE)>>}

Parts == {"runner", "version", "proxy", "agents", "device", "provider", "schema",
          "auto", "bump", "depalign", "tickets", "signing", "checker", "start",
          "writer", "convert", "service", "choice", "route", "query", "plan"}

\* A part that takes no steps has one initial state.  Databases and schemas are
\* interchangeable: the first of each is fixed.
Init ==
  /\ part \in Parts
  /\ inUse = CHOOSE d \in ConnectionDBs : TRUE
  /\ serverSchema = [n \in ConnectionDBs \X Collections |-> CHOOSE s \in Schemas : TRUE]
  /\ part = "runner" \/ opt = CHOOSE o \in Options : TRUE
  /\ part = "proxy" \/ scheme = "http"
  /\ part = "device" \/ (timeout = "given" /\ aborted = "no")
  /\ names \in {[d \in ConnectionDBs |-> IF d = inUse THEN S ELSE Collections] :
                 S \in IF part = "auto" THEN (SUBSET Collections) \ {{}} ELSE {Collections}}
  /\ \/ part = "bump"
     \/ /\ commits = [k \in Packages |-> "none"]
        /\ range = [d \in Deps |-> [op |-> "*", version |-> MCFirst]]
  /\ \/ part = "depalign"  \* the root is no peer of anything
        /\ json \in [Members -> InitialDeps] /\ json[RootPackage]["peerDependencies"] = NoRange
     \/ json = [k \in Members |-> CHOOSE f \in InitialDeps : TRUE] /\ ignore = {}
  /\ part = "tickets" \/ policy = [v \in Vulnerabilities \ Licenses |-> "none"]
  /\ part = "start" \/ (binary = "mongod" /\ port = 1 /\ taken = {})
  /\ part = "writer" \/ (gzip = FALSE /\ invalid = {})
  /\ part = "choice" \/ (host = (CHOOSE h \in Hosts : TRUE) /\ list = {})
  /\ part = "route" \/ routeOptions = CHOOSE o \in RouteOptions : TRUE
  /\ part = "plan" \/ (plan = Standalone(NoArgs, FALSE) /\ composeLines = <<>>)
  /\ RunnerInit /\ VersionInit /\ ProxyInit /\ CacheInit /\ DeviceInit /\ ProviderInit
  /\ SchemaInit /\ AutoInit /\ BumpInit /\ DepalignInit /\ VulnInit /\ SigningInit
  /\ CheckerInit /\ StartInit /\ WriterInit /\ ConvertInit /\ ServiceInit /\ RouteInit
  /\ TextInit /\ PlanInit
  /\ policy[2] # "ignore"  \* which is like "temporary" before its time has come
  /\ IF part = "choice" THEN ChoiceInit
     ELSE osRelease = "undefined" /\ wish = Unknown /\ got = Unknown
  /\ allVars = allVars  \* makes TLC evaluate what View leaves out

Others(own) ==
  /\ UNCHANGED part
  /\ own # "runner" => UNCHANGED runnerVars
  /\ own # "version" => UNCHANGED versionVars
  /\ own # "proxy" => UNCHANGED proxyVars
  /\ own # "agents" => UNCHANGED agentCacheVars
  /\ own # "device" => UNCHANGED deviceVars
  /\ own # "provider" => UNCHANGED providerVars
  /\ own # "schema" => UNCHANGED schemaVars
  /\ own # "auto" => UNCHANGED autoVars
  /\ own # "bump" => UNCHANGED bumpVars
  /\ own # "depalign" => UNCHANGED depalignVars
  /\ own # "tickets" => UNCHANGED vulnVars
  /\ own # "signing" => UNCHANGED signingVars
  /\ own # "checker" => UNCHANGED checkerVars
  /\ own # "start" => UNCHANGED startVars
  /\ own # "writer" => UNCHANGED writerVars
  /\ own # "convert" => UNCHANGED convertVars
  /\ own # "service" => UNCHANGED serviceVars
  /\ own # "choice" => UNCHANGED choiceVars
  /\ own # "route" => UNCHANGED routeVars
  /\ own # "query" => UNCHANGED textVars
  /\ own # "plan" => UNCHANGED planVars

Next ==
  \/ part = "runner" /\ RunnerNext /\ Others("runner")
  \/ part = "version" /\ VersionNext /\ Others("version")
  \/ part = "proxy" /\ ProxyNext /\ Others("proxy")
  \/ part = "agents" /\ CacheNext /\ Others("agents")
  \/ part = "device" /\ DeviceNext /\ Others("device")
  \/ part = "provider" /\ ProviderNext /\ Others("provider")
  \/ part = "schema" /\ SchemaNext /\ Others("schema")
  \/ part = "auto" /\ AutoNext /\ Others("auto")
  \/ part = "bump" /\ BumpNext /\ Others("bump")
  \/ part = "depalign" /\ DepalignNext /\ Others("depalign")
  \/ part = "tickets" /\ VulnNext /\ Others("tickets")
  \/ part = "signing" /\ SigningNext /\ Others("signing")
  \/ part = "checker" /\ CheckerNext /\ Others("checker")
  \/ part = "start" /\ StartNext /\ Others("start")
  \/ part = "writer" /\ WriterNext /\ Others("writer")
  \/ part = "convert" /\ ConvertNext /\ Others("convert")
  \/ part = "service" /\ ServiceNext /\ Others("service")
  \/ part = "choice" /\ ChoiceNext /\ Others("choice")
  \/ part = "route" /\ RouteNext /\ Others("route")
  \/ part = "query" /\ TextNext /\ Others("query")
  \/ part = "plan" /\ PlanNext /\ Others("plan")

Spec == Init /\ [][Next]_allVars

\* The variables of the part that takes steps tell states apart: the others stay
\* as they were.
View ==
  CASE part = "runner" -> <<part, runnerVars>>
    [] part = "version" -> <<part, versionVars>>
    [] part = "proxy" -> <<part, proxyVars>>
    [] part = "agents" -> <<part, agentCacheVars>>
    [] part = "device" -> <<part, deviceVars>>
    [] part = "provider" -> <<part, providerVars>>
    [] part = "schema" -> <<part, schemaVars>>
    [] part = "auto" -> <<part, autoVars>>
    [] part = "bump" -> <<part, bumpVars>>
    [] part = "depalign" -> <<part, depalignVars>>
    [] part = "tickets" -> <<part, vulnVars>>
    [] part = "signing" -> <<part, signingVars>>
    [] part = "checker" -> <<part, checkerVars>>
    [] part = "start" -> <<part, startVars>>
    [] part = "writer" -> <<part, writerVars>>
    [] part = "convert" -> <<part, convertVars>>
    [] part = "service" -> <<part, serviceVars>>
    [] part = "choice" -> <<part, choiceVars>>
    [] part = "route" -> <<part, routeVars>>
    [] part = "query" -> <<part, textVars>>
    [] part = "plan" -> <<part, planVars>>

\* Jobs that sign on a server and jobs that sign here have nothing in common.
OneKindOfJobs ==
  \/ \A j \in Remote : step[j] = "idle"
  \/ \A j \in Jobs \ Remote : step[j] = "idle"

\* Either server may be the one whose log cannot be read any further.
OneUnreadable == unreadable \subseteq {"server1"}

\* Two subscriptions of one function, or two calls of one process: the first begins first.
FirstBeginsFirst ==
  /\ subscribed["allow2"] # "never" => subscribed["allow1"] # "never"
  /\ rounds[l3] > 0 => rounds[l2] > 0

\* What getDownloadURL() returned makes no difference to the next call.
OneBeforeTheNext ==
  wish = Unknown \/ (osRelease # "undefined" /\ wish = CHOOSE w \in Wishes : TRUE)

\* Of the ports that nobody asked for, the lower ones are used before the others.
PortsAsked ==
  LET members == IF plan.rsMembers = Unasked THEN {} ELSE ToSet(plan.rsMembers)
      shards == IF plan.shards # Unasked /\ "list" \in DOMAIN plan.shards
                THEN ToSet(plan.shards.list) ELSE {}
      args == {plan.args} \cup {m.args : m \in members} \cup shards \cup ToSet(plan.mongosArgs)
  IN UNION {ToSet(a.ports) : a \in args}
PortsUsed == Listening \cup UNION {ToSet(sets[g].told) : g \in DOMAIN sets}
LowestPortsFirst ==
  \A p, q \in PortRange \ PortsAsked : p < q /\ q \in PortsUsed => p \in PortsUsed

Bounds ==
  /\ OneKindOfJobs /\ OneUnreadable /\ FirstBeginsFirst
  /\ part = "choice" => OneBeforeTheNext
  /\ part = "plan" => LowestPortsFirst

\* The types of the variables of the part that takes steps.
ServicesTypeOK ==
  /\ part = "runner" => RunnerTypeOK
  /\ part = "version" => VersionTypeOK
  /\ part = "proxy" => ProxyTypeOK
  /\ part = "agents" => CacheTypeOK
  /\ part = "device" => DeviceTypeOK
  /\ part = "provider" => ProviderTypeOK
  /\ part = "schema" => SchemaTypeOK
  /\ part = "auto" => AutoTypeOK
  /\ part = "bump" => BumpTypeOK
  /\ part = "depalign" => DepalignTypeOK
  /\ part = "tickets" => VulnTypeOK
  /\ part = "signing" => SigningTypeOK
  /\ part = "checker" => CheckerTypeOK
  /\ part = "start" => StartTypeOK
  /\ part = "writer" => WriterTypeOK
  /\ part = "convert" => ConvertTypeOK
  /\ part = "service" => ServiceTypeOK
  /\ part = "choice" => ChoiceTypeOK
  /\ part = "route" => RouteTypeOK
  /\ part = "query" => TextTypeOK
  /\ part = "plan" => PlanTypeOK

-----------------------------------------------------------------------------
(* What belongs together.                                                     *)

\* Documents are neither lost nor made up on their way: an analyzer's result counts those
\* it was given, the schemas that are made of one admit them, and a query that is shown
\* as text is read as what it was.
DocumentsSurvive ==
  /\ part = "schema" => ResultIsTrue
  /\ part = "convert" => SchemaAdmits
  /\ part = "query" => QueriesAreRead
=============================================================================
