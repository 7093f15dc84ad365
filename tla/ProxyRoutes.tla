----------------------------- MODULE ProxyRoutes -----------------------------
(* devtools-proxy-support: where a connection goes.  The same options are read *)
(* by proxyForUrl() for every request, by useOrCreateAgent() and               *)
(* createSocks5Tunnel() once for all connections of a client, and by the       *)
(* translation for Electron; and they are stored without their secrets.  A     *)
(* host name, a rule and a port are members of small sets.                     *)
EXTENDS Sequences, SequencesExt

CONSTANTS
  RouteOptions,  \* the options that may be given, of proxy, rules, environment and key
  Urls,          \* [protocol, host, port]
  Direct,        \* no proxy
  LocalServer,   \* a tunnel of our own
  Throws,        \* an error
  NotYet

ProxyUrls == [protocol : STRING, username : STRING, password : STRING, path : STRING]

\* A rule of NO_PROXY: the hosts that it is the name, or the end of the name, of; an
\* item that is empty names the empty host.
Rules == [hosts : SUBSET STRING, port : STRING]

\* DevtoolsProxyOptions and the environment.
OptionsType ==
  [proxy : ProxyUrls \cup {Direct}, noProxyHosts : SUBSET Rules, useEnvironment : BOOLEAN,
   environment : [variables : Seq([protocol : STRING, proxy : ProxyUrls \cup {Direct}]),
                  noProxy : SUBSET Rules],
   passphrase : STRING]

ASSUME RouteAssumption == RouteOptions \subseteq OptionsType /\ Direct \notin ProxyUrls

\* No text at all is a text: a proof has no other way to know.
ASSUME BlankAssumption == "" \in STRING

VARIABLES
  routeOptions,  \* the options in use; of the others, each is NotYet at first
  routeTunnel,   \* what createSocks5Tunnel() has returned: Direct, a proxy, or LocalServer
  electron,      \* what translateToElectronProxyConfig() has returned, or Throws
  stored         \* options and secrets as they were saved

routeVars == <<routeOptions, routeTunnel, electron, stored>>

-----------------------------------------------------------------------------
(* Which proxy a request takes.                                               *)

\* The pattern of line 68 takes a port for a part of the name: such a rule matches nothing.
Matches(rule, url) == rule.port = "" /\ url.host \in rule.hosts

ShouldProxy(noProxy, url) == \A rule \in noProxy : ~Matches(rule, url)

\* proxyConfForEnvVars(): of two variables that differ in case the last one counts.
ConfForEnvVars(env, protocol) ==
  LET set == SelectSeq(env.variables, LAMBDA e : e.protocol = protocol)
  IN IF set = <<>> THEN Direct ELSE Last(set).proxy

\* map.get(protocol) || map.get('all')
ForProtocol(env, protocol) ==
  IF ConfForEnvVars(env, protocol) # Direct THEN ConfForEnvVars(env, protocol)
  ELSE ConfForEnvVars(env, "all")

Combined(o) == o.environment.noProxy \cup o.noProxyHosts

\* proxyForUrl()
ProxyForUrl(o, url) ==
  IF o.proxy # Direct
  THEN IF o.proxy.protocol # "direct" /\ ShouldProxy(o.noProxyHosts, url)
       THEN o.proxy ELSE Direct
  ELSE IF o.useEnvironment /\ ShouldProxy(Combined(o), url)
       THEN ForProtocol(o.environment, url.protocol)
       ELSE Direct

-----------------------------------------------------------------------------
(* The tunnel of a client.                                                    *)

\* 'mongodb://': the protocol without a host.
Hostless == [protocol |-> "mongodb", host |-> "", port |-> ""]

\* getSocks5OnlyProxyOptions() with the target.
Socks5Only(o) ==
  LET proxy == ProxyForUrl(o, Hostless)
  IN IF proxy # Direct /\ proxy.protocol = "socks5" THEN proxy ELSE Direct

\* useOrCreateAgent() in createSocks5Tunnel(), after the one of connectMongoClient()
\* with the same target: no agent for a target that is not proxied.
CreateSocks5Tunnel(o) ==
  IF Socks5Only(o) # Direct THEN Socks5Only(o)
  ELSE IF ProxyForUrl(o, Hostless) = Direct THEN Direct ELSE LocalServer

\* The tunnel's server asks its agent for every connection, with the protocol of the
\* target (overrideProtocol); an existing tunnel takes them all.
Through(url) ==
  IF routeTunnel = LocalServer THEN ProxyForUrl(routeOptions, url) ELSE routeTunnel

-----------------------------------------------------------------------------
(* Electron.                                                                  *)

IsPac(proxy) == proxy.protocol = "pac"

\* validateElectronProxyURL()
Valid(proxy) ==
  /\ proxy.protocol \in {"http", "https", "socks5"}
  /\ proxy.username = "" /\ proxy.password = "" /\ proxy.path = ""

Config(rules, bypass) == [rules |-> rules, bypass |-> bypass]
For(protocol, proxy) == [protocol |-> protocol, proxy |-> proxy]

\* The proxies for the three protocols that Electron knows; those without one are left out.
EnvironmentRules(env) ==
  {For(p, ForProtocol(env, p)) :
     p \in {q \in {"http", "https", "ftp"} : ForProtocol(env, q) # Direct}}

\* Deviation: NO_PROXY is left out.
OwnRulesOnly(o) == o.noProxyHosts

Bypass(o) == o.noProxyHosts \cup o.environment.noProxy

\* translateToElectronProxyConfig()
TranslateToElectron(o) ==
  IF o.proxy # Direct
  THEN IF IsPac(o.proxy) \/ Valid(o.proxy)
       THEN Config({For("any", o.proxy)}, o.noProxyHosts) ELSE Throws
  ELSE IF ~o.useEnvironment THEN Config({}, {})
  ELSE IF \A r \in EnvironmentRules(o.environment) : Valid(r.proxy)
       THEN Config(EnvironmentRules(o.environment), Bypass(o)) ELSE Throws

\* How Electron reads it: with the ports of the rules, and with this host left out
\* whatever they say.
ElectronRoute(config, url) ==
  LET rules == {r \in config.rules : r.protocol \in {"any", url.protocol}}
      bypassed == \E r \in config.bypass : url.host \in r.hosts /\ r.port \in {"", url.port}
  IN IF rules = {} \/ bypassed \/ url.host = "localhost" THEN Direct
     ELSE (CHOOSE r \in rules : TRUE).proxy

-----------------------------------------------------------------------------
(* Secrets: the password of the proxy's URL and the passphrase of the key.     *)

\* extractProxySecrets()
Extracted(o) ==
  [options |-> [o EXCEPT !.proxy = IF @ = Direct THEN @ ELSE [@ EXCEPT !.password = ""],
                         !.passphrase = ""],
   secrets |-> [password |-> IF o.proxy = Direct THEN "" ELSE o.proxy.password,
                passphrase |-> o.passphrase]]

\* mergeProxySecrets()
Merged(s) ==
  [s.options EXCEPT
     !.proxy = IF s.secrets.password # "" /\ @ # Direct
               THEN [@ EXCEPT !.password = s.secrets.password] ELSE @,
     !.passphrase = IF s.secrets.passphrase # "" THEN s.secrets.passphrase ELSE @]

-----------------------------------------------------------------------------
RouteInit ==
  /\ routeOptions \in RouteOptions
  /\ routeTunnel = NotYet /\ electron = NotYet /\ stored = NotYet

\* connectMongoClient() with these options.
CreateTunnel ==
  /\ routeTunnel' = CreateSocks5Tunnel(routeOptions)
  /\ UNCHANGED <<routeOptions, electron, stored>>

Translate ==
  /\ electron' = TranslateToElectron(routeOptions)
  /\ UNCHANGED <<routeOptions, routeTunnel, stored>>

\* Settings are saved; when they are loaded they take the place of those in use.
Save ==
  /\ stored' = Extracted(routeOptions)
  /\ UNCHANGED <<routeOptions, routeTunnel, electron>>

Load ==
  /\ stored # NotYet
  /\ routeOptions' = Merged(stored)
  /\ UNCHANGED <<routeTunnel, electron, stored>>

RouteNext == CreateTunnel \/ Translate \/ Save \/ Load

RouteSpec == RouteInit /\ [][RouteNext]_routeVars

RouteTypeOK ==
  /\ routeOptions \in RouteOptions
  /\ routeTunnel \in {NotYet, LocalServer, Direct} \cup {o.proxy : o \in RouteOptions}
             \cup {e.proxy : e \in UNION {ToSet(o.environment.variables) : o \in RouteOptions}}
  /\ electron \in {NotYet, Throws} \/ DOMAIN electron = {"rules", "bypass"}
  /\ stored = NotYet \/ DOMAIN stored = {"options", "secrets"}

-----------------------------------------------------------------------------
(* The readers agree.                                                         *)

RulesOf(o) == IF o.proxy # Direct THEN o.noProxyHosts ELSE Combined(o)

\* Electron honours the ports of rules, and never asks for a proxy to this host.
ReadAlike(url) ==
  /\ url.host # "localhost"
  /\ \A rule \in RulesOf(routeOptions) : rule.port # "" => url.host \notin rule.hosts

\* A request takes the same way in Electron as through the agent, before and after the
\* settings were saved and loaded.
ElectronAgrees ==
  electron \notin {NotYet, Throws} =>
    \A url \in Urls : url.protocol \in {"http", "https", "ftp"} /\ ReadAlike(url) =>
      ElectronRoute(electron, url) = ProxyForUrl(routeOptions, url)

\* The way that was chosen for all connections is the one that each would have been
\* given; but an item that is empty keeps the target without a host from the proxy, and with
\* it every other, and a socks5 proxy is handed out without the rules.
TunnelAgrees ==
  routeTunnel # NotYet =>
    \A url \in Urls : url.protocol = "mongodb" =>
      \/ Through(url) = ProxyForUrl(routeOptions, url)
      \/ routeTunnel = Direct /\ \E rule \in RulesOf(routeOptions) : Matches(rule, Hostless)
      \/ routeTunnel \notin {Direct, LocalServer} /\ ~ShouldProxy(RulesOf(routeOptions), url)

\* What is stored has no secrets in it, and none is lost.
SecretsSurvive ==
  stored # NotYet =>
    /\ stored.options.passphrase = ""
    /\ stored.options.proxy # Direct => stored.options.proxy.password = ""
    /\ Merged(stored) = routeOptions

RoutesAgree == ElectronAgrees /\ TunnelAgrees /\ SecretsSurvive
=============================================================================
