------------------------------- MODULE Proxies -------------------------------
(* Sending something through a proxy (devtools-proxy-support): the agents     *)
(* that are kept for a proxy, and the readers of the options that choose one. *)
EXTENDS AgentCache, ProxyRoutes

ProxiesSpec == CacheSpec /\ RouteSpec

\* Whoever sends something through a proxy sends it through the right one: an agent that
\* is replaced is ended (proxy-agent.ts), and the readers of the options agree on where
\* they lead (proxy-options.ts).
ProxiesAreRight == OthersAreEnded /\ RoutesAgree
=============================================================================
