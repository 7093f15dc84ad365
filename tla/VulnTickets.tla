---------------------------- MODULE VulnTickets ----------------------------
(* sbom-tools: generate-vulnerability-report creates a Jira issue for every  *)
(* vulnerability that is not ignored, unless there is one already, and fails *)
(* with --fail-on.  Several builds run it at once against one Jira project.  *)
EXTENDS Naturals, FiniteSets

CONSTANTS
  Builds,           \* processes that make reports
  Vulnerabilities,  \* 1..n, in the order of the packages
  Severe,           \* those with an unknown score or one that --fail-on includes
  Fixable,          \* those with a known remediation
  Licenses,         \* those that are of type license
  NoVulnerability,
  MaxReports        \* bound of the model

ASSUME VulnAssumption ==
  /\ Vulnerabilities \subseteq Nat
  /\ Severe \cup Fixable \cup Licenses \subseteq Vulnerabilities
  /\ NoVulnerability \notin Vulnerabilities /\ MaxReports \in Nat
  /\ IsFiniteSet(Builds)

Policies == {"none", "ignore", "temporary"}
Summaries == Vulnerabilities \X {"plain", "expired"}

VARIABLES
  policy,   \* the rules of .snyk
  expired,  \* the temporary policies whose time has come
  tickets,  \* how many unresolved tickets have a summary
  build,    \* the builds: where they are, their list, the one they are at
  reports   \* how many reports were made

vulnVars == <<policy, expired, tickets, build, reports>>

\* settled: ghost, the vulnerabilities that this report has found or created a
\* ticket for.
NotRunning == [pc |-> "idle", list |-> {}, at |-> NoVulnerability,
               summary |-> NoVulnerability, settled |-> {}]

VulnInit ==
  /\ policy \in [Vulnerabilities \ Licenses -> Policies]
  /\ expired = {}
  /\ tickets = [s \in Summaries |-> 0]
  /\ build = [b \in Builds |-> NotRunning]
  /\ reports = 0

-----------------------------------------------------------------------------
(* vulnerability.ts.                                                          *)

HasIgnorePolicy(v) == policy[v] \in {"ignore", "temporary"}
HasExpiredPolicy(v) == v \in expired
IsIgnored(v) == HasIgnorePolicy(v) /\ ~HasExpiredPolicy(v)

\* Deviation: license findings count.
AllFound(found) == found

\* filterApplicableVulnerabilities(): those of the dependencies, each once.
Applicable(found) == found \ Licenses

\* The summary of the ticket.
Summary(v) == <<v, IF HasExpiredPolicy(v) THEN "expired" ELSE "plain">>

\* Deviation: resolved or not, the search is not asked.
NotFound(s) == FALSE

\* The search is one for words: that for a plain summary finds both.
Found(s) == tickets[s] > 0 \/ (s[2] = "plain" /\ tickets[<<s[1], "expired">>] > 0)

FirstOf(list) == IF list = {} THEN NoVulnerability ELSE CHOOSE v \in list : \A w \in list : v <= w

\* Deviation: the one after that is passed over.
SkipsOne(b) == {v \in build[b].list : build[b].at # NoVulnerability => v > build[b].at + 1}

\* Those after the one the loop is at.
Remaining(b) == {v \in build[b].list : build[b].at # NoVulnerability => v > build[b].at}

-----------------------------------------------------------------------------
(* generateVulnerabilityReport().                                             *)

\* A report with --create-jira-issues; others do not touch the tickets.
StartReport(b, found) ==
  /\ build[b].pc \in {"idle", "done", "failed"} /\ reports < MaxReports
  /\ reports' = reports + 1
  /\ build' = [build EXCEPT ![b] = [NotRunning EXCEPT !.pc = "next", !.list = Applicable(found)]]
  /\ UNCHANGED <<policy, expired, tickets>>

\* The next vulnerability that is not ignored: search.
NextVulnerability(b) ==
  LET v == FirstOf(Remaining(b)) IN
  /\ build[b].pc = "next"
  /\ v # NoVulnerability /\ ~IsIgnored(v)
  /\ build' = [build EXCEPT ![b] =
                 [build[b] EXCEPT !.pc = "searching", !.at = v, !.summary = Summary(v)]]
  /\ UNCHANGED <<policy, expired, tickets, reports>>

\* None is left, or the next one is ignored: createVulnerabilityTickets() returns.
TicketsDone(b) ==
  LET v == FirstOf(Remaining(b)) IN
  /\ build[b].pc = "next"
  /\ v # NoVulnerability => IsIgnored(v)
  /\ build' = [build EXCEPT ![b].pc = "checking"]
  /\ UNCHANGED <<policy, expired, tickets, reports>>

\* The answer to the search.
Searched(b) ==
  LET r == build[b] IN
  /\ r.pc = "searching"
  /\ build' = IF Found(r.summary)
              THEN [build EXCEPT ![b] = [r EXCEPT !.pc = "next", !.settled = @ \cup {r.at}]]
              ELSE [build EXCEPT ![b].pc = "creating"]
  /\ UNCHANGED <<policy, expired, tickets, reports>>

\* Jira creates the ticket; its answer may not arrive.
Created(b) ==
  LET r == build[b] IN
  /\ r.pc = "creating"
  /\ tickets' = [tickets EXCEPT ![r.summary] = @ + 1]
  /\ \/ build' = [build EXCEPT ![b] = [r EXCEPT !.pc = "next", !.settled = @ \cup {r.at}]]
     \/ build' = [build EXCEPT ![b].pc = "failed"]
  /\ UNCHANGED <<policy, expired, reports>>

\* A request is refused, or does not arrive.
Refused(b) ==
  /\ build[b].pc \in {"searching", "creating"}
  /\ build' = [build EXCEPT ![b].pc = "failed"]
  /\ UNCHANGED <<policy, expired, tickets, reports>>

\* fail(), with or without --fail-on.
Checked(b) ==
  /\ build[b].pc = "checking"
  /\ \/ build' = [build EXCEPT ![b].pc = "done"]
     \/ /\ \E v \in build[b].list : v \in Severe \cap Fixable /\ ~IsIgnored(v)
        /\ build' = [build EXCEPT ![b].pc = "failed"]
  /\ UNCHANGED <<policy, expired, tickets, reports>>

-----------------------------------------------------------------------------
(* The world around.                                                          *)

PolicyExpires(v) ==
  /\ policy[v] = "temporary" /\ v \notin expired
  /\ expired' = expired \cup {v}
  /\ UNCHANGED <<policy, tickets, build, reports>>

\* Somebody resolves a ticket.
ResolveTicket(s) ==
  /\ tickets[s] > 0
  /\ tickets' = [tickets EXCEPT ![s] = @ - 1]
  /\ UNCHANGED <<policy, expired, build, reports>>

VulnNext ==
  \/ \E b \in Builds : \/ \E found \in SUBSET Vulnerabilities : StartReport(b, found)
                       \/ NextVulnerability(b) \/ TicketsDone(b) \/ Searched(b) \/ Created(b)
                       \/ Refused(b) \/ Checked(b)
  \/ \E v \in Vulnerabilities \ Licenses : PolicyExpires(v)
  \/ \E s \in Summaries : ResolveTicket(s)

VulnSpec == VulnInit /\ [][VulnNext]_vulnVars

-----------------------------------------------------------------------------
(* Properties.                                                                *)

\* The types of the variables.
VulnTypeOK ==
  /\ policy \in [Vulnerabilities \ Licenses -> Policies]
  /\ expired \subseteq Vulnerabilities
  /\ tickets \in [Summaries -> Nat]
  /\ reports \in 0..MaxReports
  /\ \A b \in Builds :
       /\ build[b].pc \in {"idle", "next", "searching", "creating", "checking", "done", "failed"}
       /\ build[b].list \subseteq Vulnerabilities \ Licenses
       /\ build[b].at \in Vulnerabilities \cup {NoVulnerability}
       /\ build[b].pc \in {"searching", "creating"} =>
            build[b].at # NoVulnerability /\ build[b].summary \in Summaries

\* Searching before creating is worth its request: however often reports are
\* made, fail half-way, lose Jira's answers and find their tickets resolved, one
\* vulnerability has at most as many tickets of one kind as builds run at once.
TicketsAreBounded ==
  \A s \in Summaries : tickets[s] <= Cardinality(Builds)

\* A report that comes to its end has found or created a ticket for whatever is
\* listed before the first vulnerability it takes for ignored.
ListedHaveTickets ==
  \A b \in Builds :
    build[b].pc \in {"checking", "done"} =>
      \A v \in build[b].list \ build[b].settled :
        \E w \in build[b].list : w <= v /\ HasIgnorePolicy(w)

\* However builds fail and start again, Jira has neither too few tickets nor too
\* many.
TicketsMatch == TicketsAreBounded /\ ListedHaveTickets
=============================================================================
