---------------------------- MODULE PackageBump ----------------------------
(* monorepo-tools: bump-packages gives new versions to the packages of a     *)
(* monorepo, dependencies first.  A run that is killed leaves what it wrote, *)
(* and the next run starts from that.                                        *)
EXTENDS Integers

CONSTANTS Packages,
          Deps,     \* dependencies between them: [from, to, dev]
          First,    \* the version all packages start with
          Initial,  \* the operators that ranges start with
          Skipped,  \* SKIP_BUMP_PACKAGES
          MaxRuns,  \* bound of the model: how often bump-packages is run
          NoPackage

Increments == {"patch", "minor", "major"}
Versions == [major : Nat, minor : Nat, patch : Nat]
Operators == {"exact", "^", "~", "*", "other"}

ASSUME BumpAssumption ==
  /\ Deps \subseteq [from : Packages, to : Packages, dev : BOOLEAN]
  /\ First \in Versions /\ Initial \subseteq Operators
  /\ Skipped \subseteq Packages /\ MaxRuns \in Nat
  /\ NoPackage \notin Packages

VARIABLES
  commits,  \* the increment that the commits of each package ask for, or "none"
  version,  \* the version in each package.json
  range,    \* the range of each dependency: an operator and a version
  torn,     \* the packages whose package.json was cut off
  bumped,   \* newVersions of the run: the increment of each package
  writing,  \* the package that is being written, if any
  done,     \* the packages of this run that are done
  bumpRun,  \* "idle", "running", "done" or "failed"
  bumpRuns  \* how many runs there were

bumpVars == <<commits, version, range, torn, bumped, writing, done, bumpRun, bumpRuns>>

BumpInit ==
  /\ commits \in [Packages -> Increments \cup {"none"}]
  /\ version = [p \in Packages |-> First]
  /\ range \in [Deps -> [op : Initial, version : {First}]]
  /\ torn = {} /\ writing = NoPackage /\ done = {}
  /\ bumped = [p \in Packages |-> "none"]
  /\ bumpRun = "idle" /\ bumpRuns = 0

-----------------------------------------------------------------------------
(* Increments and versions.                                                   *)

Rank(inc) == CASE inc = "major" -> 3 [] inc = "minor" -> 2 [] inc = "patch" -> 1
               [] OTHER -> 0
Largest(incs) == IF incs = {} THEN "none"
                 ELSE CHOOSE i \in incs : \A j \in incs : Rank(i) >= Rank(j)

IncreasedBy(v, inc) ==
  CASE inc = "major" -> [major |-> v.major + 1, minor |-> 0, patch |-> 0]
    [] inc = "minor" -> [v EXCEPT !.minor = @ + 1, !.patch = 0]
    [] inc = "patch" -> [v EXCEPT !.patch = @ + 1]
    [] OTHER -> v

Above(v, w) == \/ v.major > w.major
               \/ v.major = w.major /\ v.minor > w.minor
               \/ v.major = w.major /\ v.minor = w.minor /\ v.patch > w.patch

DiffOf(v, w) == IF v.major # w.major THEN "major"
                ELSE IF v.minor # w.minor THEN "minor" ELSE "patch"

-----------------------------------------------------------------------------
(* The run.                                                                   *)

DepsOf(p) == {d \in Deps : d.from = p}

\* Do the packages of S depend on each other in a circle?
Circular(S) == S # {} /\ \A p \in S : \E d \in DepsOf(p) : d.to \in S

\* toposort throws if there is a cycle, and JSON.parse if a file is torn.
StartBump ==
  /\ bumpRun = "idle" /\ bumpRuns < MaxRuns
  /\ bumpRun' = IF torn # {} \/ \E S \in SUBSET Packages : Circular(S)
                THEN "failed" ELSE "running"
  /\ bumpRuns' = bumpRuns + 1
  /\ done' = {} /\ bumped' = [p \in Packages |-> "none"]
  /\ UNCHANGED <<commits, version, range, torn, writing>>

\* Deviation: packages in any order.
AnyOrder(p) == TRUE

\* The order of toposort is one of those that put dependencies first.
InOrder(p) == \A d \in DepsOf(p) : d.to \in done

\* updateDeps: a development dependency counts as a patch.
FromDeps(p) == {IF d.dev THEN "patch" ELSE bumped[d.to] :
                  d \in {e \in DepsOf(p) : bumped[e.to] # "none"}}

NewVersion(p) ==
  IF p \in Skipped THEN version[p]
  ELSE LET byDeps == IncreasedBy(version[p], Largest(FromDeps(p)))
           byCommits == IncreasedBy(version[p], commits[p])
       IN IF Above(byCommits, byDeps) THEN byCommits ELSE byDeps

\* An exact version is recognised by three numbers of one digit.
OneDigit(v) == v.major < 10 /\ v.minor < 10 /\ v.patch < 10
NewOperator(r) == IF r.op \in {"*", "~"} THEN r.op
                  ELSE IF r.op = "exact" /\ OneDigit(r.version) THEN "exact" ELSE "^"

\* The range that a dependency on a package with a new version gets.
NewRange(d) ==
  IF bumped[d.to] = "none" THEN range[d]
  ELSE [op |-> NewOperator(range[d]),
        version |-> IF range[d].op = "*" THEN range[d].version ELSE version[d.to]]

\* processPackage: package.json is written as one file, after an await.
ProcessPackage(p) ==
  /\ bumpRun = "running" /\ writing = NoPackage
  /\ p \notin done /\ InOrder(p)
  /\ writing' = p
  /\ bumped' = [bumped EXCEPT ![p] =
       IF Above(NewVersion(p), version[p]) THEN DiffOf(NewVersion(p), version[p])
       ELSE "none"]
  /\ UNCHANGED <<commits, version, range, torn, done, bumpRun, bumpRuns>>

PackageWritten ==
  /\ writing # NoPackage
  /\ version' = [version EXCEPT ![writing] = NewVersion(writing)]
  /\ range' = [d \in Deps |-> IF d.from = writing THEN NewRange(d) ELSE range[d]]
  /\ done' = done \cup {writing}
  /\ writing' = NoPackage
  /\ UNCHANGED <<commits, torn, bumped, bumpRun, bumpRuns>>

AllProcessed ==
  /\ bumpRun = "running" /\ done = Packages
  /\ bumpRun' = "done"
  /\ UNCHANGED <<commits, version, range, torn, bumped, writing, done, bumpRuns>>

\* Killed between two files or within one; the next run starts over.
KillBump ==
  /\ bumpRun = "running"
  /\ bumpRun' = "idle"
  /\ torn' \in {torn, torn \cup ({writing} \ {NoPackage})}
  /\ writing' = NoPackage
  /\ UNCHANGED <<commits, version, range, bumped, done, bumpRuns>>

BumpNext ==
  \/ StartBump \/ PackageWritten \/ AllProcessed \/ KillBump
  \/ \E p \in Packages : ProcessPackage(p)

BumpSpec == BumpInit /\ [][BumpNext]_bumpVars

-----------------------------------------------------------------------------
(* Properties.                                                                *)

\* The types of the variables.
BumpTypeOK ==
  /\ commits \in [Packages -> Increments \cup {"none"}]
  /\ version \in [Packages -> Versions]
  /\ range \in [Deps -> [op : Operators, version : Versions]]
  /\ torn \subseteq Packages /\ done \subseteq Packages
  /\ bumped \in [Packages -> Increments \cup {"none"}]
  /\ writing \in Packages \cup {NoPackage}
  /\ bumpRun \in {"idle", "running", "done", "failed"}
  /\ bumpRuns \in 0 .. MaxRuns

\* After a run that came to its end, runs that were killed before it or not,
\* every range names the version its package has, and a package was increased
\* at least as much as any of its dependencies (a patch for development
\* dependencies) and as its own commits ask, unless it is skipped.
BumpsFollowDependencies ==
  bumpRun = "done" =>
    /\ \A d \in Deps : range[d].op = "*" \/ range[d].version = version[d.to]
    /\ \A p \in Packages \ Skipped :
         Rank(bumped[p]) >= Rank(Largest(FromDeps(p) \cup ({commits[p]} \ {"none"})))
=============================================================================
