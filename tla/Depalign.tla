------------------------------ MODULE Depalign ------------------------------
(* monorepo-tools: depalign finds the packages of a monorepo that ask for      *)
(* different ranges of one dependency, and rewrites package.json files.  A run *)
(* that is killed leaves what it wrote, and the next one starts from that.     *)
(* The model follows one dependency; others have no influence on it.           *)
EXTENDS Naturals, FiniteSetsExt

CONSTANTS
  RootPackage,     \* packages are 1..RootPackage in topological order; the last is the root
  DepGroups,       \* the groups of a package.json that the model has
  Ranges,          \* ranges: the versions they admit, and if they are one version
  Star,            \* "*"
  Locations,       \* what npm accepts and semver cannot parse, as file:../a
  NoRange,         \* no dependency, or no range
  InitialDeps,     \* what packages have at first
  Ignores,         \* the ranges that .depalignrc.json can ignore
  CommandLines,    \* command lines: [types, typesOnly, skipDeduped, mismatched]
  MaxDepalignRuns  \* bound of the model

Members == 1..RootPackage
GroupOrder == [dependencies |-> 1, devDependencies |-> 2,
               peerDependencies |-> 3, optionalDependencies |-> 4]
DepTypes == {"prod", "dev", "peer", "optional"}
Values == Ranges \cup {Star} \cup Locations

ASSUME DepalignAssumption ==
  /\ RootPackage \in Nat \ {0} /\ MaxDepalignRuns \in Nat
  /\ DepGroups \subseteq DOMAIN GroupOrder
  /\ Ranges \subseteq [versions : SUBSET Nat, exact : BOOLEAN]
  /\ \A r \in Ranges : r.versions # {} /\ (r.exact => Cardinality(r.versions) = 1)
  /\ Star \notin Ranges \cup Locations
  /\ InitialDeps \subseteq [DepGroups -> Values \cup {NoRange}]
  /\ Ignores \subseteq SUBSET Values
  /\ CommandLines \subseteq [types : SUBSET DepTypes, typesOnly : BOOLEAN,
                            skipDeduped : BOOLEAN, mismatched : BOOLEAN]
  /\ NoRange \notin Values \cup CommandLines

VARIABLES
  json,      \* what the packages ask for, in each group
  tornJson,  \* the packages whose package.json was cut off
  ignore,    \* the ranges that .depalignrc.json ignores
  phase,     \* "idle", "fixing" or "aligning"
  opts,      \* the options of the run, if it fixes
  todo,      \* the packages that are still to be written
  target,    \* what is written into them
  killed,    \* ghost: options and target of a fixing run that was killed, or None
  runs

depalignVars == <<json, tornJson, ignore, phase, opts, todo, target, killed, runs>>

DepalignInit ==
  /\ json \in [Members -> InitialDeps] /\ tornJson = {}
  /\ ignore \in Ignores
  /\ phase = "idle" /\ opts = NoRange /\ todo = {} /\ target = NoRange
  /\ killed = NoRange /\ runs = 0

-----------------------------------------------------------------------------
(* What is asked for.                                                         *)

\* getDepType() compares ranges: of two groups with the same one, the first wins.
DepType(p, v) ==
  LET In(g) == g \in DepGroups /\ json[p][g] = v IN
  IF In("devDependencies") THEN "dev"
  ELSE IF In("peerDependencies") THEN "peer"
  ELSE IF In("optionalDependencies") THEN "optional" ELSE "prod"

\* Dependencies that are peers or optional, with any version, are left out.
AllEntries ==
  {n \in Members \X DepGroups :
     /\ json[n[1]][n[2]] # NoRange
     /\ json[n[1]][n[2]] = Star => n[2] \in {"dependencies", "devDependencies"}}

RangeAt(n) == json[n[1]][n[2]]

NotIgnored(ig) == {n \in AllEntries : RangeAt(n) \notin ig}

RangesOf(ns) == {RangeAt(n) : n \in ns}

\* The order in which entries are collected.
Before(n, m) == \/ n[1] < m[1]
                \/ n[1] = m[1] /\ GroupOrder[n[2]] < GroupOrder[m[2]]

-----------------------------------------------------------------------------
(* semver-helpers.ts.                                                         *)

Admits(v) == IF v = Star THEN UNION {r.versions : r \in Ranges} ELSE v.versions

Overlap(v, w) == {v, w} \cap Locations = {} /\ Admits(v) \cap Admits(w) # {}

\* Deviation: each with the next only.
NextOverlap(ns) ==
  \A n, m \in ns :
    /\ Before(n, m) /\ ~\E k \in ns : Before(n, k) /\ Before(k, m)
    => RangeAt(n) = RangeAt(m) \/ Overlap(RangeAt(n), RangeAt(m))

Intersects(ns) == \A n, m \in ns : RangeAt(n) # RangeAt(m) => Overlap(RangeAt(n), RangeAt(m))

Higher(v, w) == LET a == Min(v.versions)  b == Min(w.versions) IN
                a > b \/ (a = b /\ ~v.exact /\ w.exact)

\* Of the ranges that start highest the one that is collected first.
Best(ns) ==
  LET valid == {n \in ns : RangeAt(n) \in Ranges}
      best == {n \in valid : \A m \in valid : ~Higher(RangeAt(m), RangeAt(n))}
  IN {n \in best : \A m \in best : n = m \/ Before(n, m)}

\* Deviation: any version is the highest of no ranges.
HighestOrAny(ns) ==
  IF Best(ns) = {} THEN Star ELSE CHOOSE v \in Ranges : RangesOf(Best(ns)) = {v}

HighestRange(ns) ==
  IF Best(ns) = {} THEN NoRange ELSE CHOOSE v \in Ranges : RangesOf(Best(ns)) = {v}

\* calculateReplacements(): an empty range stands for any version.
HasFix(ns, v) ==
  LET h == HighestRange(ns) IN
  IF h = NoRange THEN v = Star ELSE v \notin Locations /\ Admits(h) \subseteq Admits(v)

-----------------------------------------------------------------------------
(* generateReport() and normalizeIgnore().                                    *)

Report(ig, o) ==
  LET ns == NotIgnored(ig)
      Included(n) == DepType(n[1], RangeAt(n)) \in o.types
  IN IF \/ Cardinality(RangesOf(ns)) <= 1
        \/ o.typesOnly /\ ~(\A n \in ns : Included(n))
        \/ ~o.typesOnly /\ ~(\E n \in ns : Included(n))
     THEN "none"
     ELSE IF Intersects(ns) THEN "deduped" ELSE "mismatched"

\* Deviation: the rules are compared with what is reported under them.
UsedUnderRules(ig, o) ==
  IF Report(ig, o) = "none" THEN {} ELSE ig \cap RangesOf(NotIgnored(ig))

Used(ig, o) == IF Report({}, o) = "none" THEN {} ELSE ig \cap RangesOf(AllEntries)

Reported(o) == \/ Report(ignore, o) = "deduped" /\ ~o.skipDeduped
               \/ Report(ignore, o) = "mismatched" /\ o.mismatched

\* Deviations: ranges without a fix are not given one; a group is forgotten.
OwnFix(p, v) == LET ns == NotIgnored(ignore) IN
                IF \E n \in ns : n[1] = p /\ HasFix(ns, RangeAt(n)) THEN v ELSE NoRange
ThreeGroups == DepGroups \ {"peerDependencies"}

\* Whatever has no fix of its own gets the first there is, and all are the same.
FixOf(p, v) == v

Rewritten == DepGroups

-----------------------------------------------------------------------------
(* Runs.                                                                      *)

\* --autofix, up to the point where files are written.
StartFix(o) ==
  /\ phase = "idle" /\ tornJson = {} /\ runs < MaxDepalignRuns
  /\ runs' = runs + 1 /\ opts' = o /\ killed' = NoRange
  /\ phase' = IF Reported(o) THEN "fixing" ELSE "idle"
  /\ todo' = IF Reported(o) THEN {n[1] : n \in NotIgnored(ignore)} ELSE {}
  /\ target' = IF Reported(o) THEN HighestRange(NotIgnored(ignore)) ELSE NoRange
  /\ UNCHANGED <<json, tornJson, ignore>>

Written(p, gs, v) ==
  json' = [json EXCEPT ![p] = [g \in DepGroups |-> IF g \in gs /\ @[g] # NoRange THEN v ELSE @[g]]]

\* All groups that have the dependency get the new range.
FixPackage(p) ==
  /\ phase = "fixing" /\ p \in todo
  /\ todo' = todo \ {p}
  /\ Written(p, Rewritten, FixOf(p, target))
  /\ UNCHANGED <<tornJson, ignore, phase, opts, target, killed, runs>>

FixDone ==
  /\ phase = "fixing" /\ todo = {}
  /\ phase' = "idle" /\ target' = NoRange
  /\ UNCHANGED <<json, tornJson, ignore, opts, todo, killed, runs>>

\* --validate-config --autofix: rules for what nobody asks for are removed.
CleanConfig(o) ==
  /\ phase = "idle" /\ tornJson = {} /\ runs < MaxDepalignRuns
  /\ runs' = runs + 1 /\ opts' = NoRange /\ killed' = NoRange
  /\ ignore' = Used(ignore, o)
  /\ UNCHANGED <<json, tornJson, phase, todo, target>>

\* --align: the packages but not the root, one after another.
StartAlign(v) ==
  /\ phase = "idle" /\ tornJson = {} /\ runs < MaxDepalignRuns
  /\ runs' = runs + 1 /\ opts' = NoRange /\ killed' = NoRange
  /\ phase' = "aligning" /\ todo' = Members \ {RootPackage} /\ target' = v
  /\ UNCHANGED <<json, tornJson, ignore>>

Aligned == DepGroups \ {"optionalDependencies"}
HasDep(p) == \E g \in Aligned : json[p][g] # NoRange

AlignPackage ==
  LET p == Min(todo) IN
  /\ phase = "aligning" /\ todo # {} /\ HasDep(p)
  /\ todo' = todo \ {p}
  /\ Written(p, Aligned, target)
  /\ UNCHANGED <<tornJson, ignore, phase, opts, target, killed, runs>>

\* It returns at the first package that does not have the dependency.
AlignDone ==
  /\ phase = "aligning" /\ (todo # {} => ~HasDep(Min(todo)))
  /\ phase' = "idle" /\ todo' = {} /\ target' = NoRange
  /\ UNCHANGED <<json, tornJson, ignore, opts, killed, runs>>

Writing == {p \in todo : phase = "aligning" => p = Min(todo) /\ HasDep(p)}

\* Killed between two files, or while one of them is written.
KillDepalign ==
  /\ phase # "idle"
  /\ tornJson' \in {tornJson} \cup {tornJson \cup {p} : p \in Writing}
  /\ killed' = IF phase = "fixing" THEN [opts |-> opts, target |-> target] ELSE NoRange
  /\ phase' = "idle" /\ todo' = {} /\ target' = NoRange
  /\ UNCHANGED <<json, ignore, opts, runs>>

DepalignNext ==
  \/ \E o \in CommandLines : StartFix(o) \/ CleanConfig(o)
  \/ \E p \in Members : FixPackage(p)
  \/ FixDone
  \/ \E v \in Ranges : StartAlign(v)
  \/ AlignPackage \/ AlignDone \/ KillDepalign

DepalignSpec == DepalignInit /\ [][DepalignNext]_depalignVars

-----------------------------------------------------------------------------
(* Properties.                                                                *)

\* The types of the variables.
DepalignTypeOK ==
  /\ json \in [Members -> [DepGroups -> Values \cup {NoRange}]]
  /\ tornJson \subseteq Members /\ todo \subseteq Members
  /\ ignore \subseteq Values
  /\ phase \in {"idle", "fixing", "aligning"}
  /\ opts \in CommandLines \cup {NoRange}
  /\ target \in Ranges \cup {NoRange}
  /\ phase = "aligning" => target # NoRange

\* A run of --autofix that comes to its end leaves nothing for the next one: all
\* groups of all packages agree, the ignored ranges aside.
FixedIsAligned == FixDone => Report(ignore, opts) = "none"

\* A run that was killed goes on where it stopped: when all types of dependencies
\* are included and deduped ones are not skipped, the next run with its options
\* writes the same range, although the ranges it starts from have changed and
\* what was mismatched may intersect now.
SameTarget ==
  \A o \in CommandLines :
    StartFix(o) /\ killed # NoRange /\ killed.opts = o /\ o.types = DepTypes /\ ~o.skipDeduped
      => Report(ignore, o) = "none" \/ target' = killed.target

\* No run takes a dependency away from a package, unless mismatched dependencies
\* are included and nothing that is asked for can be parsed as a range.
DependenciesKept ==
  \A p \in Members, g \in DepGroups :
    json[p][g] # NoRange /\ json'[p][g] = NoRange
      => opts # NoRange /\ opts.mismatched /\ target = NoRange

\* --validate-config --autofix does not change what is reported: a rule that is
\* taken for extraneous (depalign.ts:126) hid nothing.  With --types-only a rule
\* may hide the one entry of another type.
CleaningIsHarmless ==
  \A o \in CommandLines :
    CleanConfig(o) /\ ~o.typesOnly => Report(ignore', o) = Report(ignore, o)

\* Runs of depalign, killed or not, end in packages that agree, and lose nothing
\* on the way: no dependency, and no rule that hid something.
RunsConverge ==
  [][FixedIsAligned /\ SameTarget /\ DependenciesKept /\ CleaningIsHarmless]_depalignVars
=============================================================================
