---------------------------- MODULE Runner_proofs ----------------------------
(***************************************************************************)
(* What holds of clusters with any servers, groups and options, and of any *)
(* number of commands: nothing of a cluster is forgotten by those who stop *)
(* it, and a cluster that was started with strict checks can be recognised.*)
(*                                                                         *)
(* Marks is about the servers of a group that came past its start, Course  *)
(* about the order in which cluster, file and commands come about, Stops   *)
(* about what the commands know of the processes. StartInv, CheckerInv and *)
(* PlanInv are about the start of one server, the checker of warnings and  *)
(* the plan of a cluster, PortGiven and ServicesInv about its ports; what  *)
(* is read of a compose file is followed line by line (ReadsRight).        *)
(***************************************************************************)
EXTENDS Runner, Servers, FiniteSetTheorems, SequenceTheorems,
        WellFoundedInduction, TLAPS

PastStart == {"initiate", "auth", "assert", "done"}
Over == {"write", "run", "started", "ended"}

Marks ==
  \A s \in Servers :
    /\ srv[s].marked => s \in entry
    /\ grp[GroupOf[s]] \in PastStart => srv[s].pc = "started"
    /\ grp[GroupOf[s]] = "done" /\ ~opt.lenient =>
         srv[s].info /\ (srv[s].marked \/ MayLackEntry(s))

Course ==
  /\ file => main = "started"
  /\ main # "started" => \A c \in Commands : cmd[c] = NoCommand
  /\ main \in Over => \A g \in Groups : grp[g] = "done"
  /\ Mongos \in Groups /\ grp[Mongos] # "idle" =>
       \A g \in Groups \ {Mongos} : grp[g] = "done"
  /\ main \in {"ready", "servers"} \cup Over /\ helpers.compose = "up" => helpers.project
  /\ main \in {"begin", "oidc", "compose"} => helpers.compose = "none"

Stops ==
  /\ \A c \in Commands, s \in Servers :
       /\ cmd[c].check[s] \in {"closed", "noprocess"} => s \notin Up
       /\ cmd[c].check[s] = "closing" => s \notin Up \/ s \in mistaken
  /\ \A c \in Commands :
       cmd[c].pc = "remove" => AllClosed(c) /\ helpers.compose # "up"
  /\ main = "started" /\ ~file => /\ Up \subseteq mistaken
                                  /\ helpers.compose = "up" => pruned
  /\ main = "ended" => /\ Up = {}
                       /\ helpers.compose = "up" => helpers.oidc = "stuck"

RunnerInv == RunnerTypeOK /\ Marks /\ Course /\ Stops

LEMMA RunnerInvInit == RunnerInit => RunnerInv
<1> SUFFICES ASSUME RunnerInit
             PROVE  RunnerInv
    OBVIOUS
<1> USE DEF RunnerInit
<1>1. RunnerTypeOK
      BY RunnerAssumption
      DEF RunnerTypeOK, MainStates, GroupStates, ServerStates, Checks, Unstarted, NoCommand
<1>2. Marks
      BY RunnerAssumption DEF Marks, PastStart, Unstarted
<1>3. Course
      BY DEF Course, Over
<1>4. Stops
      BY DEF Stops, Up, NoCommand
<1>5. QED BY <1>1, <1>2, <1>3, <1>4 DEF RunnerInv

-----------------------------------------------------------------------------
(* Starting.                                                               *)

Outcome == [info : BOOLEAN, marked : BOOLEAN, entry : BOOLEAN, err : BOOLEAN]

(* Looking at the metadata never loses what is known.                      *)
Keeps(s, o) == /\ o \in Outcome
               /\ srv[s].info => o.info
               /\ srv[s].marked => o.marked
               /\ o.marked => o.entry \/ s \in entry

LEMMA InsertKeeps ==
  ASSUME RunnerTypeOK, Marks, NEW s \in Servers
  PROVE  /\ \A o \in InsertOutcomes(s) : Keeps(s, o)
         /\ \A o \in AssertOutcomes(s) : Keeps(s, o)
         /\ Keeps(s, NotPopulated(s))
<1>1. srv[s].info \in BOOLEAN /\ srv[s].marked \in BOOLEAN /\ (srv[s].marked => s \in entry)
      BY DEF RunnerTypeOK, Marks
<1>2. Keeps(s, NotPopulated(s))
      BY <1>1 DEF NotPopulated, AsBefore, Keeps, Outcome
<1> DEFINE e == s \in entry
           i == srv[s].info
           m == srv[s].marked
<1>3. \A o \in Populated(s) : Keeps(s, o)
  <2>1. Keeps(s, [info |-> TRUE, marked |-> m, entry |-> e, err |-> FALSE])
        BY <1>1 DEF Keeps, Outcome
  <2>2. Keeps(s, [info |-> TRUE, marked |-> TRUE, entry |-> TRUE, err |-> FALSE])
        BY DEF Keeps, Outcome
  <2>3. Keeps(s, [info |-> i, marked |-> TRUE, entry |-> TRUE, err |-> TRUE])
        BY <1>1 DEF Keeps, Outcome
  <2>4. Keeps(s, [info |-> i, marked |-> m, entry |-> TRUE, err |-> TRUE])
        BY <1>1 DEF Keeps, Outcome
  <2>5. \A o \in Populated(s) :
          o \in {[info |-> TRUE, marked |-> m, entry |-> e, err |-> FALSE],
                [info |-> TRUE, marked |-> TRUE, entry |-> TRUE, err |-> FALSE],
                [info |-> i, marked |-> TRUE, entry |-> TRUE, err |-> TRUE],
                [info |-> i, marked |-> m, entry |-> TRUE, err |-> TRUE]}
        BY Zenon DEF Populated
  <2>6. QED BY <2>1, <2>2, <2>3, <2>4, <2>5, Zenon
<1>4. Keeps(s, AsBefore(s, FALSE))
      BY <1>1 DEF AsBefore, Keeps, Outcome
<1>5. QED
      BY <1>2, <1>3, <1>4 DEF InsertOutcomes, AssertOutcomes

(* A step that leaves file, commands and processes alone.                  *)
LEMMA QuietKeepsStops ==
  ASSUME RunnerInv, UNCHANGED <<cmd, mistaken, pruned>>,
         Up' \subseteq Up,
         main' \in {"started", "ended"} => main' = main /\ UNCHANGED <<file, helpers>>,
         \A c \in Commands : cmd[c].pc = "remove" => UNCHANGED helpers
  PROVE  Stops'
  BY DEF RunnerInv, Stops, AllClosed, Killed

(* The helpers: nothing has been started yet.                              *)
LEMMA HelperSteps ==
  ASSUME RunnerInv, UNCHANGED <<opt, foreign, cmd, mistaken, pruned>>,
         NEW ok \in BOOLEAN,
         Begin(ok) \/ StartOidc(ok) \/ StartCompose(ok) \/ WaitForReady(ok)
  PROVE  RunnerInv'
<1> USE DEF RunnerInv
<1>1. /\ main \in {"begin", "oidc", "compose", "ready"}
      /\ main' \in {"oidc", "compose", "ready", "servers", "failed"}
      /\ UNCHANGED <<grp, srv, proc, entry, file>>
      BY DEF Begin, StartOidc, StartCompose, WaitForReady, Fail
<1>2. helpers' \in [oidc : {"none", "up", "asked", "stuck"},
                    compose : {"none", "up", "asked"}, project : BOOLEAN]
  <2>1. CASE Begin(ok)
        BY <2>1 DEF Begin, RunnerTypeOK
  <2>2. CASE StartOidc(ok)
        BY <2>2 DEF StartOidc, RunnerTypeOK
  <2>3. CASE StartCompose(ok)
        BY <2>3, RunnerAssumption DEF StartCompose, RunnerTypeOK, OptionType
  <2>4. CASE WaitForReady(ok)
        BY <2>4 DEF WaitForReady, CloseProject, TakenDown, RunnerTypeOK
  <2>5. QED BY <2>1, <2>2, <2>3, <2>4
<1>3. /\ main' \in {"ready", "servers"} /\ helpers'.compose = "up" => helpers'.project
      /\ main' \in {"oidc", "compose"} => helpers'.compose = "none"
  <2>1. CASE Begin(ok)
        BY <2>1 DEF Begin, Fail, Course
  <2>2. CASE StartOidc(ok)
        BY <2>2 DEF StartOidc, Fail, RunnerTypeOK, Course
  <2>3. CASE StartCompose(ok)
        BY <2>3, RunnerAssumption DEF StartCompose, Fail, RunnerTypeOK, OptionType, Course
  <2>4. CASE WaitForReady(ok)
        BY <2>4 DEF WaitForReady, Fail, Course
  <2>5. QED BY <2>1, <2>2, <2>3, <2>4
<1>4. RunnerTypeOK'
      BY <1>1, <1>2 DEF RunnerTypeOK, MainStates
<1>5. Marks'
      BY <1>1 DEF Marks, MayLackEntry
<1>6. Course'
      BY <1>1, <1>3 DEF Course, Over
<1>7. \A c \in Commands : cmd[c].pc # "remove"
      BY <1>1 DEF Course, NoCommand
<1>8. Stops'
      BY <1>1, <1>7, QuietKeepsStops DEF Up
<1>9. QED BY <1>4, <1>5, <1>6, <1>8

(* The servers of a group that is starting.                                *)
LEMMA ServerSteps ==
  ASSUME RunnerInv, UNCHANGED <<opt, foreign, cmd, mistaken, pruned>>,
         NEW s \in Servers,
         Spawn(s) \/ SpawnFails(s) \/ LogFileFails(s) \/ Listens(s) \/ StartFails(s)
  PROVE  RunnerInv'
<1> USE RunnerAssumption DEF RunnerInv
<1>1. /\ srv[s].pc \in {"idle", "spawned"}
      /\ srv[s].pc = "idle" => grp[GroupOf[s]] = "starting"
      /\ UNCHANGED <<main, grp, helpers, file>>
      BY DEF Spawn, SpawnFails, LogFileFails, Listens, StartFails
<1>2. GroupOf[s] \in Groups /\ grp[GroupOf[s]] \notin PastStart
      BY <1>1 DEF Marks
<1>3. main \notin Over
      BY <1>2 DEF Course, PastStart
<1>4. \E h \in [pc : ServerStates, info : BOOLEAN, marked : BOOLEAN] :
        /\ srv' = [srv EXCEPT ![s] = h]
        /\ h.marked => s \in entry'
        /\ entry \subseteq entry' /\ entry' \subseteq Servers
        /\ proc' \in [Servers -> {"none", "up", "dead"}]
  <2>1. CASE Spawn(s) \/ SpawnFails(s) \/ LogFileFails(s)
    <3>1. PICK pc \in ServerStates : srv' = [srv EXCEPT ![s].pc = pc]
          BY <2>1 DEF Spawn, SpawnFails, LogFileFails, SetServer, ServerStates
    <3>2. srv' = [srv EXCEPT ![s] = [srv[s] EXCEPT !.pc = pc]]
          BY <3>1
    <3>3. /\ [srv[s] EXCEPT !.pc = pc] \in [pc : ServerStates, info : BOOLEAN, marked : BOOLEAN]
          /\ [srv[s] EXCEPT !.pc = pc].marked = srv[s].marked
          BY DEF RunnerTypeOK
    <3>4. UNCHANGED entry /\ proc' \in [Servers -> {"none", "up", "dead"}]
          BY <2>1 DEF Spawn, SpawnFails, LogFileFails, RunnerTypeOK
    <3>5. QED BY <3>2, <3>3, <3>4 DEF RunnerTypeOK, Marks
  <2>2. CASE Listens(s)
    <3>1. PICK logged \in BOOLEAN, o \in InsertOutcomes(s) \cup {NotPopulated(s)} :
            /\ srv' = [srv EXCEPT ![s] = [pc |-> "started", info |-> o.info \/ logged,
                                         marked |-> o.marked]]
            /\ entry' = IF o.entry THEN entry \cup {s} ELSE entry
            /\ UNCHANGED proc
          BY <2>2 DEF Listens
    <3>2. Keeps(s, o)
          BY InsertKeeps
    <3>3. o.marked \in BOOLEAN /\ (o.info \/ logged) \in BOOLEAN
          BY <3>2 DEF Keeps, Outcome
    <3>4. DEFINE h == [pc |-> "started", info |-> o.info \/ logged, marked |-> o.marked]
    <3>5. h \in [pc : ServerStates, info : BOOLEAN, marked : BOOLEAN] /\ h.marked = o.marked
          BY <3>3 DEF ServerStates
    <3>6. /\ o.marked => s \in entry'
          /\ entry \subseteq entry' /\ entry' \subseteq Servers
          /\ proc' \in [Servers -> {"none", "up", "dead"}]
          BY <3>1, <3>2 DEF Keeps, RunnerTypeOK
    <3>7. QED BY <3>1, <3>5, <3>6
  <2>3. CASE StartFails(s)
    <3>1. PICK pc \in ServerStates : srv' = [srv EXCEPT ![s] = [Unstarted EXCEPT !.pc = pc]]
          BY <2>3 DEF StartFails, ServerStates
    <3>2. /\ [Unstarted EXCEPT !.pc = pc] \in [pc : ServerStates, info : BOOLEAN, marked : BOOLEAN]
          /\ [Unstarted EXCEPT !.pc = pc].marked = FALSE
          BY DEF Unstarted
    <3>3. QED BY <2>3, <3>1, <3>2 DEF StartFails, RunnerTypeOK
  <2>4. QED BY <2>1, <2>2, <2>3
<1>5. RunnerTypeOK'
  <2>1. /\ srv' \in [Servers -> [pc : ServerStates, info : BOOLEAN, marked : BOOLEAN]]
        /\ entry' \subseteq Servers
        /\ proc' \in [Servers -> {"none", "up", "dead"}]
    <3>1. PICK h \in [pc : ServerStates, info : BOOLEAN, marked : BOOLEAN] :
            srv' = [srv EXCEPT ![s] = h]
          BY <1>4
    <3>2. srv' \in [Servers -> [pc : ServerStates, info : BOOLEAN, marked : BOOLEAN]]
          BY <3>1 DEF RunnerTypeOK
    <3>3. QED BY <1>4, <3>2
  <2>2. QED BY <1>1, <2>1 DEF RunnerTypeOK
<1>6. Marks'
      BY <1>1, <1>2, <1>4 DEF RunnerTypeOK, Marks, PastStart, MayLackEntry
<1>7. Course'
      BY <1>1 DEF Course
<1>8. Stops'
      BY <1>1, <1>3 DEF Course, Stops, Over, NoCommand
<1>9. QED BY <1>5, <1>6, <1>7, <1>8

(* Groups.                                                                 *)
LEMMA GroupSteps ==
  ASSUME RunnerInv, UNCHANGED <<opt, foreign, cmd, mistaken, pruned>>,
         NEW g \in Groups, NEW ok \in BOOLEAN,
         \/ StartGroup(g, ok) \/ GroupStarted(g) \/ Initiate(g, ok) \/ AddAuth(g, ok)
         \/ AssertMetadata(g)
  PROVE  RunnerInv'
<1> USE RunnerAssumption DEF RunnerInv
<1>1. /\ grp[g] # "done"
      /\ grp[g] = "idle" => /\ main = "servers"
                            /\ g = Mongos => \A h \in Groups \ {g} : grp[h] = "done"
      /\ \E pc \in GroupStates : grp' = [grp EXCEPT ![g] = pc]
      /\ UNCHANGED <<main, helpers, proc, file>>
      BY DEF StartGroup, GroupStarted, Initiate, AddAuth, AssertMetadata, GroupTo, GroupStates
<1>2. main \notin Over
      BY <1>1 DEF Course
<1>3. /\ srv' \in [Servers -> [pc : ServerStates, info : BOOLEAN, marked : BOOLEAN]]
      /\ entry' \subseteq Servers /\ entry \subseteq entry'
      /\ \A s \in Servers : /\ srv'[s].pc = srv[s].pc
                            /\ srv[s].info => srv'[s].info
                            /\ srv[s].marked => srv'[s].marked
                            /\ srv'[s].marked => s \in entry'
  <2>1. CASE ~AssertMetadata(g)
    <3>1. CASE UNCHANGED <<srv, entry>>
          BY <3>1 DEF RunnerTypeOK, Marks
    <3>2. CASE /\ UNCHANGED entry
               /\ srv' = [s \in Servers |-> IF s \in AllServers(g)
                                           THEN [srv[s] EXCEPT !.info = TRUE] ELSE srv[s]]
      <4>1. ASSUME NEW s \in Servers
            PROVE  /\ srv'[s] \in [pc : ServerStates, info : BOOLEAN, marked : BOOLEAN]
                   /\ srv'[s].pc = srv[s].pc
                   /\ srv[s].info => srv'[s].info
                   /\ srv'[s].marked = srv[s].marked
        <5>1. srv[s] \in [pc : ServerStates, info : BOOLEAN, marked : BOOLEAN]
              BY DEF RunnerTypeOK
        <5>2. srv'[s] = IF s \in AllServers(g) THEN [srv[s] EXCEPT !.info = TRUE] ELSE srv[s]
              BY <3>2
        <5>3. CASE s \in AllServers(g)
              BY <5>1, <5>2, <5>3
        <5>4. CASE s \notin AllServers(g)
              BY <5>1, <5>2, <5>4
        <5>5. QED BY <5>3, <5>4
      <4>2. srv' \in [Servers -> [pc : ServerStates, info : BOOLEAN, marked : BOOLEAN]]
            BY <3>2, <4>1
      <4>3. \A s \in Servers : srv'[s].marked => s \in entry'
            BY <3>2, <4>1 DEF Marks
      <4>4. QED BY <3>2, <4>1, <4>2, <4>3 DEF RunnerTypeOK
    <3>3. QED
          BY <2>1, <3>1, <3>2 DEF StartGroup, GroupStarted, Initiate, AddAuth
  <2>2. CASE AssertMetadata(g)
    <3>1. PICK out \in [AllServers(g) -> UNION {AssertOutcomes(s) : s \in AllServers(g)}] :
            /\ \A s \in AllServers(g) : out[s] \in AssertOutcomes(s)
            /\ srv' = [s \in Servers |->
                        IF s \in AllServers(g)
                        THEN [srv[s] EXCEPT !.info = out[s].info, !.marked = out[s].marked]
                        ELSE srv[s]]
            /\ entry' = entry \cup {s \in AllServers(g) : out[s].entry}
          BY <2>2 DEF AssertMetadata
    <3>2. AllServers(g) \subseteq Servers
          BY DEF AllServers, MembersOf
    <3>3. ASSUME NEW s \in AllServers(g)
          PROVE  /\ srv'[s] = [srv[s] EXCEPT !.info = out[s].info, !.marked = out[s].marked]
                 /\ Keeps(s, out[s])
          BY <3>1, <3>2, InsertKeeps
    <3>4. ASSUME NEW s \in AllServers(g)
          PROVE  /\ srv'[s] \in [pc : ServerStates, info : BOOLEAN, marked : BOOLEAN]
                 /\ srv'[s].pc = srv[s].pc
                 /\ srv'[s].info = out[s].info /\ srv'[s].marked = out[s].marked
      <4>1. /\ srv[s] \in [pc : ServerStates, info : BOOLEAN, marked : BOOLEAN]
            /\ out[s].info \in BOOLEAN /\ out[s].marked \in BOOLEAN
            BY <3>2, <3>3 DEF RunnerTypeOK, Keeps, Outcome
      <4>2. QED BY <3>3, <4>1
    <3>5. \A s \in Servers \ AllServers(g) : srv'[s] = srv[s]
          BY <3>1
    <3>6. \A s \in Servers : srv'[s] \in [pc : ServerStates, info : BOOLEAN, marked : BOOLEAN]
          BY <3>4, <3>5 DEF RunnerTypeOK
    <3>7. entry' \subseteq Servers /\ entry \subseteq entry'
          BY <3>1, <3>2 DEF RunnerTypeOK
    <3>8. \A s \in AllServers(g) : srv'[s].marked => s \in entry'
          BY <3>1, <3>3, <3>4 DEF Keeps
    <3>9. ASSUME NEW s \in Servers
          PROVE  /\ srv'[s].pc = srv[s].pc
                 /\ srv[s].info => srv'[s].info
                 /\ srv[s].marked => srv'[s].marked
                 /\ srv'[s].marked => s \in entry'
      <4>1. CASE s \in AllServers(g)
            BY <3>3, <3>4, <3>8, <4>1 DEF Keeps
      <4>2. CASE s \notin AllServers(g)
            BY <3>5, <3>7, <4>2 DEF Marks
      <4>3. QED BY <4>1, <4>2
    <3>10. srv' \in [Servers -> [pc : ServerStates, info : BOOLEAN, marked : BOOLEAN]]
          BY <3>1, <3>6
    <3>11. QED
          BY <3>7, <3>9, <3>10
  <2>3. QED BY <2>1, <2>2
<1>4. RunnerTypeOK'
      BY <1>1, <1>3 DEF RunnerTypeOK
<1>5. ASSUME NEW s \in MembersOf(g), grp'[g] \in PastStart
      PROVE  srv[s].pc = "started"
  <2>1. s \in Servers /\ GroupOf[s] = g
        BY DEF MembersOf
  <2>2. CASE grp[g] \in PastStart
        BY <2>1, <2>2 DEF Marks
  <2>3. CASE grp[g] \notin PastStart
    <3>1. grp[g] \in {"idle", "starting"}
          BY <2>3
          DEF StartGroup, GroupStarted, Initiate, AddAuth, AssertMetadata, PastStart
    <3>2. GroupStarted(g)
      <4>1. CASE StartGroup(g, ok)
            BY <1>5, <4>1 DEF StartGroup, GroupTo, PastStart, RunnerTypeOK
      <4>2. QED
            BY <3>1, <4>1 DEF StartGroup, GroupStarted, Initiate, AddAuth, AssertMetadata
    <3>3. grp' = [grp EXCEPT ![g] =
                    IF \A q \in MembersOf(g) : srv[q].pc = "started" THEN "initiate"
                    ELSE "failed"]
          BY <3>2 DEF GroupStarted, GroupTo
    <3>4. QED BY <1>5, <3>3 DEF RunnerTypeOK, PastStart
  <2>4. QED BY <2>2, <2>3
<1>6. ASSUME NEW s \in MembersOf(g), grp'[g] = "done", ~opt.lenient
      PROVE  srv'[s].info /\ (srv'[s].marked \/ MayLackEntry(s))
  <2>1. AssertMetadata(g)
        BY <1>6
        DEF StartGroup, GroupStarted, Initiate, AddAuth, GroupTo, RunnerTypeOK
  <2>2. PICK out \in [AllServers(g) -> UNION {AssertOutcomes(q) : q \in AllServers(g)}] :
          /\ srv' = [q \in Servers |->
                      IF q \in AllServers(g)
                      THEN [srv[q] EXCEPT !.info = out[q].info, !.marked = out[q].marked]
                      ELSE srv[q]]
          /\ grp' = [grp EXCEPT ![g] =
                 IF ~opt.lenient /\ \E q \in AllServers(g) : AssertFails(q, out[q])
                 THEN "failed" ELSE "done"]
        BY <2>1 DEF AssertMetadata, GroupTo
  <2>3. s \in AllServers(g) /\ s \in Servers
        BY DEF AllServers, MembersOf
  <2>4. ~AssertFails(s, out[s])
        BY <1>6, <2>2, <2>3 DEF RunnerTypeOK
  <2>5. srv'[s] = [srv[s] EXCEPT !.info = out[s].info, !.marked = out[s].marked]
        BY <2>2, <2>3
  <2>6. srv'[s].info = out[s].info /\ srv'[s].marked = out[s].marked
        BY <2>3, <2>5 DEF RunnerTypeOK
  <2>7. QED BY <2>4, <2>6 DEF AssertFails
<1>7. Marks'
  <2>1. ASSUME NEW q \in Servers
        PROVE  /\ srv'[q].marked => q \in entry'
               /\ grp'[GroupOf[q]] \in PastStart => srv'[q].pc = "started"
               /\ grp'[GroupOf[q]] = "done" /\ ~opt.lenient =>
                    srv'[q].info /\ (srv'[q].marked \/ MayLackEntry(q))
    <3>1. CASE GroupOf[q] = g
      <4>1. q \in MembersOf(g)
            BY <3>1 DEF MembersOf
      <4>2. srv'[q].marked => q \in entry'
            BY <1>3
      <4>3. grp'[GroupOf[q]] \in PastStart => srv'[q].pc = "started"
            BY <1>3, <1>5, <3>1, <4>1
      <4>5. grp'[GroupOf[q]] = "done" /\ ~opt.lenient =>
              srv'[q].info /\ (srv'[q].marked \/ MayLackEntry(q))
            BY <1>6, <3>1, <4>1, Zenon
      <4>6. QED BY <4>2, <4>3, <4>5, Zenon
    <3>2. CASE GroupOf[q] # g
      <4>1. grp'[GroupOf[q]] = grp[GroupOf[q]]
            BY <1>1, <3>2 DEF RunnerTypeOK
      <4>2. srv'[q].marked => q \in entry'
            BY <1>3
      <4>3. grp'[GroupOf[q]] \in PastStart => srv'[q].pc = "started"
            BY <1>3, <4>1 DEF Marks
      <4>4. grp'[GroupOf[q]] = "done" /\ ~opt.lenient =>
              srv'[q].info /\ (srv'[q].marked \/ MayLackEntry(q))
            BY <1>3, <4>1, Zenon DEF Marks
      <4>5. QED BY <4>2, <4>3, <4>4, Zenon
    <3>3. QED BY <3>1, <3>2
  <2>2. QED BY <2>1 DEF Marks, MayLackEntry
<1>8. Course'
      BY <1>1, <1>2 DEF Course, RunnerTypeOK, Over
<1>9. Stops'
      BY <1>1, <1>2 DEF Stops, Course, Over, NoCommand, Up, AllClosed, Killed
<1>10. QED BY <1>4, <1>7, <1>8, <1>9

LEMMA OidcType ==
  ASSUME RunnerTypeOK, NEW oidc \in CloseOidc, NEW closed \in BOOLEAN
  PROVE  /\ ClosedHelpers(oidc, closed) \in [oidc : {"none", "up", "asked", "stuck"},
                                            compose : {"none", "up", "asked"},
                                            project : BOOLEAN]
         /\ ClosedHelpers(oidc, closed).oidc = oidc
         /\ ClosedHelpers(oidc, closed).project = helpers.project
         /\ ClosedHelpers(oidc, closed).compose = helpers.compose
              \/ ClosedHelpers(oidc, closed).compose = "asked"
         /\ closed /\ oidc # "stuck" /\ helpers.project =>
              ClosedHelpers(oidc, closed).compose = "asked"
<1>1. helpers \in [oidc : {"none", "up", "asked", "stuck"},
                  compose : {"none", "up", "asked"}, project : BOOLEAN]
      BY DEF RunnerTypeOK
<1>2. oidc \in {"none", "up", "asked", "stuck"}
      BY <1>1 DEF CloseOidc
<1>3. /\ TakenDown \in [oidc : {"none", "up", "asked", "stuck"},
                        compose : {"none", "up", "asked"}, project : BOOLEAN]
      /\ TakenDown.project = helpers.project
      /\ TakenDown.compose = IF helpers.project THEN "asked" ELSE helpers.compose
      BY <1>1 DEF TakenDown
<1>4. CASE closed /\ oidc # "stuck"
  <2>1. ClosedHelpers(oidc, closed) = [TakenDown EXCEPT !.oidc = oidc]
        BY <1>4 DEF ClosedHelpers
  <2>2. QED BY <1>2, <1>3, <1>4, <2>1
<1>5. CASE ~(closed /\ oidc # "stuck")
  <2>1. ClosedHelpers(oidc, closed) = [helpers EXCEPT !.oidc = oidc]
        BY <1>5 DEF ClosedHelpers
  <2>2. QED BY <1>1, <1>2, <1>5, <2>1
<1>6. QED BY <1>4, <1>5

(* The cluster as a whole.                                                 *)
LEMMA ClusterSteps ==
  ASSUME RunnerInv, UNCHANGED <<opt, foreign, cmd, mistaken, pruned>>,
         \/ ClusterStarts \/ ClusterFails \/ ExecEnds
         \/ \E ok \in BOOLEAN : WriteFile(ok)
  PROVE  RunnerInv'
<1> USE RunnerAssumption DEF RunnerInv
<1>1. CASE ClusterStarts
  <2>1. /\ main = "servers" /\ main' \in {"run", "write"}
        /\ UNCHANGED <<grp, srv, helpers, proc, entry, file>>
        BY <1>1 DEF ClusterStarts
  <2>2. \A g \in Groups : grp[g] = "done"
        BY <1>1 DEF ClusterStarts, Top, Course
  <2>3. RunnerTypeOK' /\ Marks'
        BY <2>1 DEF RunnerTypeOK, MainStates, Marks, MayLackEntry
  <2>4. Course'
        BY <2>1, <2>2 DEF Course, Over
  <2>5. Stops'
        BY <2>1 DEF Course, Stops, NoCommand, Up
  <2>6. QED BY <2>3, <2>4, <2>5
<1>2. CASE ClusterFails
  <2>1. /\ main = "servers" /\ main' = "failed" /\ helpers' = TakenDown
        /\ UNCHANGED <<grp, srv, proc, entry, file>>
        BY <1>2 DEF ClusterFails, Fail, CloseProject
  <2>2. RunnerTypeOK'
        BY <2>1 DEF RunnerTypeOK, MainStates, TakenDown
  <2>3. Marks' /\ Course'
        BY <2>1 DEF Marks, MayLackEntry, Course, Over
  <2>4. Stops'
        BY <2>1 DEF Course, Stops, NoCommand, Up
  <2>5. QED BY <2>2, <2>3, <2>4
<1>3. CASE ExecEnds
  <2>1. PICK oidc \in CloseOidc : helpers' = ClosedHelpers(oidc, TRUE)
        BY <1>3 DEF ExecEnds
  <2>2. /\ main = "run" /\ main' = "ended" /\ Up' = {}
        /\ proc' \in [Servers -> {"none", "up", "dead"}]
        /\ UNCHANGED <<grp, srv, entry, file>>
        BY <1>3 DEF ExecEnds, RunnerTypeOK, Up
  <2>3. helpers'.compose = "up" => helpers'.project /\ helpers'.oidc = "stuck"
        BY <2>1, <2>2, OidcType DEF Course, Over
  <2>4. RunnerTypeOK'
        BY <2>1, <2>2, OidcType DEF RunnerTypeOK, MainStates
  <2>5. Marks' /\ Course'
        BY <2>2, <2>3 DEF Marks, MayLackEntry, Course, Over
  <2>6. Stops'
        BY <2>2, <2>3 DEF Course, Stops, NoCommand
  <2>7. QED BY <2>4, <2>5, <2>6
<1>4. ASSUME NEW ok \in BOOLEAN, WriteFile(ok)
      PROVE  RunnerInv'
  <2>1. /\ main = "write" /\ main' = (IF ok THEN "started" ELSE "failed") /\ file' = ok
        /\ UNCHANGED <<grp, srv, helpers, proc, entry>>
        BY <1>4 DEF WriteFile
  <2>2. RunnerTypeOK' /\ Marks'
        BY <2>1 DEF RunnerTypeOK, MainStates, Marks, MayLackEntry
  <2>3. Course'
        BY <2>1 DEF Course, Over
  <2>4. Stops'
        BY <2>1 DEF Course, Stops, NoCommand, Up
  <2>5. QED BY <2>2, <2>3, <2>4
<1>5. QED BY <1>1, <1>2, <1>3, <1>4

-----------------------------------------------------------------------------
(* Servers that die, and commands.                                         *)

LEMMA WorldSteps ==
  ASSUME RunnerInv, NEW s \in Servers, ServerDies(s) \/ PortTakenOver(s)
  PROVE  RunnerInv'
<1>1. /\ UNCHANGED <<opt, progress, entry, helpers, file, cmd, mistaken, pruned>>
      /\ proc' \in [Servers -> {"none", "up", "dead"}] /\ Up' \subseteq Up
      /\ foreign' \subseteq Servers
      BY DEF ServerDies, PortTakenOver, RunnerInv, RunnerTypeOK, Up
<1>2. RunnerTypeOK' /\ Marks' /\ Course'
      BY <1>1 DEF progress, RunnerInv, RunnerTypeOK, Marks, MayLackEntry, Course
<1>3. Stops'
      BY <1>1, QuietKeepsStops DEF progress
<1>4. QED BY <1>2, <1>3 DEF RunnerInv

LEMMA CheckTypes ==
  ASSUME RunnerTypeOK, NEW c \in Commands, NEW s \in Servers, NEW r \in Checks
  PROVE  [cmd EXCEPT ![c].check[s] = r] \in
           [Commands -> [pc : {"idle", "stop", "prune", "remove", "over"},
                         check : [Servers -> Checks]]]
  BY DEF RunnerTypeOK

(* A step after which no command knows more than before.                   *)
LEMMA SameChecks ==
  ASSUME RunnerInv, main = "started", UNCHANGED <<main, proc, helpers>>,
         mistaken \subseteq mistaken',
         \A d \in Commands : /\ cmd'[d].check = cmd[d].check
                             /\ cmd'[d].pc = "remove" => cmd[d].pc = "remove",
         ~file' => Up' \subseteq mistaken' /\ (helpers.compose = "up" => pruned')
  PROVE  Stops'
<1>1. Up' = Up
      BY DEF Up
<1>2. \A d \in Commands : AllClosed(d)' = AllClosed(d)
      BY DEF AllClosed, Killed
<1>3. QED
      BY <1>1, <1>2 DEF RunnerInv, Stops

(* A command runs only while the cluster is started, so that no process    *)
(* comes up any more.                                                      *)
LEMMA CommandSteps ==
  ASSUME RunnerInv, NEW c \in Commands, CommandStep(c)
  PROVE  RunnerInv'
<1> USE DEF RunnerInv, progress
<1>1. main = "started" /\ UNCHANGED <<opt, main, grp, srv, entry, foreign>>
  <2>1. cmd[c] # NoCommand \/ main = "started"
        BY DEF CommandStep, ReadInstance, RestoreCheck, Kill, StopHelpers, RemoveFile, Prune,
               NoCommand, Course
  <2>2. UNCHANGED <<opt, main, grp, srv, entry, foreign>>
        BY DEF CommandStep, ReadInstance, RestoreCheck, Kill, StopHelpers, RemoveFile, Prune
  <2>3. QED BY <2>1, <2>2 DEF Course
<1>2. Marks'
      BY <1>1 DEF Marks, MayLackEntry
<1>3. ASSUME NEW kind \in {"stop", "prune"}, ReadInstance(c, kind)
      PROVE  RunnerInv'
  <2>1. /\ cmd' = [cmd EXCEPT ![c].pc = kind]
        /\ UNCHANGED <<proc, helpers, file, mistaken, pruned>>
        BY <1>3 DEF ReadInstance, SetCommand
  <2>2. RunnerTypeOK'
        BY <1>1, <2>1 DEF RunnerTypeOK
  <2>3. \A d \in Commands : /\ cmd'[d].check = cmd[d].check
                            /\ cmd'[d].pc = "remove" => cmd[d].pc = "remove"
        BY <2>1 DEF RunnerTypeOK
  <2>4. Course' /\ Stops'
        BY <1>1, <2>1, <2>3 DEF Course, Stops, Up, AllClosed, Killed
  <2>5. QED BY <1>2, <2>2, <2>4
<1>4. ASSUME NEW s \in Servers, RestoreCheck(c, s)
      PROVE  RunnerInv'
  <2>1. PICK r \in Checks :
          /\ cmd' = [cmd EXCEPT ![c].check[s] = r]
          /\ r \notin {"closed", "noprocess"}
          /\ r = "closing" /\ s \in Up => s \in mistaken'
        BY <1>4 DEF RestoreCheck, SetCheck, Checks, Recognised, RestoredMark
  <2>2. /\ cmd[c].pc \in {"stop", "prune"}
        /\ mistaken \subseteq mistaken' /\ mistaken' \subseteq Servers
        /\ UNCHANGED <<proc, helpers, file, pruned>>
        BY <1>4 DEF RestoreCheck, RunnerTypeOK
  <2>3. RunnerTypeOK'
        BY <1>1, <2>1, <2>2, CheckTypes DEF RunnerTypeOK
  <2>4. /\ \A d \in Commands : cmd'[d].pc = cmd[d].pc
        /\ \A d \in Commands, q \in Servers :
             cmd'[d].check[q] = IF d = c /\ q = s THEN r ELSE cmd[d].check[q]
        BY <2>1 DEF RunnerTypeOK
  <2>5. Up' = Up
        BY <2>2 DEF Up
  <2>6. Course'
        BY <1>1, <2>2 DEF Course
  <2>7. Stops'
        BY <1>1, <2>1, <2>2, <2>4, <2>5 DEF Stops, AllClosed, Killed
  <2>8. QED BY <1>2, <2>3, <2>6, <2>7
<1>5. ASSUME NEW s \in Servers, Kill(c, s)
      PROVE  RunnerInv'
  <2>1. PICK r \in {"closed", "noprocess"} : cmd' = [cmd EXCEPT ![c].check[s] = r]
        BY <1>5 DEF Kill, SetCheck
  <2>2. /\ cmd[c].pc = "stop"
        /\ proc' = [proc EXCEPT ![s] = IF @ = "up" THEN "dead" ELSE @]
        /\ UNCHANGED <<helpers, file, mistaken, pruned>>
        BY <1>5 DEF Kill
  <2>3. r \in Checks
        BY DEF Checks
  <2>4. RunnerTypeOK'
        BY <1>1, <2>1, <2>2, <2>3, CheckTypes DEF RunnerTypeOK
  <2>5. /\ \A d \in Commands : cmd'[d].pc = cmd[d].pc
        /\ \A d \in Commands, q \in Servers :
             cmd'[d].check[q] = IF d = c /\ q = s THEN r ELSE cmd[d].check[q]
        BY <2>1 DEF RunnerTypeOK
  <2>6. Up' = Up \ {s}
        BY <2>2 DEF Up, RunnerTypeOK
  <2>7. Course'
        BY <1>1, <2>2 DEF Course
  <2>8. Stops'
        BY <1>1, <2>1, <2>2, <2>5, <2>6 DEF Stops, AllClosed, Killed
  <2>9. QED BY <1>2, <2>4, <2>7, <2>8
<1>6. CASE StopHelpers(c)
  <2>1. PICK oidc \in CloseOidc :
          /\ cmd' = [cmd EXCEPT ![c].pc =
                        IF AllClosed(c) /\ oidc # "stuck" THEN "remove" ELSE "over"]
          /\ helpers' = ClosedHelpers(oidc, AllClosed(c))
        BY <1>6 DEF StopHelpers, SetCommand
  <2>2. UNCHANGED <<proc, file, mistaken, pruned>>
        BY <1>6 DEF StopHelpers
  <2>3. AllClosed(c) \in BOOLEAN
        BY DEF AllClosed
  <2>4. /\ helpers' \in [oidc : {"none", "up", "asked", "stuck"},
                         compose : {"none", "up", "asked"}, project : BOOLEAN]
        /\ helpers'.project = helpers.project
        /\ helpers'.compose = helpers.compose \/ helpers'.compose = "asked"
        /\ AllClosed(c) /\ oidc # "stuck" /\ helpers.project => helpers'.compose = "asked"
        BY <2>1, <2>3, OidcType
  <2>5. helpers.compose = "up" => helpers.project
        BY <1>1 DEF Course, Over
  <2>6. RunnerTypeOK'
        BY <1>1, <2>1, <2>2, <2>4 DEF RunnerTypeOK
  <2>7. \A d \in Commands :
          /\ cmd'[d].check = cmd[d].check
          /\ cmd'[d].pc = "remove" =>
               cmd[d].pc = "remove" \/ (d = c /\ AllClosed(c) /\ oidc # "stuck")
        BY <2>1 DEF RunnerTypeOK
  <2>8. Course'
        BY <1>1, <2>2, <2>4, <2>5 DEF Course, Over
  <2>9. Stops'
        BY <1>1, <2>2, <2>4, <2>5, <2>7 DEF Stops, Up, AllClosed, Killed
  <2>10. QED BY <1>2, <2>6, <2>8, <2>9
<1>7. CASE RemoveFile(c)
  <2>1. /\ cmd[c].pc = "remove" /\ file' = FALSE
        /\ cmd' = [cmd EXCEPT ![c].pc = "over"]
        /\ UNCHANGED <<proc, helpers, mistaken, pruned>>
        BY <1>7 DEF RemoveFile, SetCommand
  <2>2. RunnerTypeOK'
        BY <1>1, <2>1 DEF RunnerTypeOK
  <2>3. \A d \in Commands : /\ cmd'[d].check = cmd[d].check
                            /\ cmd'[d].pc = "remove" => cmd[d].pc = "remove"
        BY <2>1 DEF RunnerTypeOK
  <2>4. Up \subseteq mistaken /\ helpers.compose # "up"
        BY <2>1 DEF Stops, AllClosed, Killed, Up
  <2>5. Course' /\ Stops'
        BY <1>1, <2>1, <2>3, <2>4 DEF Course, Stops, Up, AllClosed, Killed
  <2>6. QED BY <1>2, <2>2, <2>5
<1>8. ASSUME NEW connects \in BOOLEAN, Prune(c, connects)
      PROVE  RunnerInv'
  <2>1. /\ cmd' = [cmd EXCEPT ![c].pc = "over"]
        /\ file' = (file /\ connects) /\ pruned' = (pruned \/ ~connects)
        /\ mistaken' = IF connects THEN mistaken ELSE mistaken \cup Up
        /\ UNCHANGED <<proc, helpers>>
        BY <1>8 DEF Prune, SetCommand
  <2>2. RunnerTypeOK'
        BY <1>1, <2>1 DEF RunnerTypeOK, Up
  <2>3. \A d \in Commands : /\ cmd'[d].check = cmd[d].check
                            /\ cmd'[d].pc = "remove" => cmd[d].pc = "remove"
        BY <2>1 DEF RunnerTypeOK
  <2>4. CASE connects
    <3>1. UNCHANGED <<file, pruned, mistaken>>
          BY <2>1, <2>4 DEF RunnerTypeOK
    <3>2. Up' = Up /\ (~file => Up \subseteq mistaken /\ (helpers.compose = "up" => pruned))
          BY <1>1, <2>1 DEF Up, Stops
    <3>3. Course'
          BY <1>1, <2>1, <3>1 DEF Course
    <3>4. Stops'
      <4>1. UNCHANGED <<main, proc, helpers>> /\ mistaken \subseteq mistaken'
            BY <1>1, <2>1, <3>1
      <4>2. ~file' => Up' \subseteq mistaken' /\ (helpers.compose = "up" => pruned')
            BY <3>1, <3>2
      <4>3. QED BY <1>1, <2>3, <4>1, <4>2, SameChecks
    <3>5. QED BY <1>2, <2>2, <3>3, <3>4
  <2>5. CASE ~connects
    <3>1. ~file' /\ pruned' /\ mistaken \subseteq mistaken' /\ Up' = Up /\ Up \subseteq mistaken'
          BY <2>1, <2>5 DEF RunnerTypeOK, Up
    <3>2. Course'
          BY <1>1, <2>1, <3>1 DEF Course
    <3>3. Stops'
      <4>1. UNCHANGED <<main, proc, helpers>>
            BY <1>1, <2>1
      <4>2. ~file' => Up' \subseteq mistaken' /\ (helpers.compose = "up" => pruned')
            BY <3>1
      <4>3. QED BY <1>1, <2>3, <3>1, <4>1, <4>2, SameChecks
    <3>4. QED BY <1>2, <2>2, <3>2, <3>3
  <2>6. QED BY <1>2, <2>2, <2>4, <2>5
<1>9. QED
      BY <1>3, <1>4, <1>5, <1>6, <1>7, <1>8 DEF CommandStep

LEMMA RunnerInvNext == RunnerInv /\ [RunnerNext]_runnerVars => RunnerInv'
<1> SUFFICES ASSUME RunnerInv, [RunnerNext]_runnerVars
             PROVE  RunnerInv'
    OBVIOUS
<1>1. CASE StartStep
  <2>1. UNCHANGED <<opt, foreign, cmd, mistaken, pruned>>
        BY <1>1 DEF StartStep
  <2>2. ASSUME NEW ok \in BOOLEAN,
               Begin(ok) \/ StartOidc(ok) \/ StartCompose(ok) \/ WaitForReady(ok)
        PROVE  RunnerInv'
        BY <2>1, <2>2, HelperSteps
  <2>3. ASSUME NEW s \in Servers,
               Spawn(s) \/ SpawnFails(s) \/ LogFileFails(s) \/ Listens(s) \/ StartFails(s)
        PROVE  RunnerInv'
        BY <2>1, <2>3, ServerSteps
  <2>4. ASSUME NEW g \in Groups, NEW ok \in BOOLEAN,
               \/ StartGroup(g, ok) \/ GroupStarted(g) \/ Initiate(g, ok)
               \/ AddAuth(g, ok) \/ AssertMetadata(g)
        PROVE  RunnerInv'
        BY <2>1, <2>4, GroupSteps
  <2>5. ASSUME \/ ClusterStarts \/ ClusterFails \/ ExecEnds
               \/ \E ok \in BOOLEAN : WriteFile(ok)
        PROVE  RunnerInv'
        BY <2>1, <2>5, ClusterSteps
  <2>6. TRUE \in BOOLEAN
        OBVIOUS
  <2>7. QED
        BY <1>1, <2>2, <2>3, <2>4, <2>5, <2>6 DEF StartStep
<1>2. ASSUME NEW s \in Servers, ServerDies(s) \/ PortTakenOver(s)
      PROVE  RunnerInv'
      BY <1>2, WorldSteps
<1>3. ASSUME NEW c \in Commands, CommandStep(c)
      PROVE  RunnerInv'
      BY <1>3, CommandSteps
<1>4. CASE UNCHANGED runnerVars
      BY <1>4
      DEF runnerVars, progress, RunnerInv, RunnerTypeOK, Marks, MayLackEntry, Course, Stops,
          Up, AllClosed, Killed
<1>5. QED
      BY <1>1, <1>2, <1>3, <1>4 DEF RunnerNext

-----------------------------------------------------------------------------
LEMMA RunnerInvHolds == RunnerSpec => []RunnerInv
  BY RunnerInvInit, RunnerInvNext, PTL DEF RunnerSpec

(* The types of the runner's state, for any cluster and any commands.      *)
THEOREM TypeCorrect == RunnerSpec => []RunnerTypeOK
<1>1. RunnerInv => RunnerTypeOK
      BY DEF RunnerInv
<1>2. QED BY RunnerInvHolds, <1>1, PTL

(* A server of a cluster that was started outlives the file that describes *)
(* it, or the end of exec(), only when a command took it for dead, and its *)
(* compose project only when the file was pruned or the provider did not   *)
(* close (runner-helpers.ts).                                              *)
THEOREM NoneForgotten == RunnerSpec => []NothingForgotten
<1>1. RunnerInv => NothingForgotten
  <2> SUFFICES ASSUME RunnerInv, main \in {"started", "ended"}, ~file
               PROVE  /\ Up \subseteq mistaken
                      /\ helpers.compose = "up" => pruned \/ helpers.oidc = "stuck"
      BY DEF NothingForgotten
  <2>1. QED BY DEF RunnerInv, Stops
<1>2. QED BY RunnerInvHolds, <1>1, PTL

(* With strict checks every server of a cluster that was started is known, *)
(* and those that hold data have their entry (mongoserver.ts).             *)
THEOREM StartedMarked == RunnerSpec => []StartedIsMarked
<1>1. RunnerInv => StartedIsMarked
  <2> SUFFICES ASSUME RunnerInv, main \in {"write", "run", "started"}, ~opt.lenient,
                      NEW s \in Servers
               PROVE  /\ srv[s].info
                      /\ MayLackEntry(s) \/ (srv[s].marked /\ s \in entry)
      BY DEF StartedIsMarked
  <2>1. grp[GroupOf[s]] = "done"
        BY RunnerAssumption DEF RunnerInv, Course, Over
  <2>2. QED BY <2>1, Zenon DEF RunnerInv, Marks
<1>2. QED BY RunnerInvHolds, <1>1, PTL

(* A cluster is described by its file and marked on its servers for as     *)
(* long as it runs, for any servers and any commands.                      *)
THEOREM ClustersFound == RunnerSpec => []ClustersAreFound
<1>1. NothingForgotten /\ StartedIsMarked => ClustersAreFound
      BY DEF ClustersAreFound
<1>2. QED BY <1>1, NoneForgotten, StartedMarked, PTL

-----------------------------------------------------------------------------
(* ServerStart.  A mongod writes its version before it listens, so that the  *)
(* filter for the port is the last that leaves the stream; and nobody reads  *)
(* for an attempt that has not begun or is over.                             *)

LogLines == {"version", "line", "listening", "taken", "takenNetwork", "garbage"}

StartTypes ==
  /\ binary \in {"mongod", "mongos"} /\ stdout \in Seq(LogLines)
  /\ starting \in {"spawn", "log", "wait", "found", "close", "started", "failed", "abandoned"}
  /\ server \in {"none", "starting", "listening", "exited"}
  /\ versionTold \in BOOLEAN /\ reading \in BOOLEAN /\ paused \in BOOLEAN
  /\ info \in BOOLEAN /\ errors \in BOOLEAN
  /\ answer \in {"none", "listening", "takenNetwork"}

VersionComesFirst ==
  IF binary = "mongos" THEN ~info /\ \A i \in 1..Len(stdout) : stdout[i] # "version"
  ELSE /\ versionTold => info \/ \E i \in 1..Len(stdout) : stdout[i] = "version"
       /\ \A i \in 1..Len(stdout) : stdout[i] = "listening" =>
            info \/ \E j \in 1..(i - 1) : stdout[j] = "version"
       /\ answer = "listening" => info

NotBegun ==
  /\ starting = "spawn" => server = "none"
  /\ server = "none" => /\ stdout = <<>> /\ reading /\ answer = "none" /\ ~errors /\ ~info
                        /\ starting \in {"spawn", "failed"}

PortIsLast ==
  /\ "port" \in pipes /\ server # "none" => starting \in {"log", "wait", "abandoned"}
  /\ starting \in {"found", "started"} => "port" \notin pipes /\ answer = "listening"
  /\ starting \in {"found", "started"} /\ info => "info" \notin pipes

NoOneReads ==
  /\ starting \in {"log", "abandoned"} => answer = "none" /\ ~info /\ ~errors /\ reading
  /\ starting = "failed" => server \in {"none", "exited"}
  /\ starting = "close" => answer = "takenNetwork" \/ (answer = "none" /\ ~reading)
  /\ starting = "failed" /\ binary = "mongos" /\ answer # "takenNetwork" =>
       ~errors /\ (~reading \/ stdout = <<>>)

StartInv == StartTypes /\ VersionComesFirst /\ NotBegun /\ PortIsLast /\ NoOneReads /\ LogIsReadOn

LEMMA StartInvInit == StartInit => StartInv
<1> SUFFICES ASSUME StartInit PROVE StartInv
    OBVIOUS
<1>1. stdout \in Seq(LogLines) /\ Len(stdout) = 0
      BY DEF StartInit
<1>2. StartTypes
      BY <1>1 DEF StartInit, StartTypes
<1>3. VersionComesFirst
  <2>1. ~info /\ ~versionTold /\ answer = "none"
        BY DEF StartInit
  <2> QED
      BY <1>1, <2>1 DEF VersionComesFirst
<1> QED
    BY <1>2, <1>3 DEF StartInit, StartInv, NotBegun, PortIsLast, NoOneReads, LogIsReadOn

(* What a line at the end of the output does.                                *)
LEMMA WritesKeeps ==
  ASSUME StartInv, NEW line \in LogLines, Writes(line), server \in {"starting", "listening"},
         server' \in {"starting", "listening", "exited"},
         versionTold' \in BOOLEAN, line = "version" => binary = "mongod",
         versionTold' => versionTold \/ line = "version" \/ binary = "mongos",
         line = "listening" => versionTold
  PROVE  StartInv'
<1>1. /\ stdout' = Append(stdout, line) /\ stdout' \in Seq(LogLines)
      /\ Len(stdout') = Len(stdout) + 1 /\ stdout'[Len(stdout) + 1] = line
      /\ \A i \in 1..Len(stdout) : stdout'[i] = stdout[i]
      /\ Len(stdout) \in Nat
      /\ UNCHANGED <<binary, starting, port, starts, taken, reading, paused, pipes, info,
                     answer, errors>>
      BY DEF Writes, reader, StartInv, StartTypes
<1>2. server # "none" /\ server' # "none" /\ starting \notin {"spawn", "failed"}
      BY DEF StartInv, NotBegun, NoOneReads
<1>3. StartTypes'
      BY <1>1 DEF StartInv, StartTypes
<1>4. VersionComesFirst'
  <2>1. CASE binary = "mongos"
    <3>1. ASSUME NEW i \in 1..Len(stdout') PROVE stdout'[i] # "version"
      <4>1. i \in 1..Len(stdout) \/ i = Len(stdout) + 1
            BY <1>1
      <4> QED
          BY <1>1, <2>1, <4>1 DEF StartInv, VersionComesFirst
    <3> QED
        BY <1>1, <2>1, <3>1 DEF StartInv, VersionComesFirst
  <2>2. CASE binary = "mongod"
    <3>1. VersionComesFirst
          BY DEF StartInv
    <3>2. versionTold' => info \/ \E i \in 1..Len(stdout') : stdout'[i] = "version"
      <4>1. CASE line = "version"
        <5>1. Len(stdout) + 1 \in 1..Len(stdout')
              BY <1>1
        <5> QED
            BY <1>1, <4>1, <5>1
      <4>2. CASE line # "version"
        <5>1. \A i \in 1..Len(stdout) : i \in 1..Len(stdout')
              BY <1>1
        <5> QED
            BY <1>1, <2>2, <3>1, <4>2, <5>1 DEF VersionComesFirst
      <4> QED
          BY <4>1, <4>2
    <3>3. ASSUME NEW i \in 1..Len(stdout'), stdout'[i] = "listening"
          PROVE  info \/ \E j \in 1..(i - 1) : stdout'[j] = "version"
      <4>1. CASE i \in 1..Len(stdout)
        <5>1. stdout[i] = "listening" /\ \A j \in 1..(i - 1) : j \in 1..Len(stdout)
              BY <1>1, <3>3, <4>1
        <5> QED
            BY <1>1, <2>2, <3>1, <4>1, <5>1 DEF VersionComesFirst
      <4>2. CASE i = Len(stdout) + 1
        <5>1. versionTold /\ i - 1 = Len(stdout)
              BY <1>1, <3>3, <4>2
        <5> QED
            BY <1>1, <2>2, <3>1, <5>1 DEF VersionComesFirst
      <4> QED
          BY <1>1, <3>3, <4>1, <4>2
    <3> QED
        BY <1>1, <2>2, <3>1, <3>2, <3>3 DEF VersionComesFirst
  <2> QED
      BY <2>1, <2>2 DEF StartInv, StartTypes
<1>5. NotBegun' /\ PortIsLast' /\ NoOneReads' /\ LogIsReadOn'
      BY <1>1, <1>2 DEF StartInv, NotBegun, PortIsLast, NoOneReads, LogIsReadOn
<1> QED
    BY <1>3, <1>4, <1>5 DEF StartInv

LEMMA ServerKeeps ==
  ASSUME StartInv,
         \/ SpawnServer \/ SpawnErrors \/ LogOpens \/ LogCannotOpen \/ WritesVersion
         \/ Binds \/ WritesLine \/ Dies \/ OthersBind
  PROVE  StartInv'
<1>1. CASE WritesVersion
  <2>1. IF binary = "mongod" THEN Writes("version") ELSE Writes("line")
        BY <1>1 DEF WritesVersion, StartInv, StartTypes
  <2>2. server = "starting" /\ server' = server /\ versionTold' = TRUE
        BY <1>1 DEF WritesVersion
  <2>3. CASE binary = "mongod"
        BY <2>1, <2>2, <2>3, WritesKeeps DEF LogLines
  <2>4. CASE binary = "mongos"
        BY <2>1, <2>2, <2>4, WritesKeeps DEF LogLines
  <2> QED
      BY <2>3, <2>4 DEF StartInv, StartTypes
<1>2. CASE Binds
  <2>1. /\ server = "starting" /\ versionTold /\ versionTold' = versionTold
        /\ \/ server' = "listening" /\ Writes("listening")
           \/ server' = "exited" /\ Writes("taken")
           \/ server' = "exited" /\ Writes("takenNetwork")
        BY <1>2 DEF Binds
  <2> QED
      BY <2>1, WritesKeeps DEF LogLines
<1>3. CASE WritesLine
  <2>1. /\ server \in {"starting", "listening"} /\ UNCHANGED <<server, versionTold>>
        /\ Writes("line") \/ Writes("garbage")
        BY <1>3 DEF WritesLine
  <2>2. versionTold' \in BOOLEAN
        BY <2>1 DEF StartInv, StartTypes
  <2> QED
      BY <2>1, <2>2, WritesKeeps DEF LogLines
<1>4. CASE SpawnServer \/ SpawnErrors \/ LogOpens \/ LogCannotOpen \/ Dies \/ OthersBind
  <2>1. UNCHANGED <<binary, stdout, versionTold, reading, paused, pipes, info, answer, errors>>
        BY <1>4 DEF SpawnServer, SpawnErrors, LogOpens, LogCannotOpen, Dies, OthersBind,
                    reader, attempt
  <2>2. VersionComesFirst'
        BY <2>1 DEF StartInv, VersionComesFirst
  <2>3. \/ /\ starting = "spawn" /\ server = "none"
           /\ starting' \in {"log", "wait"} /\ server' = "starting"
        \/ starting = "log" /\ starting' \in {"wait", "abandoned"} /\ server' = server
        \/ starting = "spawn" /\ server = "none" /\ starting' = "failed" /\ server' = server
        \/ server \notin {"none", "exited"} /\ server' = "exited" /\ starting' = starting
        \/ UNCHANGED <<starting, server>>
        BY <1>4 DEF SpawnServer, SpawnErrors, LogOpens, LogCannotOpen, Dies, OthersBind,
                    attempt, StartInv, NotBegun
  <2>4. StartTypes'
        BY <2>1, <2>3 DEF StartInv, StartTypes
  <2>5. NotBegun' /\ PortIsLast'
        BY <2>1, <2>3 DEF StartInv, NotBegun, PortIsLast
  <2>6. NoOneReads' /\ LogIsReadOn'
        BY <2>1, <2>3 DEF StartInv, NotBegun, NoOneReads, LogIsReadOn
  <2> QED
      BY <2>2, <2>4, <2>5, <2>6 DEF StartInv
<1> QED
    BY <1>1, <1>2, <1>3, <1>4

LEMMA ReadLineKeeps == ASSUME StartInv, ReadLine PROVE StartInv'
<1> DEFINE line == Head(stdout)
<1>1. /\ Reads /\ stdout # <<>> /\ stdout' = Tail(stdout)
      /\ reading' = (line # "garbage")
      /\ errors' = (errors \/ line \in {"taken", "takenNetwork"})
      /\ info' = (info \/ line = "version")
      /\ answer' = IF "port" \in pipes /\ answer = "none" /\ line \in {"listening", "takenNetwork"}
                   THEN line ELSE answer
      /\ UNCHANGED <<binary, starting, server, versionTold, paused, pipes>>
      BY DEF ReadLine
<1>2. /\ Len(stdout) \in Nat /\ Len(stdout) > 0 /\ line = stdout[1] /\ line \in LogLines
      /\ stdout' \in Seq(LogLines) /\ Len(stdout') = Len(stdout) - 1
      /\ \A i \in 1..Len(stdout') : i + 1 \in 1..Len(stdout) /\ stdout'[i] = stdout[i + 1]
      BY <1>1, HeadTailProperties, EmptySeq, LenProperties DEF StartInv, StartTypes
<1> HIDE DEF line
<1>3. StartTypes'
  <2>1. /\ errors' \in BOOLEAN /\ info' \in BOOLEAN /\ reading' \in BOOLEAN
        BY <1>1
  <2>2. answer' \in {"none", "listening", "takenNetwork"}
        BY <1>1 DEF StartInv, StartTypes
  <2> QED
      BY <1>1, <1>2, <2>1, <2>2 DEF StartInv, StartTypes
<1>4. VersionComesFirst'
  <2>1. CASE binary = "mongos"
    <3>1. ~info /\ (\A i \in 1..Len(stdout) : stdout[i] # "version") /\ 1 \in 1..Len(stdout)
          BY <1>2, <2>1 DEF StartInv, VersionComesFirst
    <3>2. ~info' /\ \A i \in 1..Len(stdout') : stdout'[i] # "version"
          BY <1>1, <1>2, <3>1
    <3> QED
        BY <1>1, <2>1, <3>2 DEF VersionComesFirst
  <2>2. CASE binary = "mongod"
    <3>1. /\ versionTold => info \/ \E i \in 1..Len(stdout) : stdout[i] = "version"
          /\ \A i \in 1..Len(stdout) : stdout[i] = "listening" =>
               info \/ \E j \in 1..(i - 1) : stdout[j] = "version"
          /\ answer = "listening" => info
          BY <2>2 DEF StartInv, VersionComesFirst
    <3>2. CASE info'
          BY <1>1, <2>2, <3>2 DEF VersionComesFirst
    <3>3. CASE ~info'
      <4>1. ~info /\ stdout[1] # "version"
            BY <1>1, <1>2, <3>3
      <4>2. ASSUME NEW i \in 1..Len(stdout), stdout[i] = "version"
            PROVE  i - 1 \in 1..Len(stdout') /\ stdout'[i - 1] = "version"
            BY <1>2, <4>1, <4>2
      <4>3. versionTold' => \E i \in 1..Len(stdout') : stdout'[i] = "version"
            BY <1>1, <3>1, <4>1, <4>2
      <4>4. ASSUME NEW i \in 1..Len(stdout'), stdout'[i] = "listening"
            PROVE  \E j \in 1..(i - 1) : stdout'[j] = "version"
        <5>1. i + 1 \in 1..Len(stdout) /\ stdout[i + 1] = "listening"
              BY <1>2, <4>4
        <5>2. PICK j \in 1..((i + 1) - 1) : stdout[j] = "version"
              BY <3>1, <4>1, <5>1
        <5>3. j \in 1..Len(stdout) /\ j # 1
              BY <1>2, <4>1, <5>1, <5>2
        <5>4. j - 1 \in 1..(i - 1) /\ stdout'[j - 1] = "version"
              BY <1>2, <4>2, <5>2, <5>3
        <5> QED
            BY <5>4
      <4>5. answer' # "listening"
        <5>1. answer # "listening"
              BY <3>1, <4>1
        <5>2. stdout[1] = "listening" => FALSE
          <6> SUFFICES ASSUME stdout[1] = "listening" PROVE FALSE
              OBVIOUS
          <6>1. 1 \in 1..Len(stdout)
                BY <1>2
          <6>2. \E j \in 1..(1 - 1) : stdout[j] = "version"
                BY <3>1, <4>1, <6>1
          <6> QED
              BY <6>2
        <5> QED
            BY <1>1, <1>2, <5>1, <5>2
      <4> QED
          BY <1>1, <2>2, <4>3, <4>4, <4>5 DEF VersionComesFirst
    <3> QED
        BY <3>2, <3>3
  <2> QED
      BY <2>1, <2>2 DEF StartInv, StartTypes
<1>5. NotBegun'
      BY <1>1 DEF StartInv, NotBegun
<1>6. PortIsLast'
  <2>1. starting \in {"found", "started"} => answer' = "listening"
        BY <1>1 DEF StartInv, PortIsLast
  <2>2. starting \in {"found", "started"} /\ info' => "info" \notin pipes
    <3> SUFFICES ASSUME starting \in {"found", "started"}, info' PROVE "info" \notin pipes
        OBVIOUS
    <3>1. CASE binary = "mongos"
          BY <1>1, <1>4, <3>1 DEF VersionComesFirst
    <3>2. CASE binary = "mongod"
          BY <3>2 DEF StartInv, VersionComesFirst, PortIsLast
    <3> QED
        BY <3>1, <3>2 DEF StartInv, StartTypes
  <2> QED
      BY <1>1, <2>1, <2>2 DEF StartInv, PortIsLast
<1>7. NoOneReads'
  <2>1. starting = "failed" /\ binary = "mongos" => answer = "takenNetwork"
        BY <1>1 DEF StartInv, NoOneReads, Reads
  <2>2. starting = "close" => answer = "takenNetwork"
        BY <1>1 DEF StartInv, NoOneReads, Reads
  <2>3. starting' = starting /\ starting \notin {"log", "abandoned"} /\ server' = server
        BY <1>1 DEF Reads
  <2>4. starting = "failed" => server \in {"none", "exited"}
        BY DEF StartInv, NoOneReads
  <2>5. binary' = binary /\ (answer = "takenNetwork" => answer' = "takenNetwork")
        BY <1>1
  <2> QED
      BY <2>1, <2>2, <2>3, <2>4, <2>5 DEF NoOneReads
<1>8. LogIsReadOn'
      BY <1>1 DEF StartInv, LogIsReadOn, Reads
<1> QED
    BY <1>3, <1>4, <1>5, <1>6, <1>7, <1>8 DEF StartInv

LEMMA StreamKeeps ==
  ASSUME StartInv, StreamEnds \/ InfoFilterEnds \/ PortFilterEnds \/ PortFound \/ Close
  PROVE  StartInv'
<1>1. CASE StreamEnds
  <2>1. /\ server = "exited" /\ reading' = FALSE
        /\ starting \notin {"log", "abandoned"}
        /\ UNCHANGED <<binary, starting, server, stdout, versionTold, paused, pipes, info,
                       answer, errors>>
        BY <1>1 DEF StreamEnds, Reads, attempt
  <2>2. NoOneReads'
        BY <2>1 DEF StartInv, NoOneReads
  <2>3. VersionComesFirst' /\ PortIsLast'
        BY <2>1 DEF StartInv, VersionComesFirst, PortIsLast
  <2> QED
      BY <2>1, <2>2, <2>3 DEF StartInv, StartTypes, NotBegun, LogIsReadOn
<1>2. CASE InfoFilterEnds
  <2>1. /\ "info" \in pipes /\ pipes' = pipes \ {"info"}
        /\ paused' \in BOOLEAN
        /\ UNCHANGED <<binary, starting, server, stdout, versionTold, reading, info, answer,
                       errors>>
        BY <1>2 DEF InfoFilterEnds, Unpipe, attempt
  <2>2. LogIsReadOn'
    <3> SUFFICES ASSUME starting = "started", reading PROVE FALSE
        BY <2>1 DEF LogIsReadOn
    <3>1. info /\ "info" \in pipes
          BY <1>2 DEF InfoFilterEnds, Unpipe
    <3> QED
        BY <3>1 DEF StartInv, PortIsLast
  <2>3. StartTypes' /\ VersionComesFirst' /\ NotBegun' /\ NoOneReads'
        BY <2>1 DEF StartInv, StartTypes, VersionComesFirst, NotBegun, NoOneReads
  <2>4. PortIsLast'
        BY <2>1 DEF StartInv, PortIsLast
  <2> QED
      BY <2>2, <2>3, <2>4 DEF StartInv
<1>3. CASE PortFilterEnds
  <2>1. /\ answer # "none" \/ ~reading
        /\ ~(info /\ "info" \in pipes)
        /\ "port" \in pipes /\ pipes' = pipes \ {"port"} /\ paused' \in BOOLEAN
        /\ starting' = IF answer = "listening" THEN "found" ELSE "close"
        /\ UNCHANGED <<binary, server, stdout, versionTold, reading, info, answer, errors>>
        BY <1>3 DEF PortFilterEnds, Unpipe, attempt
  <2>2. server # "none"
        BY <2>1 DEF StartInv, NotBegun
  <2>3. StartTypes' /\ VersionComesFirst'
        BY <2>1 DEF StartInv, StartTypes, VersionComesFirst
  <2>4. NotBegun' /\ PortIsLast' /\ NoOneReads' /\ LogIsReadOn'
        BY <2>1, <2>2 DEF StartInv, StartTypes, NotBegun, PortIsLast, NoOneReads, LogIsReadOn
  <2> QED
      BY <2>3, <2>4 DEF StartInv
<1>4. CASE PortFound
  <2>1. /\ starting = "found" /\ starting' = "started" /\ paused' = FALSE
        /\ UNCHANGED <<binary, server, stdout, versionTold, reading, pipes, info, answer, errors>>
        BY <1>4 DEF PortFound, Resumed, attempt
  <2>2. StartTypes' /\ VersionComesFirst'
        BY <2>1 DEF StartInv, StartTypes, VersionComesFirst
  <2>3. NotBegun' /\ PortIsLast' /\ NoOneReads' /\ LogIsReadOn'
        BY <2>1 DEF StartInv, NotBegun, PortIsLast, NoOneReads, LogIsReadOn
  <2> QED
      BY <2>2, <2>3 DEF StartInv
<1>5. CASE Close
  <2>1. starting = "close" /\ binary' = binary
        BY <1>5 DEF Close
  <2>2. CASE MayRetry
    <3>1. /\ starting' = "spawn" /\ stdout' = <<>> /\ versionTold' = FALSE /\ server' = "none"
          /\ reading' = TRUE /\ paused' = FALSE /\ pipes' = {"info", "port"}
          /\ info' = FALSE /\ answer' = "none" /\ errors' = FALSE
          BY <1>5, <2>2 DEF Close
    <3>2. stdout' \in Seq(LogLines) /\ Len(stdout') = 0
          BY <3>1
    <3>3. StartTypes'
          BY <2>1, <3>1, <3>2 DEF StartInv, StartTypes
    <3>4. VersionComesFirst'
      <4>1. ~info' /\ ~versionTold' /\ answer' = "none"
            BY <3>1
      <4> QED
          BY <3>2, <4>1 DEF VersionComesFirst
    <3> QED
        BY <3>1, <3>3, <3>4 DEF StartInv, NotBegun, PortIsLast, NoOneReads, LogIsReadOn
  <2>3. CASE ~MayRetry
    <3>1. /\ starting' = "failed" /\ server' = "exited"
          /\ UNCHANGED <<stdout, versionTold, reading, paused, pipes, info, answer, errors>>
          BY <1>5, <2>3 DEF Close, reader
    <3>2. StartTypes' /\ VersionComesFirst'
          BY <2>1, <3>1 DEF StartInv, StartTypes, VersionComesFirst
    <3>3. "port" \notin pipes
          BY <2>1 DEF StartInv, NotBegun, PortIsLast
    <3>4. NotBegun' /\ PortIsLast' /\ LogIsReadOn'
          BY <3>1, <3>3 DEF NotBegun, PortIsLast, LogIsReadOn
    <3>5. NoOneReads'
          BY <2>1, <2>3, <3>1 DEF StartInv, StartTypes, NoOneReads, MayRetry
    <3> QED
        BY <3>2, <3>4, <3>5 DEF StartInv
  <2> QED
      BY <2>2, <2>3
<1> QED
    BY <1>1, <1>2, <1>3, <1>4, <1>5

LEMMA StartInvHolds == StartSpec => []StartInv
<1>1. StartInv /\ [StartNext]_startVars => StartInv'
  <2> SUFFICES ASSUME StartInv, [StartNext]_startVars PROVE StartInv'
      OBVIOUS
  <2>1. CASE UNCHANGED startVars
        BY <2>1 DEF startVars, attempt, reader, StartInv, StartTypes, VersionComesFirst,
                    NotBegun, PortIsLast, NoOneReads, LogIsReadOn
  <2> QED
      BY <2>1, ServerKeeps, ReadLineKeeps, StreamKeeps DEF StartNext
<1> QED
    BY <1>1, StartInvInit, PTL DEF StartSpec

(* The log of a server that has started is read on, and a start that fails  *)
(* leaves no server, for any ports, starts and lines (mongoserver.ts).      *)
THEOREM Started == StartSpec => []StartIsSound
<1>1. StartInv => StartIsSound
      BY DEF StartInv, StartIsSound, FailureIsClean, NotBegun, NoOneReads
<1> QED
    BY <1>1, StartInvHolds, PTL

-----------------------------------------------------------------------------
(* LogChecker.  What the checker ignores are connections of the tests        *)
(* themselves, a function is registered for the subscriptions that are       *)
(* active, and entries come through one forwarder.                           *)

Contexts == LogServers \X Conns

CheckerTypes ==
  /\ client \in [Contexts -> {"none", "internal", "user"}]
  /\ forwarders \in Nat /\ written \in 0..MaxWarnings
  /\ filters \in [Filters -> Nat]
  /\ collected \in [Warnings -> Nat] /\ reported \in [Warnings -> Nat]
  /\ due \in [Warnings -> {"no", "yes", "either"}]
  /\ subscribed \in [Subscriptions -> {"never", "active", "over"}]
  /\ deserted \in BOOLEAN /\ twice \in BOOLEAN

ForwardersMatch ==
  /\ listeners # {} => forwarders >= 1
  /\ ~deserted => forwarders <= 1
  /\ ~deserted /\ listeners = {} => forwarders = 0

InternalIsIgnored ==
  /\ ignoreCtx \subseteq {x \in Contexts : client[x] = "internal"}
  /\ \A s \in LogServers, c \in Conns :
       Received(s) /\ client[<<s, c>>] = "internal" /\ <<s, c>> \notin unseen =>
         <<s, c>> \in ignoreCtx

ActiveFor(f) == {s \in Subscriptions : subscribed[s] = "active" /\ FilterOf[s] = f}

FilterMatches(f) ==
  /\ IsFiniteSet(ActiveFor(f)) /\ filters[f] <= Cardinality(ActiveFor(f))
  /\ ~twice => filters[f] = Cardinality(ActiveFor(f))

WarningIsRight(w) ==
  /\ w > written => Seen(w) = 0 /\ due[w] = "no"
  /\ due[w] = "yes" => Seen(w) > 0
  /\ due[w] = "no" => Seen(w) = 0
  /\ ~deserted => Seen(w) <= 1

CheckerInv ==
  /\ CheckerTypes /\ ForwardersMatch /\ InternalIsIgnored
  /\ \A f \in Filters : FilterMatches(f)
  /\ \A w \in Warnings : WarningIsRight(w)

LEMMA NothingActive ==
  ASSUME NEW f, subscribed = [s \in Subscriptions |-> "never"],
         filters[f] = 0
  PROVE  FilterMatches(f)
<1>1. ActiveFor(f) = {}
      BY DEF ActiveFor
<1> QED
    BY <1>1, FS_EmptySet DEF FilterMatches

LEMMA CheckerInvInit == CheckerInit => CheckerInv
<1> SUFFICES ASSUME CheckerInit PROVE CheckerInv
    OBVIOUS
<1>1. CheckerTypes
  <2>1. client = [x \in Contexts |-> "none"]
        BY DEF CheckerInit, Contexts
  <2>2. client \in [Contexts -> {"none", "internal", "user"}]
        BY <2>1
  <2>3. written \in 0..MaxWarnings
        BY CheckerAssumption DEF CheckerInit
  <2> QED
      BY <2>2, <2>3 DEF CheckerInit, CheckerTypes, NoneKept
<1>2. \A f \in Filters : FilterMatches(f)
      BY NothingActive DEF CheckerInit
<1>3. ForwardersMatch /\ InternalIsIgnored
      BY DEF CheckerInit, ForwardersMatch, InternalIsIgnored, Contexts, Received
<1>4. \A w \in Warnings : WarningIsRight(w)
      BY DEF CheckerInit, WarningIsRight, NoneKept, Seen
<1> QED
    BY <1>1, <1>2, <1>3, <1>4 DEF CheckerInv

LEMMA FiltersStay ==
  ASSUME CheckerInv, UNCHANGED <<filters, subscribed, twice>>
  PROVE  \A f \in Filters : FilterMatches(f)'
  BY DEF CheckerInv, FilterMatches, ActiveFor

LEMMA WarningsStay ==
  ASSUME CheckerInv, UNCHANGED <<kept, due, written>>, deserted => deserted'
  PROVE  \A w \in Warnings : WarningIsRight(w)'
  BY DEF CheckerInv, WarningIsRight, Seen, kept

LEMMA SubscribesMatches ==
  ASSUME CheckerInv, NEW who, Subscribes(who)
  PROVE  ForwardersMatch' /\ forwarders' \in Nat
  BY DEF CheckerInv, CheckerTypes, ForwardersMatch, Subscribes, Forwarders

LEMMA ListenersKeep ==
  ASSUME CheckerInv,
         NewChecker \/ SomebodyElseListens \/ \E who \in {"checker", "test"} : StopsListening(who)
  PROVE  CheckerInv'
<1>1. CASE NewChecker
  <2>1. /\ Subscribes("checker") /\ ignoreCtx' = {} /\ filters' = [f \in Filters |-> 0]
        /\ collected' = NoneKept /\ reported' = NoneKept
        /\ subscribed' = [s \in Subscriptions |-> "never"]
        /\ twice' = FALSE /\ due' = [w \in Warnings |-> "no"]
        /\ unseen' = {x \in LogServers \X Conns : client[x] # "none"}
        /\ UNCHANGED <<client, unreadable, deserted, written>>
        BY <1>1 DEF NewChecker, Subscribes
  <2>2. CheckerTypes'
        BY <2>1, SubscribesMatches DEF CheckerInv, CheckerTypes, NoneKept
  <2>3. ASSUME NEW f \in Filters PROVE FilterMatches(f)'
    <3>1. ActiveFor(f)' = {} /\ filters'[f] = 0
          BY <2>1 DEF ActiveFor
    <3> QED
        BY <3>1, FS_EmptySet DEF FilterMatches
  <2>4. InternalIsIgnored'
    <3>1. ASSUME NEW s \in LogServers, NEW c \in Conns, client'[<<s, c>>] = "internal"
          PROVE  <<s, c>> \in unseen'
          BY <2>1, <3>1
    <3> QED
        BY <2>1, <3>1 DEF InternalIsIgnored
  <2>5. \A w \in Warnings : WarningIsRight(w)'
        BY <2>1 DEF WarningIsRight, NoneKept, Seen
  <2> QED
      BY <2>1, <2>2, <2>3, <2>4, <2>5, SubscribesMatches DEF CheckerInv
<1>2. CASE SomebodyElseListens
  <2>1. /\ Subscribes("test") /\ listeners' = listeners \cup {"test"}
        /\ UNCHANGED <<client, unreadable, deserted, written, ignoreCtx, filters, kept,
                       subscribed, twice, unseen, due>>
        BY <1>2 DEF SomebodyElseListens, Subscribes, checkerGhosts
  <2>2. CheckerTypes'
        BY <2>1, SubscribesMatches DEF CheckerInv, CheckerTypes, kept
  <2>3. InternalIsIgnored'
        BY <2>1 DEF CheckerInv, InternalIsIgnored, Received
  <2> QED
      BY <2>1, <2>2, <2>3, FiltersStay, WarningsStay, SubscribesMatches DEF CheckerInv
<1>3. ASSUME NEW who \in {"checker", "test"}, StopsListening(who) PROVE CheckerInv'
  <2>1. /\ listeners' = listeners \ {who} /\ deserted' = (deserted \/ listeners = {who})
        /\ who \in listeners
        /\ UNCHANGED <<client, unreadable, forwarders, ignoreCtx, filters, kept, written,
                       subscribed, twice, unseen, due>>
        BY <1>3 DEF StopsListening, checkerGhosts
  <2>2. CheckerTypes'
        BY <2>1 DEF CheckerInv, CheckerTypes, kept
  <2>3. InternalIsIgnored'
        BY <2>1 DEF CheckerInv, InternalIsIgnored, Received
  <2>4. ForwardersMatch'
        BY <2>1 DEF CheckerInv, ForwardersMatch
  <2> QED
      BY <2>1, <2>2, <2>3, <2>4, FiltersStay, WarningsStay DEF CheckerInv
<1> QED
    BY <1>1, <1>2, <1>3

LEMMA ServersKeep ==
  ASSUME CheckerInv,
         \/ \E s \in LogServers : WritesSomethingElse(s)
         \/ \E s \in LogServers, c \in Conns, who \in {"internal", "user"} : Connects(s, c, who)
         \/ Checkpoint
  PROVE  CheckerInv'
<1>1. ASSUME NEW s \in LogServers, WritesSomethingElse(s) PROVE CheckerInv'
  <2>1. /\ unreadable' = unreadable \cup {s}
        /\ UNCHANGED <<client, forwarders, listeners, deserted, ignoreCtx, filters, kept,
                       written, subscribed, twice, unseen, due>>
        BY <1>1 DEF WritesSomethingElse, checkerGhosts
  <2>2. CheckerTypes' /\ ForwardersMatch'
        BY <2>1 DEF CheckerInv, CheckerTypes, ForwardersMatch, kept
  <2>3. InternalIsIgnored'
        BY <2>1 DEF CheckerInv, InternalIsIgnored, Received
  <2> QED
      BY <2>1, <2>2, <2>3, FiltersStay, WarningsStay DEF CheckerInv
<1>2. ASSUME NEW s \in LogServers, NEW c \in Conns, NEW who \in {"internal", "user"},
             Connects(s, c, who)
      PROVE  CheckerInv'
  <2>1. /\ client[<<s, c>>] = "none" /\ client' = [client EXCEPT ![<<s, c>>] = who]
        /\ ignoreCtx' = IF Received(s) /\ who = "internal" THEN ignoreCtx \cup {<<s, c>>}
                        ELSE ignoreCtx
        /\ UNCHANGED <<unreadable, forwarders, listeners, deserted, filters, kept, written,
                       subscribed, twice, unseen, due>>
    <3>1. UNCHANGED <<unreadable, forwarders, listeners, deserted, filters, kept, written,
                      subscribed, twice, unseen, due>>
          BY <1>2 DEF Connects, checkerGhosts
    <3> QED
        BY <1>2, <3>1, Zenon DEF Connects, Context
  <2>2. <<s, c>> \in Contexts /\ client \in [Contexts -> {"none", "internal", "user"}]
        BY DEF Contexts, CheckerInv, CheckerTypes
  <2>3. /\ client' \in [Contexts -> {"none", "internal", "user"}] /\ client'[<<s, c>>] = who
        /\ \A x \in Contexts \ {<<s, c>>} : client'[x] = client[x]
        BY <2>1, <2>2
  <2>4. CheckerTypes' /\ ForwardersMatch'
        BY <2>1, <2>3 DEF CheckerInv, CheckerTypes, ForwardersMatch, kept
  <2>5. <<s, c>> \notin ignoreCtx
        BY <2>1 DEF CheckerInv, InternalIsIgnored
  <2>6. ignoreCtx' \subseteq {x \in Contexts : client'[x] = "internal"}
        BY <2>1, <2>2, <2>3, <2>5 DEF CheckerInv, InternalIsIgnored
  <2>7. ASSUME NEW t \in LogServers, NEW d \in Conns, Received(t), client'[<<t, d>>] = "internal",
               <<t, d>> \notin unseen
        PROVE  <<t, d>> \in ignoreCtx'
    <3>1. CASE <<t, d>> = <<s, c>>
          BY <2>1, <2>3, <2>7, <3>1
    <3>2. CASE <<t, d>> # <<s, c>>
      <4>1. <<t, d>> \in Contexts \ {<<s, c>>}
            BY <3>2 DEF Contexts
      <4>2. client[<<t, d>>] = "internal"
            BY <2>3, <2>7, <4>1
      <4> QED
          BY <2>1, <2>7, <4>2 DEF CheckerInv, InternalIsIgnored
    <3> QED
        BY <3>1, <3>2
  <2>8. InternalIsIgnored'
        BY <2>1, <2>6, <2>7 DEF InternalIsIgnored, Received
  <2> QED
      BY <2>1, <2>4, <2>8, FiltersStay, WarningsStay DEF CheckerInv
<1>3. CASE Checkpoint
  <2>1. /\ reported' = [w \in Warnings |-> reported[w] + collected[w]]
        /\ collected' = [w \in Warnings |-> 0]
        /\ UNCHANGED <<client, unreadable, forwarders, listeners, deserted, ignoreCtx,
                       filters, written, subscribed, twice, unseen, due>>
        BY <1>3 DEF Checkpoint, NoneKept, checkerGhosts
  <2>2. CheckerTypes' /\ ForwardersMatch'
        BY <2>1 DEF CheckerInv, CheckerTypes, ForwardersMatch
  <2>3. ASSUME NEW w \in Warnings PROVE WarningIsRight(w)'
    <3>1. Seen(w)' = Seen(w)
          BY <2>1 DEF CheckerInv, CheckerTypes, Seen
    <3> QED
        BY <2>1, <3>1 DEF CheckerInv, WarningIsRight
  <2>4. InternalIsIgnored'
        BY <2>1 DEF CheckerInv, InternalIsIgnored, Received
  <2> QED
      BY <2>1, <2>2, <2>3, <2>4, FiltersStay DEF CheckerInv
<1> QED
    BY <1>1, <1>2, <1>3

(* An entry is filtered only if somebody expects it, and if somebody does,   *)
(* unless a subscription was ended twice.                                    *)
LEMMA FilteredIsExpected ==
  ASSUME CheckerInv, NEW id
  PROVE  /\ Filtered(id) => Expected(id)
         /\ Expected(id) /\ ~twice => Filtered(id)
<1>1. ASSUME Filtered(id) PROVE Expected(id)
  <2>1. PICK f \in Filters : filters[f] > 0 /\ id \in AllowedBy[f]
        BY <1>1 DEF Filtered
  <2>2. ActiveFor(f) # {}
        BY <2>1, FS_EmptySet DEF CheckerInv, CheckerTypes, FilterMatches
  <2> QED
      BY <2>1, <2>2 DEF ActiveFor, Expected
<1>2. ASSUME Expected(id), ~twice PROVE Filtered(id)
  <2>1. PICK s \in Subscriptions : subscribed[s] = "active" /\ id \in AllowedBy[FilterOf[s]]
        BY <1>2 DEF Expected
  <2>2. FilterOf[s] \in Filters /\ s \in ActiveFor(FilterOf[s])
        BY <2>1 DEF Filters, ActiveFor
  <2>3. IsFiniteSet(ActiveFor(FilterOf[s])) /\ filters[FilterOf[s]] = Cardinality(ActiveFor(FilterOf[s]))
        BY <1>2, <2>2 DEF CheckerInv, FilterMatches
  <2>4. Cardinality(ActiveFor(FilterOf[s])) # 0 /\ Cardinality(ActiveFor(FilterOf[s])) \in Nat
        BY <2>2, <2>3, FS_EmptySet, FS_CardinalityType
  <2> QED
      BY <2>1, <2>2, <2>3, <2>4 DEF Filtered
<1> QED
    BY <1>1, <1>2

LEMMA WarnsKeeps ==
  ASSUME CheckerInv, NEW s \in LogServers, NEW c \in Conns, NEW id \in WarningIds,
         Warns(s, c, id)
  PROVE  CheckerInv'
<1>0. PICK n : n = written + 1
      OBVIOUS
<1> DEFINE keeps == Received(s) /\ <<s, c>> \notin ignoreCtx /\ ~Filtered(id)
<1>1. /\ n \in Warnings /\ written' = n /\ written \in Nat
      /\ client[<<s, c>>] \in {"internal", "user"}
      /\ collected' = IF keeps THEN [collected EXCEPT ![n] = forwarders] ELSE collected
      /\ due' = [due EXCEPT ![n] = Due(s, c, id)]
      /\ UNCHANGED <<client, unreadable, forwarders, listeners, deserted, ignoreCtx, filters,
                     reported, subscribed, twice, unseen>>
  <2>1. written \in 0..MaxWarnings /\ written < MaxWarnings /\ MaxWarnings \in Nat
        BY CheckerAssumption DEF Warns, CheckerInv, CheckerTypes
  <2>2. client[<<s, c>>] \in {"internal", "user"}
    <3>1. <<s, c>> \in Contexts
          BY DEF Contexts
    <3> QED
        BY <3>1 DEF Warns, CheckerInv, CheckerTypes
  <2> QED
      BY <1>0, <2>1, <2>2 DEF Warns, Warnings
<1> HIDE DEF keeps
<1>2. /\ collected'[n] = IF keeps THEN forwarders ELSE collected[n]
      /\ due'[n] = Due(s, c, id)
      /\ \A w \in Warnings \ {n} : collected'[w] = collected[w] /\ due'[w] = due[w]
      /\ collected' \in [Warnings -> Nat] /\ due' \in [Warnings -> {"no", "yes", "either"}]
  <2>1. Due(s, c, id) \in {"no", "yes", "either"}
        BY DEF Due
  <2> QED
      BY <1>1, <2>1 DEF CheckerInv, CheckerTypes
<1>3. CheckerTypes' /\ ForwardersMatch'
  <2>1. written' \in 0..MaxWarnings
        BY <1>0, <1>1, CheckerAssumption DEF Warnings
  <2> QED
      BY <1>1, <1>2, <2>1 DEF CheckerInv, CheckerTypes, ForwardersMatch
<1>4. InternalIsIgnored'
      BY <1>1 DEF CheckerInv, InternalIsIgnored, Received
<1>5. ASSUME NEW w \in Warnings \ {n} PROVE WarningIsRight(w)'
  <2>1. Seen(w)' = Seen(w) /\ due'[w] = due[w] /\ (w > n => w > written)
        BY <1>0, <1>1, <1>2 DEF Seen, Warnings
  <2> QED
      BY <1>1, <2>1 DEF CheckerInv, WarningIsRight
<1>6. WarningIsRight(n)'
  <2>1. Seen(n)' = IF keeps THEN forwarders ELSE 0
    <3>1. collected[n] + reported[n] = 0 /\ collected[n] \in Nat /\ reported[n] \in Nat
          BY <1>0, <1>1 DEF CheckerInv, CheckerTypes, WarningIsRight, Seen
    <3> QED
        BY <1>1, <1>2, <3>1 DEF Seen, CheckerInv, CheckerTypes
  <2>2. ASSUME Due(s, c, id) = "yes" PROVE keeps /\ forwarders >= 1
    <3>1. Received(s) /\ client[<<s, c>>] = "user" /\ ~Expected(id)
          BY <2>2 DEF Due
    <3>2. <<s, c>> \notin ignoreCtx
          BY <3>1 DEF CheckerInv, InternalIsIgnored
    <3> QED
        BY <3>1, <3>2, FilteredIsExpected DEF keeps, CheckerInv, ForwardersMatch, Received
  <2>3. ASSUME Due(s, c, id) = "no" PROVE ~keeps
    <3>1. \/ ~Received(s)
          \/ client[<<s, c>>] = "internal" /\ <<s, c>> \notin unseen
          \/ Expected(id) /\ ~twice
          BY <2>3 DEF Due
    <3> QED
        BY <3>1, FilteredIsExpected DEF keeps, CheckerInv, InternalIsIgnored
  <2>4. ~deserted => forwarders <= 1
        BY DEF CheckerInv, ForwardersMatch
  <2>5. ~(n > n)
        BY <1>0, <1>1
  <2> QED
      BY <1>1, <1>2, <2>1, <2>2, <2>3, <2>4, <2>5 DEF WarningIsRight
<1> QED
    BY <1>1, <1>3, <1>4, <1>5, <1>6, FiltersStay DEF CheckerInv

LEMMA SubscriptionsKeep ==
  ASSUME CheckerInv, NEW s \in Subscriptions, AllowWarning(s) \/ Unsubscribe(s)
  PROVE  CheckerInv'
<1>1. /\ UNCHANGED <<client, unreadable, forwarders, listeners, deserted, ignoreCtx, kept,
                     written, unseen, due>>
      BY DEF AllowWarning, Unsubscribe
<1>2. FilterOf[s] \in Filters
      BY DEF Filters
<1>3. filters[FilterOf[s]] \in Nat
      BY <1>2 DEF CheckerInv, CheckerTypes
<1>4. /\ subscribed' \in [Subscriptions -> {"never", "active", "over"}]
      /\ \A t \in Subscriptions \ {s} : subscribed'[t] = subscribed[t]
      /\ filters' \in [Filters -> Nat] /\ twice' \in BOOLEAN
      /\ \A f \in Filters \ {FilterOf[s]} : filters'[f] = filters[f]
  <2>1. CASE AllowWarning(s)
    <3>1. /\ filters' = [filters EXCEPT ![FilterOf[s]] = filters[FilterOf[s]] + 1]
          /\ subscribed' = [subscribed EXCEPT ![s] = "active"] /\ twice' = twice
          BY <2>1 DEF AllowWarning
    <3>2. filters[FilterOf[s]] + 1 \in Nat
          BY <1>3
    <3> QED
        BY <3>1, <3>2 DEF CheckerInv, CheckerTypes
  <2>2. CASE Unsubscribe(s)
    <3>1. OneRemoved(filters[FilterOf[s]]) \in Nat
          BY <1>3 DEF OneRemoved
    <3> QED
        BY <2>2, <3>1 DEF Unsubscribe, CheckerInv, CheckerTypes
  <2> QED
      BY <2>1, <2>2
<1>5. CheckerTypes' /\ ForwardersMatch' /\ InternalIsIgnored'
      BY <1>1, <1>4 DEF CheckerInv, CheckerTypes, ForwardersMatch, InternalIsIgnored, Received,
                        kept
<1>6. twice => twice'
      BY DEF AllowWarning, Unsubscribe
<1>7. ASSUME NEW f \in Filters, f # FilterOf[s] PROVE FilterMatches(f)'
  <2>1. ActiveFor(f)' = ActiveFor(f)
        BY <1>4, <1>7 DEF ActiveFor
  <2> QED
      BY <1>4, <1>6, <1>7, <2>1 DEF CheckerInv, FilterMatches
<1>8. FilterMatches(FilterOf[s])'
  <2> DEFINE f == FilterOf[s]
             A == ActiveFor(f)
             B == ActiveFor(f)'
  <2>1. /\ IsFiniteSet(A) /\ filters[f] <= Cardinality(A) /\ filters[f] \in Nat
        /\ ~twice => filters[f] = Cardinality(A)
        BY <1>2, <1>3 DEF CheckerInv, FilterMatches
  <2>2. Cardinality(A) \in Nat
        BY <2>1, FS_CardinalityType
  <2>3. CASE AllowWarning(s)
    <3>1. /\ subscribed[s] = "never" /\ subscribed'[s] = "active" /\ twice' = twice
          /\ filters'[f] = filters[f] + 1
          BY <1>2, <2>3 DEF AllowWarning, CheckerInv, CheckerTypes
    <3>2. B = A \cup {s} /\ s \notin A
          BY <1>4, <3>1 DEF ActiveFor
    <3>3. IsFiniteSet(B) /\ Cardinality(B) = Cardinality(A) + 1
          BY <2>1, <3>2, FS_AddElement
    <3> QED
        BY <2>1, <2>2, <3>1, <3>3 DEF FilterMatches
  <2>4. CASE Unsubscribe(s)
    <3>1. /\ subscribed[s] # "never" /\ subscribed'[s] = "over"
          /\ twice' = (twice \/ subscribed[s] = "over")
          /\ filters'[f] = OneRemoved(filters[f])
          BY <1>2, <2>4 DEF Unsubscribe, CheckerInv, CheckerTypes
    <3>2. filters'[f] = IF filters[f] > 0 THEN filters[f] - 1 ELSE 0
          BY <3>1 DEF OneRemoved
    <3>3. CASE subscribed[s] = "active"
      <4>1. B = A \ {s} /\ s \in A
            BY <1>4, <3>1, <3>3 DEF ActiveFor
      <4>2. IsFiniteSet(B) /\ Cardinality(B) = Cardinality(A) - 1
            BY <2>1, <4>1, FS_RemoveElement
      <4>3. Cardinality(B) \in Nat
            BY <4>2, FS_CardinalityType
      <4>4. /\ filters'[f] <= Cardinality(B)
            /\ filters[f] = Cardinality(A) => filters'[f] = Cardinality(B)
            BY <2>1, <2>2, <3>2, <4>2, <4>3
      <4>5. ~twice' => filters[f] = Cardinality(A)
            BY <2>1, <3>1
      <4> QED
          BY <4>2, <4>4, <4>5 DEF FilterMatches
    <3>4. CASE subscribed[s] = "over"
      <4>1. B = A
            BY <1>4, <3>1, <3>4 DEF ActiveFor
      <4>2. filters'[f] <= Cardinality(B)
            BY <2>1, <2>2, <3>2, <4>1
      <4>3. twice'
            BY <3>1, <3>4
      <4> QED
          BY <2>1, <4>1, <4>2, <4>3 DEF FilterMatches
    <3>5. subscribed[s] \in {"never", "active", "over"}
          BY DEF CheckerInv, CheckerTypes
    <3> QED
        BY <3>1, <3>3, <3>4, <3>5
  <2> QED
      BY <2>3, <2>4
<1> QED
    BY <1>1, <1>5, <1>7, <1>8, WarningsStay DEF CheckerInv

LEMMA CheckerInvHolds == CheckerSpec => []CheckerInv
<1>1. CheckerInv /\ [CheckerNext]_checkerVars => CheckerInv'
  <2> SUFFICES ASSUME CheckerInv, [CheckerNext]_checkerVars PROVE CheckerInv'
      OBVIOUS
  <2>1. CASE UNCHANGED checkerVars
    <3>1. UNCHANGED <<client, unreadable, forwarders, listeners, deserted, ignoreCtx, filters,
                      collected, reported, kept, written, subscribed, twice, unseen, due>>
          BY <2>1 DEF checkerVars, checkerGhosts, kept
    <3>2. CheckerTypes' /\ ForwardersMatch' /\ InternalIsIgnored'
          BY <3>1 DEF CheckerInv, CheckerTypes, ForwardersMatch, InternalIsIgnored, Received
    <3> QED
        BY <3>1, <3>2, FiltersStay, WarningsStay DEF CheckerInv
  <2> QED
      BY <2>1, ListenersKeep, ServersKeep, WarnsKeeps, SubscriptionsKeep DEF CheckerNext
<1> QED
    BY <1>1, CheckerInvInit, PTL DEF CheckerSpec

(* A warning is collected if nobody allowed it, and once unless all listeners *)
(* of the cluster had gone, for any number of servers, connections, checkers  *)
(* and subscriptions (mongodb-server-log-checker/src/index.ts).               *)
THEOREM Reported == CheckerSpec => []UnexpectedIsReported
<1>1. CheckerInv => UnexpectedIsReported
      BY DEF CheckerInv, WarningIsRight, UnexpectedIsReported
<1> QED
    BY <1>1, CheckerInvHolds, PTL

-----------------------------------------------------------------------------
(* A set of numbers has a smallest one.                                     *)
LEMMA Smallest ==
  ASSUME NEW S, S \subseteq Nat, S # {}
  PROVE  Min(S) \in S /\ \A y \in S : Min(S) <= y
<1>1. PICK x \in S : \A y \in S : ~(<<y, x>> \in OpToRel(<, Nat))
      BY NatLessThanWellFounded, WFMin
<1>2. \A y \in S : y < x => <<y, x>> \in OpToRel(<, Nat)
      BY DEF OpToRel
<1>3. ASSUME NEW y \in S PROVE x <= y
  <2>1. x \in Nat /\ y \in Nat /\ ~(y < x)
        BY <1>1, <1>2
  <2> QED
      BY <2>1
<1>4. \E z \in S : \A y \in S : z <= y
      BY <1>3
<1> QED
    BY <1>4 DEF Min

-----------------------------------------------------------------------------
(* The plan of a cluster (ClusterPlan). The invariant is that each set, wherever *)
(* its start has come, is sound: the storage has been told of the ports that     *)
(* its servers will have (KnownToStorage), and its members have the priorities   *)
(* that were asked for (Prioritized); that what the start of the cluster has     *)
(* left behind no longer changes (CourseOfPlan); and that the shards added so    *)
(* far are the sets' own, each once (Added).                                     *)

IsArgs(a) == a = Args(a.ports, a.roles, a.name) /\ a.ports \in Seq(Nat)

IsServer(s) ==
  /\ s = [args |-> s.args, state |-> s.state, port |-> s.port]
  /\ IsArgs(s.args) /\ s.state \in {"idle", "up", "failed"}

SetPlaces == {"allocate", "setup", "serve", "initiate", "elect", "up", "failed"}

IsSet(r) ==
  /\ r = [pc |-> r.pc, isConfig |-> r.isConfig, members |-> r.members, servers |-> r.servers,
          told |-> r.told, name |-> r.name, log |-> r.log]
  /\ r.pc \in SetPlaces /\ r.told \in Seq(Nat)
  /\ Len(r.members) \in Nat \ {0}
  /\ DOMAIN r.members = 1..Len(r.members) /\ DOMAIN r.servers = 1..Len(r.members)
  /\ r.servers = [i \in DOMAIN r.servers |-> r.servers[i]]
  /\ \A i \in DOMAIN r.servers : IsServer(r.servers[i])

(* The storage is told of a port before the server has it; a server that has *)
(* two ports will not start.                                                 *)
ToldOf(args, p) == Len(args.ports) > 1 \/ (args.ports = <<p>> /\ p # 0)

KnownToStorage(r) ==
  /\ r.pc = "allocate" => Len(r.told) < Len(r.members)
  /\ r.pc # "allocate" => Len(r.told) = Len(r.members)
  /\ r.pc \notin {"allocate", "setup", "failed"} => r.log \in slsLogs
  /\ \A i \in DOMAIN r.servers :
       /\ i <= Len(r.told) => ToldOf(r.servers[i].args, r.told[i])
       /\ r.servers[i].state = "up" => /\ r.pc \notin {"allocate", "setup"}
                                       /\ r.told[i] = r.servers[i].port /\ r.log \in slsLogs
       /\ r.pc \in {"allocate", "setup"} => r.servers[i].state = "idle"

Prioritized(ms) ==
  /\ \A i \in DOMAIN ms : ms[i].priority \in {Unasked} \cup Nat
  /\ plan.rsMembers = Unasked => ms[1].priority = 1 /\ ~ms[1].arbiter

SetIsSound(r) ==
  /\ IsSet(r)
  /\ plan.storage => KnownToStorage(r)
  /\ ~plan.storage => r.pc \notin {"allocate", "setup"}
  /\ Prioritized(r.members)
  /\ r.name \in {NoName, r.members[1].args.name}

Routers ==
  /\ DOMAIN routers \subseteq Nat /\ routers = [i \in DOMAIN routers |-> routers[i]]
  /\ \A i \in DOMAIN routers : IsServer(routers[i])

(* Since the sets are up nothing of them changes.                           *)
CourseOfPlan ==
  /\ startOf \in {"environment", "plan"} => sets = <<>> /\ routers = <<>>
  /\ startOf \in {"environment", "plan", "sets", "mongos"} => addedShards = <<>>
  /\ startOf = "sets" => \A i \in DOMAIN routers : routers[i].state = "idle"
  /\ startOf \in {"mongos", "add", "up"} => \A g \in DOMAIN sets : sets[g].pc = "up"
  /\ startOf \in {"mongos", "add"} => plan.topology = "sharded"
  /\ startOf \in {"mongos", "add", "up"} /\ plan.topology = "sharded" => ConfigSets # {}
  /\ startOf \in {"sets", "mongos"} /\ plan.topology = "sharded" => DOMAIN routers # {}
  /\ startOf = "mongos" =>
       \A i \in DOMAIN routers : routers[i].state = "up" => sets[ConfigSet].name # NoName
  /\ startOf \in {"add", "up"} /\ plan.topology = "sharded" => sets[ConfigSet].name # NoName
  /\ startOf = "up" /\ plan.topology = "sharded" => ToAdd = {}

Added ==
  startOf \in {"add", "up"} =>
    /\ addedShards \in Seq({addedShards[i] : i \in 1..Len(addedShards)})
    /\ \A i \in 1..Len(addedShards) :
         /\ addedShards[i].set \in Shardsvrs
         /\ addedShards[i] = ShardSpec(addedShards[i].set, SetName(addedShards[i].set))
    /\ \A i, j \in 1..Len(addedShards) : addedShards[i].set = addedShards[j].set => i = j

PlanInv ==
  /\ plan \in PlanOptions /\ foreignPorts \subseteq PortRange
  /\ DOMAIN sets \subseteq Nat /\ IsFiniteSet(DOMAIN sets)
  /\ sets = [g \in DOMAIN sets |-> sets[g]]
  /\ \A g \in DOMAIN sets : SetIsSound(sets[g])
  /\ Routers /\ CourseOfPlan /\ Added

-----------------------------------------------------------------------------
(* Arguments and members.                                                   *)
LEMMA MadeArgs ==
  ASSUME NEW ports \in Seq(Nat), NEW roles, NEW name
  PROVE  /\ IsArgs(Args(ports, roles, name)) /\ Args(ports, roles, name).ports = ports
         /\ Args(ports, roles, name).roles = roles /\ Args(ports, roles, name).name = name
  BY DEF IsArgs, Args

LEMMA PlusArgs ==
  ASSUME NEW a, NEW b, IsArgs(a), IsArgs(b)
  PROVE  IsArgs(Plus(a, b)) /\ Plus(a, b).ports = a.ports \o b.ports
<1>1. a.ports \o b.ports \in Seq(Nat)
      BY ConcatProperties DEF IsArgs
<1> DEFINE name == IF a.name = NoName THEN b.name ELSE a.name
           roles == a.roles \cup b.roles
<1>2. Plus(a, b) = Args(a.ports \o b.ports, roles, name)
      BY DEF Plus
<1> HIDE DEF roles, name
<1> QED
    BY <1>1, <1>2 DEF IsArgs, Args

LEMMA RemovedPort ==
  ASSUME NEW a, IsArgs(a)
  PROVE  /\ IsArgs(RemovePortArg(a))
         /\ RemovePortArg(a).ports = IF a.ports = <<>> THEN <<>> ELSE Tail(a.ports)
<1> DEFINE rest == IF a.ports = <<>> THEN a.ports ELSE Tail(a.ports)
<1>1. rest \in Seq(Nat)
      BY DEF IsArgs
<1>2. RemovePortArg(a) = Args(rest, a.roles, a.name)
  <2>1. a = [ports |-> a.ports, roles |-> a.roles, name |-> a.name]
        BY DEF IsArgs, Args
  <2>2. RemovePortArg(a) = [a EXCEPT !.ports = rest]
        BY DEF RemovePortArg
  <2> HIDE DEF rest
  <2> QED
      BY <2>1, <2>2 DEF Args
<1>3. a.ports = <<>> => rest = <<>>
      OBVIOUS
<1> QED
    BY <1>1, <1>2, <1>3 DEF IsArgs, Args

LEMMA PortArgs == /\ IsArgs(NoArgs)
                  /\ \A p \in Nat : IsArgs(PortArg(p)) /\ PortArg(p).ports = <<p>>
<1>1. <<>> \in Seq(Nat) /\ \A p \in Nat : <<p>> \in Seq(Nat)
      OBVIOUS
<1> QED
    BY <1>1 DEF NoArgs, PortArg, IsArgs, Args

LEMMA Argument == ASSUME NEW a \in Arguments PROVE IsArgs(a)
  BY DEF Arguments, IsArgs, Args

LEMMA NamedArgs ==
  ASSUME NEW a, IsArgs(a), NEW n
  PROVE  IsArgs([a EXCEPT !.name = n])
<1>1. [a EXCEPT !.name = n] = Args(a.ports, a.roles, n) /\ a.ports \in Seq(Nat)
      BY DEF IsArgs, Args
<1> QED
    BY <1>1, MadeArgs

(* What processRSMembers() looks at.                                        *)
IsRequest(o) ==
  /\ IsArgs(o.args)
  /\ o.secondaries \in {Unasked} \cup Nat /\ o.arbiters \in {Unasked} \cup Nat
  /\ o.rsMembers \in {Unasked} \cup (Seq(MemberOptions) \ {<<>>})

AreMembers(ms) ==
  /\ Len(ms) \in Nat \ {0} /\ DOMAIN ms = 1..Len(ms)
  /\ \A i \in DOMAIN ms : IsArgs(ms[i].args) /\ ms[i].priority \in {Unasked} \cup Nat

LEMMA ListOf ==
  ASSUME NEW n \in Nat, NEW f, DOMAIN f = 1..n, f = [i \in 1..n |-> f[i]]
  PROVE  Len(f) = n /\ f \in Seq({f[i] : i \in 1..n})
  OBVIOUS

LEMMA MembersAreMade ==
  ASSUME NEW o, IsRequest(o), NEW fresh
  PROVE  /\ AreMembers(ProcessRSMembers(o, fresh))
         /\ o.rsMembers = Unasked => /\ ProcessRSMembers(o, fresh)[1].priority = 1
                                     /\ ~ProcessRSMembers(o, fresh)[1].arbiter
<1> DEFINE named == IF o.args.name = NoName THEN [o.args EXCEPT !.name = fresh] ELSE o.args
           secondaryArgs == Plus(RemovePortArg(named), PortArg(0))
           result == ProcessRSMembers(o, fresh)
<1>1. IsArgs(named)
      BY NamedArgs DEF IsRequest
<1>2. IsArgs(secondaryArgs)
  <2>1. IsArgs(RemovePortArg(named)) /\ IsArgs(PortArg(0))
        BY <1>1, RemovedPort, PortArgs
  <2> HIDE DEF named
  <2> QED
      BY <2>1, PlusArgs
<1>3. ASSUME o.rsMembers = Unasked
      PROVE  AreMembers(result) /\ result[1].priority = 1 /\ ~result[1].arbiter
  <2> DEFINE first == NewMember(1, FALSE, named)
             second == NewMember(0, FALSE, secondaryArgs)
             third == NewMember(0, TRUE, secondaryArgs)
             k == OrElse(o.secondaries, 2)
             l == OrElse(o.arbiters, 0)
             kinds == {first, second, third}
             seconds == [i \in 1..k |-> second]
             thirds == [i \in 1..l |-> third]
  <2>1. k \in Nat /\ l \in Nat
        BY DEF IsRequest, OrElse
  <2>2. result = <<first>> \o seconds \o thirds
        BY <1>3 DEF ProcessRSMembers
  <2>3. first.priority = 1 /\ ~first.arbiter
        BY DEF NewMember
  <2>4. \A m \in kinds : IsArgs(m.args) /\ m.priority \in Nat
        BY <1>1, <1>2 DEF NewMember
  <2> HIDE DEF first, second, third, k, l, result, named
  <2>5. <<first>> \in Seq(kinds) /\ seconds \in Seq(kinds) /\ thirds \in Seq(kinds)
        BY <2>1
  <2> HIDE DEF seconds, thirds
  <2>6. /\ (<<first>> \o seconds) \in Seq(kinds)
        /\ Len(<<first>> \o seconds) = 1 + Len(seconds)
        /\ (<<first>> \o seconds)[1] = first
        BY <2>5
  <2> DEFINE two == <<first>> \o seconds
  <2> HIDE DEF two, kinds
  <2>7. result \in Seq(kinds) /\ Len(result) = Len(two) + Len(thirds) /\ result[1] = two[1]
    <3>1. two \in Seq(kinds) /\ thirds \in Seq(kinds) /\ Len(two) >= 1
          BY <2>5, <2>6, LenProperties DEF two
    <3>2. result = two \o thirds
          BY <2>2 DEF two
    <3> QED
        BY <3>1, <3>2
  <2>8. /\ Len(result) \in Nat \ {0} /\ DOMAIN result = 1..Len(result)
        /\ \A i \in DOMAIN result : result[i] \in kinds
    <3>1. Len(two) = 1 + Len(seconds) /\ Len(seconds) \in Nat /\ Len(thirds) \in Nat
          BY <2>5, <2>6, LenProperties DEF two
    <3> QED
        BY <2>7, <3>1, LenProperties
  <2>9. result[1] = first
        BY <2>6, <2>7 DEF two
  <2> QED
      BY <2>3, <2>4, <2>8, <2>9 DEF AreMembers
<1>4. ASSUME o.rsMembers # Unasked PROVE AreMembers(result)
  <2> DEFINE ms == o.rsMembers
             ArgsAt(i) == Plus(ms[i].args,
                            IF HasPortArg(ms[i].args) \/ i = PrimaryIndex(ms)
                            THEN named ELSE secondaryArgs)
  <2>1. ms \in Seq(MemberOptions) /\ ms # <<>>
        BY <1>4 DEF IsRequest
  <2>2. result = [i \in DOMAIN ms |-> NewMember(ms[i].priority, ms[i].arbiter, ArgsAt(i))]
        BY <1>4 DEF ProcessRSMembers
  <2>3. ASSUME NEW i \in DOMAIN ms PROVE IsArgs(ArgsAt(i))
    <3>1. ms[i] \in MemberOptions
          BY <2>1, <2>3
    <3>2. IsArgs(ms[i].args)
          BY <3>1, Argument DEF MemberOptions
    <3> DEFINE more == IF HasPortArg(ms[i].args) \/ i = PrimaryIndex(ms)
                       THEN named ELSE secondaryArgs
    <3>3. IsArgs(more)
          BY <1>1, <1>2
    <3> HIDE DEF more
    <3>4. IsArgs(Plus(ms[i].args, more))
          BY <3>2, <3>3, PlusArgs
    <3> QED
        BY <3>4 DEF more
  <2>4. DOMAIN ms = 1..Len(ms) /\ Len(ms) \in Nat \ {0}
        BY <2>1
  <2> HIDE DEF ms, ArgsAt
  <2>5. DOMAIN result = 1..Len(ms) /\ result = [i \in 1..Len(ms) |-> result[i]]
        BY <2>2, <2>4
  <2>6. \A i \in DOMAIN result : /\ result[i].args = ArgsAt(i)
                                  /\ result[i].priority \in {Unasked} \cup Nat
    <3>1. \A i \in DOMAIN ms : ms[i] \in MemberOptions
          BY <2>1
    <3>2. \A i \in DOMAIN ms : ms[i].priority \in {Unasked} \cup Nat
          BY <3>1 DEF MemberOptions
    <3> QED
        BY <2>2, <3>2 DEF NewMember
  <2> HIDE DEF result
  <2>7. Len(result) = Len(ms)
        BY <2>4, <2>5, ListOf
  <2> QED
      BY <2>3, <2>4, <2>5, <2>6, <2>7 DEF AreMembers
<1> QED
    BY <1>3, <1>4

-----------------------------------------------------------------------------
(* The plan.                                                                *)
LEMMA NewServerIsOne ==
  ASSUME NEW a, IsArgs(a)
  PROVE  IsServer(NewServer(a)) /\ NewServer(a).state = "idle" /\ NewServer(a).args = a
  BY DEF NewServer, IsServer

LEMMA NewSetIsSound ==
  ASSUME plan \in PlanOptions, NEW i, NEW ms, NEW c, AreMembers(ms),
         plan.rsMembers = Unasked => ms[1].priority = 1 /\ ~ms[1].arbiter
  PROVE  SetIsSound(ReplicaSet(i, ms, c)) /\ ReplicaSet(i, ms, c).isConfig = c
<1> DEFINE r == ReplicaSet(i, ms, c)
           first == IF plan.storage THEN "allocate" ELSE "serve"
           servers == [m \in DOMAIN ms |-> NewServer(ms[m].args)]
           log == FirstLog + i - 1
<1>1. r = [pc |-> first, isConfig |-> c, members |-> ms, servers |-> servers, told |-> <<>>,
           name |-> NoName, log |-> log]
      BY DEF ReplicaSet
<1>2. /\ \A m \in DOMAIN servers : IsServer(servers[m]) /\ servers[m].state = "idle"
      /\ DOMAIN servers = DOMAIN ms /\ servers = [m \in DOMAIN servers |-> servers[m]]
      BY NewServerIsOne DEF AreMembers
<1>3. /\ plan.storage => first = "allocate"
      /\ ~plan.storage => first = "serve"
      OBVIOUS
<1> HIDE DEF r, first, servers, log
<1>4. /\ r.pc = first /\ r.isConfig = c /\ r.members = ms /\ r.servers = servers
      /\ r.told = <<>> /\ r.name = NoName /\ r.log = log
      BY <1>1
<1>5. IsSet(r)
  <2>1. r = [pc |-> r.pc, isConfig |-> r.isConfig, members |-> r.members, servers |-> r.servers,
             told |-> r.told, name |-> r.name, log |-> r.log]
        BY <1>1, <1>4
  <2>2. /\ r.pc \in SetPlaces /\ r.told \in Seq(Nat)
        BY <1>3, <1>4 DEF SetPlaces
  <2> QED
      BY <1>2, <1>4, <2>1, <2>2 DEF IsSet, AreMembers
<1>6. Len(r.told) = 0 /\ Len(r.members) >= 1
      BY <1>4 DEF AreMembers
<1>7. plan.storage => KnownToStorage(r)
      BY <1>2, <1>3, <1>4, <1>6 DEF KnownToStorage, AreMembers
<1>8. Prioritized(r.members)
      BY <1>4 DEF Prioritized, AreMembers
<1> QED
    BY <1>3, <1>4, <1>5, <1>7, <1>8 DEF SetIsSound, r

LEMMA RequestOfPlan ==
  ASSUME plan \in PlanOptions
  PROVE  LET o == [plan EXCEPT !.secondaries = IF plan.storage THEN OrElse(@, 1) ELSE @]
         IN /\ IsRequest(o) /\ o.rsMembers = plan.rsMembers /\ o.args = plan.args
            /\ o.topology = plan.topology /\ o.mongosArgs = plan.mongosArgs
            /\ o.shards = plan.shards /\ o \in PlanOptions
<1> DEFINE n == IF plan.storage THEN OrElse(plan.secondaries, 1) ELSE plan.secondaries
           o == [plan EXCEPT !.secondaries = n]
<1>1. n \in {Unasked} \cup Nat
      BY DEF PlanOptions, OrElse
<1> HIDE DEF n
<1>2. /\ o \in PlanOptions
      /\ o.rsMembers = plan.rsMembers /\ o.args = plan.args
      /\ o.topology = plan.topology /\ o.mongosArgs = plan.mongosArgs
      /\ o.shards = plan.shards
      BY <1>1 DEF PlanOptions
<1>3. IsRequest(o)
  <2>1. o \in PlanOptions
        BY <1>2
  <2> HIDE DEF o
  <2>2. o.args \in Arguments
        BY <2>1 DEF PlanOptions
  <2>3. /\ o.secondaries \in {Unasked} \cup Nat /\ o.arbiters \in {Unasked} \cup Nat
        /\ o.rsMembers \in {Unasked} \cup (Seq(MemberOptions) \ {<<>>})
        BY <2>1 DEF PlanOptions
  <2> QED
      BY <2>2, <2>3, Argument DEF IsRequest
<1> QED
    BY <1>2, <1>3 DEF n

LEMMA ShardsOfPlan ==
  ASSUME NEW o \in PlanOptions, o.topology = "sharded"
  PROVE  /\ DOMAIN ShardOptions(o) \subseteq Nat /\ IsFiniteSet(DOMAIN ShardOptions(o))
         /\ \A i \in DOMAIN ShardOptions(o) :
              /\ IsRequest(ShardOptions(o)[i])
              /\ ShardOptions(o)[i].rsMembers = o.rsMembers
<1> DEFINE listed == o.shards # Unasked /\ "list" \in DOMAIN o.shards
           number == IF o.shards = Unasked THEN 3 ELSE o.shards.number
           asked == IF listed THEN o.shards.list ELSE [i \in 1..(number + 1) |-> NoArgs]
           Role(i) == Args(<<>>, IF asked[i].roles # {} THEN {}
                                 ELSE IF i = 1 THEN {"configsvr"} ELSE {"shardsvr"}, NoName)
           ArgsAt(i) == Plus(Plus(RemovePortArg(o.args), asked[i]), Role(i))
<1>1. /\ DOMAIN asked \subseteq Nat /\ IsFiniteSet(DOMAIN asked)
      /\ \A i \in DOMAIN asked : IsArgs(asked[i])
  <2>1. CASE listed
    <3>1. o.shards.list \in Seq(Arguments)
      <4>1. o.shards \in {Unasked} \cup [number : Nat] \cup [list : Seq(Arguments) \ {<<>>}]
            BY DEF PlanOptions
      <4>2. CASE o.shards \in [list : Seq(Arguments) \ {<<>>}]
            BY <4>2
      <4>3. CASE o.shards \in [number : Nat]
            BY <2>1, <4>3
      <4> QED
          BY <2>1, <4>1, <4>2, <4>3
    <3>2. asked = o.shards.list
          BY <2>1
    <3> HIDE DEF asked
    <3>3. DOMAIN asked = 1..Len(asked) /\ Len(asked) \in Nat /\ \A i \in DOMAIN asked : asked[i] \in Arguments
          BY <3>1, <3>2
    <3> QED
        BY <3>3, Argument, FS_Interval
  <2>2. CASE ~listed
    <3>1. number \in Nat
      <4>1. o.shards \in {Unasked} \cup [number : Nat] \cup [list : Seq(Arguments) \ {<<>>}]
            BY DEF PlanOptions
      <4>2. CASE o.shards \in [list : Seq(Arguments) \ {<<>>}]
            BY <2>2, <4>2
      <4> QED
          BY <2>2, <4>1, <4>2
    <3>2. asked = [i \in 1..(number + 1) |-> NoArgs]
          BY <2>2
    <3> HIDE DEF asked, number
    <3>3. DOMAIN asked = 1..(number + 1) /\ \A i \in DOMAIN asked : asked[i] = NoArgs
          BY <3>2
    <3> QED
        BY <3>1, <3>3, PortArgs, FS_Interval
  <2> QED
      BY <2>1, <2>2
<1>2. ShardOptions(o) = [i \in DOMAIN asked |-> [o EXCEPT !.topology = "replset", !.args = ArgsAt(i)]]
      BY DEF ShardOptions
<1> HIDE DEF asked
<1>3. ASSUME NEW i \in DOMAIN asked PROVE IsArgs(ArgsAt(i))
  <2>1. IsArgs(Role(i))
    <3> DEFINE roles == IF asked[i].roles # {} THEN {}
                        ELSE IF i = 1 THEN {"configsvr"} ELSE {"shardsvr"}
    <3> HIDE DEF roles
    <3>1. <<>> \in Seq(Nat)
          OBVIOUS
    <3>2. IsArgs(Args(<<>>, roles, NoName))
          BY <3>1 DEF IsArgs, Args
    <3> QED
        BY <3>2 DEF roles
  <2>2. IsArgs(RemovePortArg(o.args))
    <3>1. o.args \in Arguments
          BY DEF PlanOptions
    <3> QED
        BY <3>1, Argument, RemovedPort
  <2> HIDE DEF Role
  <2>3. IsArgs(Plus(RemovePortArg(o.args), asked[i]))
        BY <1>1, <2>2, PlusArgs
  <2> QED
      BY <2>1, <2>3, PlusArgs
<1> HIDE DEF ArgsAt
<1>4. ASSUME NEW i \in DOMAIN asked
      PROVE  /\ IsRequest(ShardOptions(o)[i])
             /\ ShardOptions(o)[i].rsMembers = o.rsMembers
  <2> DEFINE p == ShardOptions(o)[i]
  <2>1. p = [o EXCEPT !.topology = "replset", !.args = ArgsAt(i)]
        BY <1>2
  <2>2. o = [topology |-> o.topology, args |-> o.args, storage |-> o.storage,
             secondaries |-> o.secondaries, arbiters |-> o.arbiters, rsMembers |-> o.rsMembers,
             shards |-> o.shards, mongosArgs |-> o.mongosArgs]
        BY DEF PlanOptions
  <2> HIDE DEF p
  <2>3. /\ p.args = ArgsAt(i) /\ p.secondaries = o.secondaries /\ p.arbiters = o.arbiters
        /\ p.rsMembers = o.rsMembers
        BY <2>1, <2>2
  <2>4. /\ o.secondaries \in {Unasked} \cup Nat /\ o.arbiters \in {Unasked} \cup Nat
        /\ o.rsMembers \in {Unasked} \cup (Seq(MemberOptions) \ {<<>>})
        BY DEF PlanOptions
  <2> QED
      BY <1>3, <2>3, <2>4 DEF IsRequest, p
<1> QED
    BY <1>1, <1>2, <1>4

LEMMA MongosOfPlan ==
  ASSUME NEW o \in PlanOptions
  PROVE  /\ DOMAIN MongosArgs(o) = DOMAIN o.mongosArgs
         /\ DOMAIN o.mongosArgs \subseteq Nat /\ DOMAIN o.mongosArgs # {}
         /\ \A i \in DOMAIN o.mongosArgs : IsArgs(MongosArgs(o)[i])
<1>1. o.mongosArgs \in Seq(Arguments) /\ o.mongosArgs # <<>> /\ o.args \in Arguments
      BY DEF PlanOptions
<1>2. IsArgs(o.args) /\ IsArgs(RemovePortArg(o.args))
      BY <1>1, Argument, RemovedPort
<1>3. ASSUME NEW i \in DOMAIN o.mongosArgs PROVE IsArgs(MongosArgs(o)[i])
  <2> DEFINE first == IF i = 1 /\ ~HasPortArg(o.mongosArgs[1]) THEN o.args
                      ELSE RemovePortArg(o.args)
  <2>1. IsArgs(first) /\ IsArgs(o.mongosArgs[i])
        BY <1>1, <1>2, <1>3, Argument
  <2>2. MongosArgs(o)[i] = Plus(first, o.mongosArgs[i])
        BY <1>3 DEF MongosArgs
  <2> HIDE DEF first
  <2> QED
      BY <2>1, <2>2, PlusArgs
<1>4. DOMAIN MongosArgs(o) = DOMAIN o.mongosArgs
      BY DEF MongosArgs
<1> DEFINE ms == o.mongosArgs
<1>5. DOMAIN ms \subseteq Nat /\ DOMAIN ms # {}
  <2>1. ms \in Seq(Arguments) /\ ms # <<>>
        BY <1>1
  <2> HIDE DEF ms
  <2>2. Len(ms) \in Nat /\ Len(ms) # 0 /\ DOMAIN ms = 1..Len(ms)
        BY <2>1, EmptySeq, LenProperties
  <2>3. 1 \in DOMAIN ms
        BY <2>2
  <2> QED
      BY <2>2, <2>3
<1> QED
    BY <1>3, <1>4, <1>5

-----------------------------------------------------------------------------
LEMMA PlanInvInit == PlanInit => PlanInv
<1> SUFFICES ASSUME PlanInit PROVE PlanInv
    OBVIOUS
<1>1. /\ plan \in PlanOptions /\ DOMAIN sets = {} /\ DOMAIN routers = {}
      /\ sets = <<>> /\ routers = <<>> /\ addedShards = <<>>
      /\ startOf \in {"environment", "plan"} /\ foreignPorts = {}
      BY PlanAssumption DEF PlanInit
<1>2. IsFiniteSet(DOMAIN sets)
      BY <1>1, FS_EmptySet
<1>3. sets = [g \in DOMAIN sets |-> sets[g]] /\ routers = [i \in DOMAIN routers |-> routers[i]]
      BY <1>1
<1>4. CourseOfPlan /\ Added
      BY <1>1 DEF CourseOfPlan, Added
<1> QED
    BY <1>1, <1>2, <1>3, <1>4 DEF PlanInv, Routers

(* What a step that only decides where the start goes on leaves alone.       *)
LEMMA SetsStay ==
  ASSUME PlanInv, UNCHANGED <<plan, sets, routers, slsLogs>>
  PROVE  /\ plan' \in PlanOptions /\ DOMAIN sets' \subseteq Nat /\ IsFiniteSet(DOMAIN sets')
         /\ sets' = [g \in DOMAIN sets' |-> sets'[g]]
         /\ (\A g \in DOMAIN sets : SetIsSound(sets[g]))'
         /\ Routers'
<1>1. ASSUME NEW g \in DOMAIN sets PROVE SetIsSound(sets[g])'
  <2>1. SetIsSound(sets[g])
        BY DEF PlanInv
  <2> QED
      BY <2>1 DEF SetIsSound, KnownToStorage, Prioritized
<1> QED
    BY <1>1 DEF PlanInv, Routers

LEMMA OthersListenKeeps == ASSUME PlanInv, OthersListen PROVE PlanInv'
<1>1. /\ UNCHANGED <<plan, sets, routers, slsLogs, startOf, addedShards>>
      /\ foreignPorts' \subseteq PortRange
      BY DEF OthersListen, Free
<1>2. /\ ConfigSets' = ConfigSets /\ ConfigSet' = ConfigSet /\ Shardsvrs' = Shardsvrs
      /\ ToAdd' = ToAdd
      BY <1>1 DEF ConfigSets, ConfigSet, Shardsvrs, ToAdd
<1>3. CourseOfPlan'
      BY <1>1, <1>2 DEF PlanInv, CourseOfPlan
<1>4. Added'
      BY <1>1, <1>2 DEF PlanInv, Added, ShardSpec, SetName, Ports
<1> QED
    BY <1>1, <1>3, <1>4, SetsStay DEF PlanInv

LEMMA CreateEnvironmentKeeps == ASSUME PlanInv, CreateEnvironment PROVE PlanInv'
<1>1. /\ UNCHANGED <<plan, sets, routers, slsLogs, addedShards, foreignPorts>>
      /\ startOf = "environment" /\ startOf' \in {"plan", "failed"}
      BY DEF CreateEnvironment
<1>2. CourseOfPlan' /\ Added'
      BY <1>1 DEF PlanInv, CourseOfPlan, Added
<1> QED
    BY <1>1, <1>2, SetsStay DEF PlanInv

LEMMA MakePlanKeeps == ASSUME PlanInv, MakePlan PROVE PlanInv'
<1> DEFINE o == [plan EXCEPT !.secondaries = IF plan.storage THEN OrElse(@, 1) ELSE @]
           shards == ShardOptions(o)
           NameOf(i) == "set" \o ToString(i)
<1>1. /\ plan \in PlanOptions /\ startOf = "plan" /\ startOf' = "sets"
      /\ UNCHANGED <<plan, foreignPorts, slsLogs, addedShards>> /\ addedShards = <<>>
      /\ sets = <<>> /\ routers = <<>> /\ foreignPorts \subseteq PortRange
      BY DEF MakePlan, PlanInv, CourseOfPlan
<1>2. /\ IsRequest(o) /\ o.rsMembers = plan.rsMembers /\ o.topology = plan.topology
      /\ o.mongosArgs = plan.mongosArgs /\ o \in PlanOptions
      BY <1>1, RequestOfPlan
<1>3. /\ o.topology = "standalone" =>
           sets' = <<ReplicaSet(1, <<NewMember(1, FALSE, o.args)>>, FALSE)>> /\ routers' = <<>>
      /\ o.topology = "replset" =>
           sets' = <<ReplicaSet(1, ProcessRSMembers(o, "set1"), FALSE)>> /\ routers' = <<>>
      /\ o.topology = "sharded" =>
           /\ sets' = [i \in DOMAIN shards |->
                         ReplicaSet(i, ProcessRSMembers(shards[i], NameOf(i)),
                                    "configsvr" \in shards[i].args.roles)]
           /\ routers' = [i \in DOMAIN o.mongosArgs |-> NewServer(MongosArgs(o)[i])]
      BY DEF MakePlan
<1> HIDE DEF o, shards, NameOf
<1>4. /\ DOMAIN sets' \subseteq Nat /\ IsFiniteSet(DOMAIN sets')
      /\ sets' = [g \in DOMAIN sets' |-> sets'[g]]
      /\ \A g \in DOMAIN sets' : SetIsSound(sets'[g])
  <2>1. ASSUME NEW r, sets' = <<r>>, SetIsSound(r)
        PROVE  /\ DOMAIN sets' \subseteq Nat /\ IsFiniteSet(DOMAIN sets')
               /\ sets' = [g \in DOMAIN sets' |-> sets'[g]]
               /\ \A g \in DOMAIN sets' : SetIsSound(sets'[g])
    <3>1. DOMAIN sets' = 1..1 /\ sets'[1] = r /\ sets' = [g \in 1..1 |-> r]
          BY <2>1
    <3>2. IsFiniteSet(1..1)
      <4>1. 1..1 = {1}
            OBVIOUS
      <4>2. IsFiniteSet({1})
            BY FS_Singleton
      <4> QED
          BY <4>1, <4>2
    <3> QED
        BY <2>1, <3>1, <3>2
  <2>2. CASE o.topology = "standalone"
    <3> DEFINE ms == <<NewMember(1, FALSE, o.args)>>
    <3>1. Len(ms) = 1 /\ DOMAIN ms = 1..1 /\ ms[1] = NewMember(1, FALSE, o.args)
          OBVIOUS
    <3>2. IsArgs(o.args)
          BY <1>2 DEF IsRequest
    <3>3. /\ AreMembers(ms) /\ ms[1].priority = 1 /\ ~ms[1].arbiter
          BY <3>1, <3>2 DEF AreMembers, NewMember
    <3> HIDE DEF ms
    <3>4. SetIsSound(ReplicaSet(1, ms, FALSE))
          BY <1>1, <3>3, NewSetIsSound
    <3> QED
        BY <1>3, <2>1, <2>2, <3>4 DEF ms
  <2>3. CASE o.topology = "replset"
    <3> DEFINE ms == ProcessRSMembers(o, "set1")
    <3>1. AreMembers(ms) /\ (plan.rsMembers = Unasked => ms[1].priority = 1 /\ ~ms[1].arbiter)
          BY <1>2, MembersAreMade
    <3> HIDE DEF ms
    <3>2. SetIsSound(ReplicaSet(1, ms, FALSE))
          BY <1>1, <3>1, NewSetIsSound
    <3> QED
        BY <1>3, <2>1, <2>3, <3>2 DEF ms
  <2>4. CASE o.topology = "sharded"
    <3> DEFINE R(i) == ReplicaSet(i, ProcessRSMembers(shards[i], NameOf(i)),
                                  "configsvr" \in shards[i].args.roles)
    <3>1. /\ DOMAIN shards \subseteq Nat /\ IsFiniteSet(DOMAIN shards)
          /\ \A i \in DOMAIN shards : IsRequest(shards[i]) /\ shards[i].rsMembers = o.rsMembers
          BY <1>2, <2>4, ShardsOfPlan DEF shards
    <3>2. ASSUME NEW i \in DOMAIN shards PROVE SetIsSound(R(i))
      <4> DEFINE p == shards[i]
                 ms == ProcessRSMembers(p, NameOf(i))
                 c == "configsvr" \in shards[i].args.roles
      <4>1. IsRequest(p) /\ p.rsMembers = plan.rsMembers
            BY <1>2, <3>1
      <4> HIDE DEF p, c
      <4>2. AreMembers(ms) /\ (plan.rsMembers = Unasked => ms[1].priority = 1 /\ ~ms[1].arbiter)
            BY <4>1, MembersAreMade
      <4> HIDE DEF ms
      <4>3. SetIsSound(ReplicaSet(i, ms, c))
            BY <1>1, <4>2, NewSetIsSound
      <4> QED
          BY <4>3 DEF ms, p, c
    <3>3. sets' = [i \in DOMAIN shards |-> R(i)]
          BY <1>3, <2>4
    <3> HIDE DEF R
    <3>4. DOMAIN sets' = DOMAIN shards /\ \A i \in DOMAIN shards : sets'[i] = R(i)
          BY <3>3
    <3> QED
        BY <3>1, <3>2, <3>3, <3>4
  <2> QED
      BY <1>2, <2>2, <2>3, <2>4 DEF PlanOptions
<1>5. (\A g \in DOMAIN sets : SetIsSound(sets[g]))'
  <2>1. ASSUME NEW g \in DOMAIN sets' PROVE SetIsSound(sets[g])'
        BY <1>1, <1>4, <2>1 DEF SetIsSound, KnownToStorage, Prioritized
  <2> QED
      BY <2>1
<1>6. /\ Routers' /\ \A i \in DOMAIN routers' : routers'[i].state = "idle"
      /\ plan.topology = "sharded" => DOMAIN routers' # {}
  <2>1. CASE routers' = <<>> /\ plan.topology # "sharded"
        BY <2>1 DEF Routers
  <2>2. CASE plan.topology = "sharded"
    <3> DEFINE F(i) == NewServer(MongosArgs(o)[i])
               D == DOMAIN o.mongosArgs
    <3>1. D \subseteq Nat /\ D # {} /\ \A i \in D : IsArgs(MongosArgs(o)[i])
          BY <1>2, MongosOfPlan
    <3>2. \A i \in D : IsServer(F(i)) /\ F(i).state = "idle"
          BY <3>1, NewServerIsOne
    <3>3. routers' = [i \in D |-> F(i)]
          BY <1>2, <1>3, <2>2
    <3> HIDE DEF F, D
    <3>4. DOMAIN routers' = D /\ \A i \in D : routers'[i] = F(i)
          BY <3>3
    <3> QED
        BY <3>1, <3>2, <3>3, <3>4 DEF Routers
  <2> QED
      BY <1>2, <1>3, <2>1, <2>2 DEF PlanOptions
<1>7. CourseOfPlan' /\ Added'
      BY <1>1, <1>6 DEF CourseOfPlan, Added
<1> QED
    BY <1>1, <1>4, <1>5, <1>6, <1>7 DEF PlanInv

-----------------------------------------------------------------------------
(* A step of one replica set, before it is up.                              *)
LEMMA SetStep ==
  ASSUME PlanInv, NEW g \in DOMAIN sets, NEW r, sets' = [sets EXCEPT ![g] = r],
         sets[g].pc # "up", SetIsSound(r)', slsLogs \subseteq slsLogs',
         UNCHANGED <<plan, foreignPorts, routers, startOf, addedShards>>
  PROVE  PlanInv'
<1>1. /\ DOMAIN sets' = DOMAIN sets /\ sets'[g] = r
      /\ \A h \in DOMAIN sets \ {g} : sets'[h] = sets[h]
      /\ sets' = [h \in DOMAIN sets' |-> sets'[h]]
      BY DEF PlanInv
<1>2. ASSUME NEW h \in DOMAIN sets' PROVE SetIsSound(sets[h])'
  <2>1. CASE h = g
        BY <1>1, <2>1 DEF SetIsSound, KnownToStorage, Prioritized
  <2>2. CASE h # g
    <3>1. SetIsSound(sets[h]) /\ sets'[h] = sets[h]
          BY <1>1, <1>2, <2>2 DEF PlanInv
    <3> QED
        BY <3>1 DEF SetIsSound, KnownToStorage, Prioritized
  <2> QED
      BY <2>1, <2>2
<1>3. sets # <<>> /\ startOf \notin {"environment", "plan", "mongos", "add", "up"}
      BY DEF PlanInv, CourseOfPlan
<1>4. CourseOfPlan' /\ Added'
      BY <1>3 DEF PlanInv, CourseOfPlan, Added
<1> QED
    BY <1>1, <1>2, <1>4 DEF PlanInv, Routers

LEMMA AdvanceIsStep ==
  ASSUME PlanInv, NEW g \in DOMAIN sets, NEW pc, Advance(g, pc)
  PROVE  /\ sets' = [sets EXCEPT ![g] = [sets[g] EXCEPT !.pc = pc]]
         /\ UNCHANGED <<plan, foreignPorts, slsLogs, routers, startOf, addedShards>>
  BY DEF Advance

LEMMA Advanced ==
  ASSUME PlanInv, NEW g \in DOMAIN sets, NEW pc \in SetPlaces, Advance(g, pc),
         sets[g].pc \in {"serve", "initiate", "elect"},
         pc \notin {"allocate", "setup"}
  PROVE  PlanInv'
<1>1. PICK s : s = sets[g]
      OBVIOUS
<1>2. PICK r : r = [s EXCEPT !.pc = pc]
      OBVIOUS
<1>3. SetIsSound(s) /\ s.pc \in {"serve", "initiate", "elect"}
      BY <1>1 DEF PlanInv
<1>5. /\ sets' = [sets EXCEPT ![g] = r] /\ sets[g].pc # "up"
      /\ UNCHANGED <<plan, foreignPorts, slsLogs, routers, startOf, addedShards>>
      BY <1>1, <1>2, AdvanceIsStep
<1>6. s = [pc |-> s.pc, isConfig |-> s.isConfig, members |-> s.members, servers |-> s.servers,
           told |-> s.told, name |-> s.name, log |-> s.log]
      BY <1>3 DEF SetIsSound, IsSet
<1>7. r = [pc |-> pc, isConfig |-> s.isConfig, members |-> s.members, servers |-> s.servers,
           told |-> s.told, name |-> s.name, log |-> s.log]
      BY <1>2, <1>6
<1>8. /\ r.pc = pc /\ r.isConfig = s.isConfig /\ r.members = s.members /\ r.servers = s.servers
      /\ r.told = s.told /\ r.name = s.name /\ r.log = s.log
      BY <1>7
<1>9. IsSet(r)
      BY <1>3, <1>7, <1>8 DEF SetIsSound, IsSet
<1>10. plan.storage => KnownToStorage(r)
      BY <1>3, <1>8 DEF SetIsSound, KnownToStorage
<1>11. Prioritized(r.members)
      BY <1>3, <1>8 DEF SetIsSound
<1>12. SetIsSound(r)
      BY <1>3, <1>8, <1>9, <1>10, <1>11 DEF SetIsSound
<1>13. SetIsSound(r)'
      BY <1>5, <1>12 DEF SetIsSound, KnownToStorage, Prioritized
<1> QED
    BY <1>5, <1>13, SetStep

LEMMA ServersSettleKeeps ==
  ASSUME PlanInv, NEW g \in DOMAIN sets, ServersSettle(g) PROVE PlanInv'
<1> DEFINE place == IF "failed" \in States(sets[g].servers) THEN "failed"
                    ELSE IF ~Elects(g) THEN "up"
                    ELSE IF plan.storage THEN "elect" ELSE "initiate"
<1>1. sets[g].pc = "serve"
      BY DEF ServersSettle
<1>2. CASE Advance(g, "failed")
      BY <1>1, <1>2, Advanced DEF SetPlaces
<1>3. CASE "idle" \notin States(sets[g].servers) /\ Advance(g, place)
  <2>1. PICK p : p = place
        OBVIOUS
  <2>2. p \in SetPlaces \ {"allocate", "setup"}
        BY <2>1 DEF SetPlaces
  <2> QED
      BY <1>1, <1>3, <2>1, <2>2, Advanced
<1> QED
    BY <1>2, <1>3 DEF ServersSettle

LEMMA PrimaryIsMember ==
  ASSUME NEW ms, Len(ms) \in Nat, DOMAIN ms = 1..Len(ms)
  PROVE  PrimaryIndex(ms) \in {0} \cup DOMAIN ms
<1> DEFINE Chosen(i) == IF ms[i].priority # Unasked THEN ms[i].priority # 0
                        ELSE \A j \in DOMAIN ms : OrElse(ms[j].priority, 0) <= 0
           places == [i \in DOMAIN ms |-> i]
           I == {i \in 1..Len(places) : Chosen(places[i])}
<1>1. PrimaryIndex(ms) = IF I # {} THEN Min(I) ELSE 0
      BY DEF PrimaryIndex, SelectInSeq
<1>2. Len(places) = Len(ms)
  <2>1. DOMAIN places = 1..Len(ms) /\ places = [i \in 1..Len(ms) |-> places[i]]
        OBVIOUS
  <2> HIDE DEF places
  <2> QED
      BY <2>1, ListOf
<1>3. I \subseteq DOMAIN ms /\ I \subseteq Nat
      BY <1>2
<1> HIDE DEF I
<1> QED
    BY <1>1, <1>3, Smallest

LEMMA InitiateSetKeeps ==
  ASSUME PlanInv, NEW g \in DOMAIN sets, InitiateSet(g) PROVE PlanInv'
<1>1. sets[g].pc = "initiate" /\ SetIsSound(sets[g])
      BY DEF InitiateSet, PlanInv
<1>2. PICK k : k = PrimaryIndex(sets[g].members)
      OBVIOUS
<1>3. PICK p : p = IF Electable(g, k) THEN "elect" ELSE "failed"
      OBVIOUS
<1>4. Advance(g, p)
      BY <1>2, <1>3 DEF InitiateSet
<1>5. p \in SetPlaces \ {"allocate", "setup"}
      BY <1>3 DEF SetPlaces
<1> QED
    BY <1>1, <1>3, <1>4, <1>5, Advanced

LEMMA StopWaitingKeeps ==
  ASSUME PlanInv, NEW g \in DOMAIN sets, StopWaiting(g) PROVE PlanInv'
  BY Advanced DEF StopWaiting, SetPlaces

LEMMA ElectPrimaryKeeps ==
  ASSUME PlanInv, NEW g \in DOMAIN sets, ElectPrimary(g) PROVE PlanInv'
<1>1. PICK s : s = sets[g]
      OBVIOUS
<1>2. PICK n : n = SetName(g)
      OBVIOUS
<1>3. PICK r : r = [[s EXCEPT !.pc = "up"] EXCEPT !.name = n]
      OBVIOUS
<1>4. SetIsSound(s) /\ s.pc = "elect" /\ n = s.members[1].args.name
      BY <1>1, <1>2 DEF PlanInv, ElectPrimary, SetName
<1>5. s = [pc |-> s.pc, isConfig |-> s.isConfig, members |-> s.members, servers |-> s.servers,
           told |-> s.told, name |-> s.name, log |-> s.log]
      BY <1>4 DEF SetIsSound, IsSet
<1>6. r = [pc |-> "up", isConfig |-> s.isConfig, members |-> s.members, servers |-> s.servers,
           told |-> s.told, name |-> n, log |-> s.log]
      BY <1>3, <1>5
<1>7. /\ sets' = [sets EXCEPT ![g] = r] /\ sets[g].pc # "up"
      /\ UNCHANGED <<plan, foreignPorts, slsLogs, routers, startOf, addedShards>>
      BY <1>1, <1>2, <1>3, <1>4 DEF ElectPrimary
<1>8. /\ r.pc = "up" /\ r.isConfig = s.isConfig /\ r.members = s.members /\ r.servers = s.servers
      /\ r.told = s.told /\ r.name = n /\ r.log = s.log
      BY <1>6
<1>9. IsSet(r)
      BY <1>4, <1>6, <1>8 DEF SetIsSound, IsSet, SetPlaces
<1>10. plan.storage => KnownToStorage(r)
      BY <1>4, <1>8 DEF SetIsSound, KnownToStorage
<1>11. Prioritized(r.members)
      BY <1>4, <1>8 DEF SetIsSound
<1>12. SetIsSound(r)
      BY <1>4, <1>8, <1>9, <1>10, <1>11 DEF SetIsSound
<1>13. SetIsSound(r)'
      BY <1>7, <1>12 DEF SetIsSound, KnownToStorage, Prioritized
<1> QED
    BY <1>7, <1>13, SetStep

LEMMA SetUpShardKeeps ==
  ASSUME PlanInv, NEW g \in DOMAIN sets, SetUpShard(g) PROVE PlanInv'
<1>1. PICK s : s = sets[g]
      OBVIOUS
<1>2. PICK started \in BOOLEAN :
        /\ slsLogs' = IF started THEN slsLogs \cup {s.log} ELSE slsLogs
        /\ sets' = [sets EXCEPT ![g].pc =
                      IF started /\ HasMetadataService THEN "serve" ELSE "failed"]
      BY <1>1 DEF SetUpShard
<1>3. PICK p : p = IF started /\ HasMetadataService THEN "serve" ELSE "failed"
      OBVIOUS
<1>4. PICK r : r = [s EXCEPT !.pc = p]
      OBVIOUS
<1>5. SetIsSound(s) /\ s.pc = "setup" /\ p \in {"serve", "failed"}
      BY <1>1, <1>3 DEF PlanInv, SetUpShard
<1>6. p = "serve" => s.log \in slsLogs'
      BY <1>2, <1>3
<1>7. s = [pc |-> s.pc, isConfig |-> s.isConfig, members |-> s.members, servers |-> s.servers,
           told |-> s.told, name |-> s.name, log |-> s.log]
      BY <1>5 DEF SetIsSound, IsSet
<1>8. r = [pc |-> p, isConfig |-> s.isConfig, members |-> s.members, servers |-> s.servers,
           told |-> s.told, name |-> s.name, log |-> s.log]
      BY <1>4, <1>7
<1>9. /\ sets' = [sets EXCEPT ![g] = r] /\ sets[g].pc # "up"
      /\ UNCHANGED <<plan, foreignPorts, routers, startOf, addedShards>>
      /\ slsLogs \subseteq slsLogs'
      BY <1>1, <1>2, <1>3, <1>4, <1>5 DEF SetUpShard
<1>10. /\ r.pc = p /\ r.isConfig = s.isConfig /\ r.members = s.members
       /\ r.servers = s.servers /\ r.told = s.told /\ r.name = s.name /\ r.log = s.log
      BY <1>8
<1>11. IsSet(r)
      BY <1>5, <1>8, <1>10 DEF SetIsSound, IsSet, SetPlaces
<1>12. plan.storage /\ KnownToStorage(s)
      BY <1>5 DEF SetIsSound
<1>13. KnownToStorage(r)'
      BY <1>5, <1>6, <1>9, <1>10, <1>12 DEF KnownToStorage
<1>14. Prioritized(r.members)
      BY <1>5, <1>10 DEF SetIsSound
<1>15. Prioritized(r.members)'
      BY <1>9, <1>14 DEF Prioritized
<1>16. SetIsSound(r)'
      BY <1>5, <1>9, <1>10, <1>11, <1>12, <1>13, <1>15 DEF SetIsSound
<1> QED
    BY <1>9, <1>16, SetStep

(* What a server does once it is asked to start.                            *)
LEMMA StartedServer ==
  ASSUME PlanInv, NEW s, IsServer(s), NEW u \in Starts(s)
  PROVE  /\ IsServer(u) /\ u.args = s.args /\ u.state \in {"up", "failed"}
         /\ \A p : u.state = "up" /\ ToldOf(s.args, p) => u.port = p
<1> DEFINE ports == s.args.ports
           asked == IF ports = <<>> THEN 0 ELSE ports[1]
           open == IF Len(ports) > 1 THEN {} ELSE IF asked = 0 THEN Free ELSE {asked} \cap Free
<1>1. u \in IF open = {} THEN {[s EXCEPT !.state = "failed"]}
            ELSE {[s EXCEPT !.state = "up", !.port = p] : p \in open}
      BY DEF Starts
<1>2. s = [args |-> s.args, state |-> s.state, port |-> s.port] /\ IsArgs(s.args)
      BY DEF IsServer
<1> HIDE DEF open
<1>3. CASE u = [s EXCEPT !.state = "failed"]
  <2>1. u = [args |-> s.args, state |-> "failed", port |-> s.port]
        BY <1>2, <1>3
  <2> QED
      BY <1>2, <2>1 DEF IsServer
<1>4. ASSUME NEW p \in open, u = [s EXCEPT !.state = "up", !.port = p]
      PROVE  /\ IsServer(u) /\ u.args = s.args /\ u.state \in {"up", "failed"}
             /\ \A q : u.state = "up" /\ ToldOf(s.args, q) => u.port = q
  <2>1. u = [args |-> s.args, state |-> "up", port |-> p]
        BY <1>2, <1>4
  <2>2. IsServer(u) /\ u.args = s.args /\ u.state = "up" /\ u.port = p
        BY <1>2, <2>1 DEF IsServer
  <2>3. ASSUME NEW q, ToldOf(s.args, q) PROVE p = q
    <3>1. ~(Len(ports) > 1)
          BY <1>4 DEF open
    <3>2. ports = <<q>> /\ q # 0
          BY <2>3, <3>1 DEF ToldOf
    <3>3. asked = q
          BY <3>2
    <3>4. open = {asked} \cap Free
          BY <3>1, <3>2, <3>3 DEF open
    <3> HIDE DEF asked
    <3> QED
        BY <1>4, <3>3, <3>4
  <2> QED
      BY <2>2, <2>3
<1> QED
    BY <1>1, <1>3, <1>4

LEMMA StartMemberKeeps ==
  ASSUME PlanInv, NEW g \in DOMAIN sets, StartMember(g) PROVE PlanInv'
<1>1. PICK s : s = sets[g]
      OBVIOUS
<1>2. PICK i \in DOMAIN s.servers : \E u \in Starts(s.servers[i]) :
        sets' = [sets EXCEPT ![g].servers[i] = u]
      BY <1>1 DEF StartMember
<1>3. PICK u : u \in Starts(s.servers[i]) /\ sets' = [sets EXCEPT ![g].servers[i] = u]
      BY <1>2
<1>4. PICK ss : ss = [s.servers EXCEPT ![i] = u]
      OBVIOUS
<1>5. PICK r : r = [s EXCEPT !.servers = ss]
      OBVIOUS
<1>6. SetIsSound(s) /\ s.pc = "serve"
      BY <1>1 DEF PlanInv, StartMember
<1>7. IsServer(s.servers[i])
      BY <1>2, <1>6 DEF SetIsSound, IsSet
<1>8. /\ IsServer(u) /\ u.args = s.servers[i].args
      /\ \A p : u.state = "up" /\ ToldOf(u.args, p) => u.port = p
      BY <1>3, <1>7, StartedServer
<1>9. s = [pc |-> s.pc, isConfig |-> s.isConfig, members |-> s.members, servers |-> s.servers,
           told |-> s.told, name |-> s.name, log |-> s.log]
      BY <1>6 DEF SetIsSound, IsSet
<1>10. r = [pc |-> s.pc, isConfig |-> s.isConfig, members |-> s.members, servers |-> ss,
            told |-> s.told, name |-> s.name, log |-> s.log]
      BY <1>5, <1>9
<1>11. sets' = [sets EXCEPT ![g] = r]
      BY <1>1, <1>3, <1>4, <1>5
<1>12. /\ UNCHANGED <<plan, foreignPorts, slsLogs, routers, startOf, addedShards>>
       /\ plan.topology # "standalone" => PrimaryIndex(s.members) # 0
      BY <1>1 DEF StartMember, Elects
<1>13. /\ r.pc = s.pc /\ r.isConfig = s.isConfig /\ r.members = s.members
       /\ r.servers = ss /\ r.told = s.told /\ r.name = s.name /\ r.log = s.log
      BY <1>10
<1>14. /\ DOMAIN ss = DOMAIN s.servers /\ ss[i] = u
       /\ \A j \in DOMAIN s.servers \ {i} : ss[j] = s.servers[j]
       /\ ss = [j \in DOMAIN ss |-> ss[j]]
      BY <1>2, <1>4
<1>15. IsSet(r)
      BY <1>6, <1>8, <1>10, <1>13, <1>14 DEF SetIsSound, IsSet
<1>16. plan.storage => KnownToStorage(r)
  <2> SUFFICES ASSUME plan.storage PROVE KnownToStorage(r)
      OBVIOUS
  <2>1. KnownToStorage(s) /\ Len(s.told) = Len(s.members) /\ s.log \in slsLogs
        BY <1>6 DEF SetIsSound, KnownToStorage
  <2>2. i <= Len(s.told) /\ ToldOf(s.servers[i].args, s.told[i])
    <3>1. i \in 1..Len(s.members)
          BY <1>2, <1>6 DEF SetIsSound, IsSet
    <3> QED
        BY <1>2, <2>1, <3>1 DEF KnownToStorage
  <2>3. u.state = "up" => u.port = s.told[i]
        BY <1>8, <2>2
  <2> QED
      BY <1>6, <1>8, <1>13, <1>14, <2>1, <2>2, <2>3 DEF KnownToStorage
<1>17. Prioritized(r.members)
      BY <1>6, <1>13 DEF SetIsSound
<1>18. SetIsSound(r)
      BY <1>6, <1>13, <1>15, <1>16, <1>17 DEF SetIsSound
<1>19. SetIsSound(r)'
      BY <1>12, <1>18 DEF SetIsSound, KnownToStorage, Prioritized
<1> QED
    BY <1>1, <1>6, <1>11, <1>12, <1>19, SetStep

LEMMA FreeIsNumber == Free \subseteq Nat \ {0}
  BY PlanAssumption DEF Free

(* The port that is chosen for a member, and its arguments then.            *)
LEMMA ChosenPort ==
  ASSUME NEW args, IsArgs(args), NEW p \in IF GetPortArg(args) = NoPort THEN Free
                                          ELSE {GetPortArg(args)},
         NEW result, result = IF GetPortArg(args) = NoPort
                              THEN Plus(RemovePortArg(args), PortArg(p)) ELSE args
  PROVE  p \in Nat /\ IsArgs(result) /\ ToldOf(result, p)
<1> DEFINE ports == args.ports
<1>1. ports \in Seq(Nat)
      BY DEF IsArgs
<1>2. CASE ports = <<>> \/ ports[1] = 0
  <2>1. GetPortArg(args) = NoPort
        BY <1>2 DEF GetPortArg, HasPortArg
  <2>2. p \in Nat \ {0} /\ result = Plus(RemovePortArg(args), PortArg(p))
        BY <2>1, FreeIsNumber
  <2>3. /\ IsArgs(RemovePortArg(args)) /\ IsArgs(PortArg(p)) /\ PortArg(p).ports = <<p>>
        /\ RemovePortArg(args).ports = IF ports = <<>> THEN <<>> ELSE Tail(ports)
        BY <2>2, PortArgs, RemovedPort
  <2> DEFINE rest == IF ports = <<>> THEN <<>> ELSE Tail(ports)
  <2>4. IsArgs(result) /\ result.ports = rest \o <<p>>
        BY <2>2, <2>3, PlusArgs
  <2>5. rest \in Seq(Nat)
        BY <1>1
  <2> HIDE DEF rest
  <2>6. CASE rest = <<>>
    <3>1. rest \o <<p>> = <<p>>
          BY <2>6, <2>2
    <3> QED
        BY <2>2, <2>4, <3>1 DEF ToldOf
  <2>7. CASE rest # <<>>
    <3>1. Len(rest \o <<p>>) = Len(rest) + 1 /\ Len(rest) \in Nat /\ Len(rest) # 0
          BY <2>2, <2>5, <2>7, EmptySeq, LenProperties
    <3> QED
        BY <2>2, <2>4, <3>1 DEF ToldOf
  <2> QED
      BY <2>6, <2>7
<1>3. CASE ports # <<>> /\ ports[1] # 0
  <2>1. ports[1] \in Nat /\ Len(ports) \in Nat /\ Len(ports) # 0
        BY <1>1, <1>3, EmptySeq, LenProperties
  <2>2. GetPortArg(args) = ports[1] /\ ports[1] # NoPort
        BY <1>3, <2>1, PlanAssumption DEF GetPortArg, HasPortArg
  <2>3. p = ports[1] /\ result = args
        BY <2>2
  <2>4. CASE Len(ports) = 1
    <3>1. ports = <<ports[1]>>
          BY <1>1, <2>4
    <3> QED
        BY <1>3, <2>1, <2>3, <3>1 DEF ToldOf
  <2>5. CASE Len(ports) > 1
        BY <2>1, <2>3, <2>5 DEF ToldOf
  <2>6. Len(ports) = 1 \/ Len(ports) > 1
    <3>1. PICK n : n = Len(ports)
          OBVIOUS
    <3> HIDE DEF ports
    <3>2. n \in Nat /\ n # 0
          BY <2>1, <3>1
    <3>3. n = 1 \/ n > 1
          BY <3>2
    <3> QED
        BY <3>1, <3>3
  <2> QED
      BY <2>4, <2>5, <2>6
<1> QED
    BY <1>2, <1>3

LEMMA AllocateKeeps ==
  ASSUME PlanInv, NEW g \in DOMAIN sets, Allocate(g) PROVE PlanInv'
<1>1. PICK s : s = sets[g]
      OBVIOUS
<1>2. PICK i : i = Len(s.told) + 1
      OBVIOUS
<1>3. PICK args : args = s.servers[i].args
      OBVIOUS
<1>4. PICK p \in IF GetPortArg(args) = NoPort THEN Free ELSE {GetPortArg(args)} :
        sets' = [sets EXCEPT ![g].told = Append(@, p),
                   ![g].servers[i].args =
                     IF GetPortArg(args) = NoPort
                     THEN Plus(RemovePortArg(args), PortArg(p)) ELSE args,
                   ![g].pc = IF i = Len(s.members) THEN "setup" ELSE @]
      BY <1>1, <1>2, <1>3 DEF Allocate
<1>5. PICK a : a = IF GetPortArg(args) = NoPort THEN Plus(RemovePortArg(args), PortArg(p))
                   ELSE args
      OBVIOUS
<1>6. PICK pc : pc = IF i = Len(s.members) THEN "setup" ELSE s.pc
      OBVIOUS
<1>7. PICK u : u = [s.servers[i] EXCEPT !.args = a]
      OBVIOUS
<1>8. PICK ss : ss = [s.servers EXCEPT ![i] = u]
      OBVIOUS
<1>9. PICK told : told = Append(s.told, p)
      OBVIOUS
<1>10. PICK r : r = [[[s EXCEPT !.told = told] EXCEPT !.servers = ss] EXCEPT !.pc = pc]
      OBVIOUS
<1>11. SetIsSound(s) /\ s.pc = "allocate"
      BY <1>1 DEF PlanInv, Allocate
<1>12. s = [pc |-> s.pc, isConfig |-> s.isConfig, members |-> s.members, servers |-> s.servers,
            told |-> s.told, name |-> s.name, log |-> s.log]
      BY <1>11 DEF SetIsSound, IsSet
<1>13. r = [pc |-> pc, isConfig |-> s.isConfig, members |-> s.members, servers |-> ss,
            told |-> told, name |-> s.name, log |-> s.log]
      BY <1>10, <1>12
<1>14. sets' = [sets EXCEPT ![g] = r]
      BY <1>1, <1>4, <1>5, <1>6, <1>7, <1>8, <1>9, <1>10, <1>12
<1>15. plan.storage /\ KnownToStorage(s) /\ Len(s.told) < Len(s.members)
      BY <1>11 DEF SetIsSound, KnownToStorage
<1>16. /\ s.told \in Seq(Nat) /\ Len(s.told) \in Nat /\ Len(s.members) \in Nat
       /\ DOMAIN s.servers = 1..Len(s.members)
      BY <1>11, LenProperties DEF SetIsSound, IsSet
<1>17. i \in DOMAIN s.servers /\ i = Len(s.told) + 1 /\ i \in Nat
      BY <1>2, <1>15, <1>16
<1>18. IsServer(s.servers[i]) /\ s.servers[i].state = "idle"
      BY <1>11, <1>15, <1>17 DEF SetIsSound, IsSet, KnownToStorage
<1>19. p \in Nat /\ IsArgs(a) /\ ToldOf(a, p)
  <2>1. IsArgs(args)
        BY <1>3, <1>18 DEF IsServer
  <2> QED
      BY <1>4, <1>5, <2>1, ChosenPort
<1>20. IsServer(u) /\ u.args = a /\ u.state = "idle"
  <2>1. PICK v : v = s.servers[i]
        OBVIOUS
  <2>2. v = [args |-> v.args, state |-> v.state, port |-> v.port] /\ v.state = "idle"
        BY <1>18, <2>1 DEF IsServer
  <2>3. u = [args |-> a, state |-> v.state, port |-> v.port]
        BY <1>7, <2>1, <2>2
  <2> QED
      BY <1>19, <2>2, <2>3 DEF IsServer
<1>21. /\ DOMAIN ss = DOMAIN s.servers /\ ss[i] = u
       /\ \A j \in DOMAIN s.servers \ {i} : ss[j] = s.servers[j]
       /\ ss = [j \in DOMAIN ss |-> ss[j]]
      BY <1>8, <1>17
<1>22. /\ told \in Seq(Nat) /\ Len(told) = i /\ told[i] = p
       /\ \A j \in 1..Len(s.told) : told[j] = s.told[j]
      BY <1>9, <1>16, <1>17, <1>19, AppendProperties
<1>23. /\ r.pc = pc /\ r.isConfig = s.isConfig /\ r.members = s.members
       /\ r.servers = ss /\ r.told = told /\ r.name = s.name /\ r.log = s.log
      BY <1>13
<1>24. pc = (IF i = Len(s.members) THEN "setup" ELSE "allocate")
      BY <1>6, <1>11
<1>25. IsSet(r)
  <2>1. IsSet(s)
        BY <1>11 DEF SetIsSound
  <2>2. r = [pc |-> r.pc, isConfig |-> r.isConfig, members |-> r.members,
             servers |-> r.servers, told |-> r.told, name |-> r.name, log |-> r.log]
        BY <1>13, <1>23
  <2>3. r.pc \in SetPlaces /\ r.told \in Seq(Nat)
        BY <1>22, <1>23, <1>24 DEF SetPlaces
  <2>4. \A j \in DOMAIN ss : IsServer(ss[j])
        BY <1>20, <1>21, <2>1 DEF IsSet
  <2>5. /\ Len(r.members) \in Nat \ {0}
        /\ DOMAIN r.members = 1..Len(r.members) /\ DOMAIN r.servers = 1..Len(r.members)
        BY <1>21, <1>23, <2>1 DEF IsSet
  <2>6. r.servers = [j \in DOMAIN r.servers |-> r.servers[j]]
        BY <1>21, <1>23
  <2> QED
      BY <1>23, <2>2, <2>3, <2>4, <2>5, <2>6 DEF IsSet
<1>26. KnownToStorage(r)
  <2>1. /\ r.pc = "allocate" => Len(r.told) < Len(r.members)
        /\ r.pc # "allocate" => Len(r.told) = Len(r.members)
        /\ r.pc \in {"allocate", "setup"}
        BY <1>16, <1>17, <1>22, <1>23, <1>24
  <2>2. ASSUME NEW j \in DOMAIN r.servers
        PROVE  /\ j <= Len(r.told) => ToldOf(r.servers[j].args, r.told[j])
               /\ r.servers[j].state = "idle"
    <3>1. CASE j = i
          BY <1>19, <1>20, <1>21, <1>22, <1>23, <3>1
    <3>2. CASE j # i
      <4>1. j \in DOMAIN s.servers /\ r.servers[j] = s.servers[j] /\ j \in Nat /\ j >= 1
            BY <1>16, <1>21, <1>23, <2>2, <3>2
      <4>2. s.servers[j].state = "idle" /\ (j <= Len(s.told) => ToldOf(s.servers[j].args, s.told[j]))
            BY <1>11, <1>15, <4>1 DEF KnownToStorage
      <4>3. ASSUME j <= Len(r.told) PROVE j <= Len(s.told) /\ r.told[j] = s.told[j]
        <5>1. Len(r.told) = Len(s.told) + 1
              BY <1>17, <1>22, <1>23
        <5>2. j <= Len(s.told)
              BY <1>16, <1>17, <3>2, <4>1, <4>3, <5>1
        <5>3. j \in 1..Len(s.told)
              BY <1>16, <4>1, <5>2
        <5> QED
            BY <1>22, <1>23, <5>2, <5>3
      <4> QED
          BY <4>1, <4>2, <4>3
    <3> QED
        BY <3>1, <3>2
  <2> QED
      BY <2>1, <2>2 DEF KnownToStorage
<1>27. Prioritized(r.members)
      BY <1>11, <1>23 DEF SetIsSound
<1>28. SetIsSound(r)
      BY <1>11, <1>15, <1>23, <1>25, <1>26, <1>27 DEF SetIsSound
<1>29. UNCHANGED <<plan, foreignPorts, slsLogs, routers, startOf, addedShards>>
      BY DEF Allocate
<1>30. SetIsSound(r)'
      BY <1>28, <1>29 DEF SetIsSound, KnownToStorage, Prioritized
<1> QED
    BY <1>1, <1>11, <1>14, <1>29, <1>30, SetStep

-----------------------------------------------------------------------------
(* The steps of the whole cluster.                                          *)
LEMMA SameSets ==
  ASSUME UNCHANGED sets
  PROVE  ConfigSets' = ConfigSets /\ ConfigSet' = ConfigSet /\ Shardsvrs' = Shardsvrs
  BY DEF ConfigSets, ConfigSet, Shardsvrs

LEMMA SetsSettleKeeps == ASSUME PlanInv, SetsSettle PROVE PlanInv'
<1>1. /\ startOf = "sets" /\ \A g \in DOMAIN sets : sets[g].pc \in {"up", "failed"}
      /\ startOf' = IF \E g \in DOMAIN sets : sets[g].pc = "failed" THEN "failed"
                    ELSE IF plan.topology # "sharded" THEN "up"
                    ELSE IF ConfigSets = {} THEN "failed" ELSE "mongos"
      /\ UNCHANGED <<plan, foreignPorts, sets, routers, slsLogs, addedShards>>
      BY DEF SetsSettle, Enter
<1>2. addedShards = <<>> /\ \A i \in DOMAIN routers : routers[i].state = "idle"
      BY <1>1 DEF PlanInv, CourseOfPlan
<1>3. Added'
  <2>1. Len(addedShards) = 0 /\ addedShards \in Seq({addedShards[i] : i \in 1..Len(addedShards)})
        BY <1>2
  <2> QED
      BY <1>1, <2>1 DEF Added
<1>4. CourseOfPlan'
      BY <1>1, <1>2, SameSets DEF PlanInv, CourseOfPlan
<1> QED
    BY <1>1, <1>3, <1>4, SetsStay DEF PlanInv

LEMMA StartMongosKeeps == ASSUME PlanInv, StartMongos PROVE PlanInv'
<1>1. /\ startOf = "mongos" /\ startOf' = "mongos"
      /\ UNCHANGED <<plan, foreignPorts, sets, slsLogs, addedShards>>
      BY DEF StartMongos, Enter
<1>2. PICK i \in DOMAIN routers :
        \E u \in IF sets[ConfigSet].name = NoName
                 THEN {[routers[i] EXCEPT !.state = "failed"]} ELSE Starts(routers[i]) :
          routers' = [routers EXCEPT ![i] = u]
      BY DEF StartMongos
<1>3. PICK u : /\ u \in IF sets[ConfigSet].name = NoName
                        THEN {[routers[i] EXCEPT !.state = "failed"]} ELSE Starts(routers[i])
               /\ routers' = [routers EXCEPT ![i] = u]
      BY <1>2
<1>4. PICK s : s = routers[i]
      OBVIOUS
<1>5. IsServer(s)
      BY <1>4 DEF PlanInv, Routers
<1>6. IsServer(u) /\ (u.state = "up" => sets[ConfigSet].name # NoName)
  <2>1. CASE sets[ConfigSet].name = NoName
    <3>1. u = [s EXCEPT !.state = "failed"]
          BY <1>3, <1>4, <2>1
    <3>2. s = [args |-> s.args, state |-> s.state, port |-> s.port]
          BY <1>5 DEF IsServer
    <3>3. u = [args |-> s.args, state |-> "failed", port |-> s.port]
          BY <3>1, <3>2
    <3> QED
        BY <1>5, <3>3 DEF IsServer
  <2>2. CASE sets[ConfigSet].name # NoName
    <3>1. u \in Starts(s)
          BY <1>3, <1>4, <2>2
    <3> QED
        BY <1>5, <2>2, <3>1, StartedServer
  <2> QED
      BY <2>1, <2>2
<1>7. /\ DOMAIN routers' = DOMAIN routers /\ routers'[i] = u
      /\ \A j \in DOMAIN routers \ {i} : routers'[j] = routers[j]
      /\ routers' = [j \in DOMAIN routers' |-> routers'[j]]
      BY <1>3 DEF PlanInv, Routers
<1>8. Routers'
      BY <1>6, <1>7 DEF PlanInv, Routers
<1>9. (\A g \in DOMAIN sets : SetIsSound(sets[g]))'
      BY <1>1 DEF PlanInv, SetIsSound, KnownToStorage, Prioritized
<1>10. CourseOfPlan'
      BY <1>1, <1>6, <1>7, SameSets DEF PlanInv, CourseOfPlan
<1>11. Added'
      BY <1>1 DEF Added
<1> QED
    BY <1>1, <1>8, <1>9, <1>10, <1>11 DEF PlanInv

LEMMA MongosSettleKeeps == ASSUME PlanInv, MongosSettle PROVE PlanInv'
<1>1. /\ startOf = "mongos" /\ "idle" \notin States(routers)
      /\ startOf' = IF "failed" \in States(routers) THEN "failed" ELSE "add"
      /\ UNCHANGED <<plan, foreignPorts, sets, routers, slsLogs, addedShards>>
      BY DEF MongosSettle, Enter
<1>2. /\ addedShards = <<>> /\ plan.topology = "sharded" /\ ConfigSets # {}
      /\ DOMAIN routers # {} /\ \A g \in DOMAIN sets : sets[g].pc = "up"
      /\ \A i \in DOMAIN routers : routers[i].state = "up" => sets[ConfigSet].name # NoName
      BY <1>1 DEF PlanInv, CourseOfPlan
<1>3. Added'
  <2>1. Len(addedShards) = 0 /\ addedShards \in Seq({addedShards[i] : i \in 1..Len(addedShards)})
        BY <1>2
  <2> QED
      BY <1>1, <2>1 DEF Added
<1>4. startOf' = "add" => sets[ConfigSet].name # NoName
  <2> SUFFICES ASSUME startOf' = "add" PROVE sets[ConfigSet].name # NoName
      OBVIOUS
  <2>1. PICK i \in DOMAIN routers : TRUE
        BY <1>2
  <2>2. routers[i].state \in {"idle", "up", "failed"} /\ routers[i].state \in States(routers)
        BY DEF PlanInv, Routers, IsServer, States
  <2> QED
      BY <1>1, <1>2, <2>2
<1>5. CourseOfPlan'
      BY <1>1, <1>2, <1>4, SameSets DEF CourseOfPlan
<1> QED
    BY <1>1, <1>3, <1>5, SetsStay DEF PlanInv

LEMMA AddShardKeeps == ASSUME PlanInv, AddShard PROVE PlanInv'
<1>1. /\ startOf = "add" /\ UNCHANGED <<plan, foreignPorts, sets, routers, slsLogs>>
      BY DEF AddShard
<1>2. /\ plan.topology = "sharded" /\ ConfigSets # {} /\ sets[ConfigSet].name # NoName
      /\ \A g \in DOMAIN sets : sets[g].pc = "up"
      BY <1>1 DEF PlanInv, CourseOfPlan
<1>3. Added
      BY DEF PlanInv
<1>4. ASSUME UNCHANGED addedShards PROVE Added' /\ ToAdd' = ToAdd
  <2>1. Added'
        BY <1>1, <1>3, <1>4, SameSets DEF Added, ShardSpec, SetName, Ports
  <2>2. ToAdd' = ToAdd
        BY <1>1, <1>4, SameSets DEF ToAdd
  <2> QED
      BY <2>1, <2>2
<1>5. CASE startOf' \in {"up", "failed"} /\ UNCHANGED addedShards
           /\ (startOf' = "up" => ToAdd = {})
  <2>1. CourseOfPlan'
        BY <1>1, <1>2, <1>4, <1>5, SameSets DEF CourseOfPlan
  <2> QED
      BY <1>1, <1>4, <1>5, <2>1, SetsStay DEF PlanInv
<1>6. ASSUME NEW g, g = Min(ToAdd), ToAdd # {}, sets[g].name # NoName, UNCHANGED startOf,
             addedShards' = Append(addedShards, ShardSpec(g, sets[g].name))
      PROVE  PlanInv'
  <2>1. g \in ToAdd
    <3>1. ToAdd \subseteq Nat
          BY DEF ToAdd, Shardsvrs, PlanInv
    <3> QED
        BY <1>6, <3>1, Smallest
  <2>2. g \in Shardsvrs /\ g \in DOMAIN sets
        BY <2>1 DEF ToAdd, Shardsvrs
  <2>3. sets[g].name = SetName(g)
        BY <1>6, <2>2 DEF PlanInv, SetIsSound, SetName
  <2>4. PICK e : e = ShardSpec(g, SetName(g))
        OBVIOUS
  <2>5. PICK S : S = {addedShards[i] : i \in 1..Len(addedShards)} \cup {e}
        OBVIOUS
  <2>6. PICK n : n = Len(addedShards)
        OBVIOUS
  <2>7. addedShards \in Seq(S) /\ n \in Nat
    <3>1. addedShards \in Seq({addedShards[i] : i \in 1..Len(addedShards)})
          BY <1>1, <1>3 DEF Added
    <3>2. {addedShards[i] : i \in 1..Len(addedShards)} \subseteq S
          BY <2>5
    <3> HIDE <2>5
    <3> QED
        BY <2>6, <3>1, <3>2, LenProperties, SeqMonotonic
  <2>8. /\ addedShards' \in Seq(S) /\ Len(addedShards') = n + 1
        /\ addedShards'[n + 1] = e
        /\ \A i \in 1..n : addedShards'[i] = addedShards[i]
    <3>1. addedShards' = Append(addedShards, e) /\ e \in S
          BY <1>6, <2>3, <2>4, <2>5
    <3> QED
        BY <2>6, <2>7, <3>1, AppendProperties
  <2>9. e.set = g /\ e = ShardSpec(e.set, SetName(e.set))
        BY <2>4 DEF ShardSpec
  <2>10. \A i \in 1..n : addedShards[i].set # g
    <3>1. DOMAIN addedShards = 1..n
          BY <2>6, <2>7
    <3> QED
        BY <2>1, <3>1 DEF ToAdd
  <2>11. /\ \A i \in 1..n :
              /\ addedShards[i].set \in Shardsvrs
              /\ addedShards[i] = ShardSpec(addedShards[i].set, SetName(addedShards[i].set))
         /\ \A i, j \in 1..n : addedShards[i].set = addedShards[j].set => i = j
        BY <1>1, <1>3, <2>6 DEF Added
  <2>12. Added'
    <3>1. /\ Shardsvrs' = Shardsvrs
          /\ \A h, m : ShardSpec(h, m)' = ShardSpec(h, m) /\ SetName(h)' = SetName(h)
          BY <1>1, SameSets DEF ShardSpec, SetName, Ports
    <3>2. ASSUME NEW i \in 1..(n + 1)
          PROVE  /\ addedShards'[i].set \in Shardsvrs
                 /\ addedShards'[i] = ShardSpec(addedShards'[i].set, SetName(addedShards'[i].set))
      <4>1. CASE i = n + 1
            BY <2>2, <2>8, <2>9, <4>1
      <4>2. CASE i \in 1..n
            BY <2>8, <2>11, <4>2
      <4> QED
          BY <2>7, <4>1, <4>2
    <3>3. ASSUME NEW i \in 1..(n + 1), NEW j \in 1..(n + 1),
                 addedShards'[i].set = addedShards'[j].set
          PROVE  i = j
      <4>1. (i = n + 1 \/ i \in 1..n) /\ (j = n + 1 \/ j \in 1..n)
            BY <2>7
      <4> QED
          BY <2>8, <2>9, <2>10, <2>11, <3>3, <4>1
    <3>4. addedShards' \in Seq({addedShards'[i] : i \in 1..Len(addedShards')})
          BY <2>8
    <3> QED
        BY <2>8, <3>1, <3>2, <3>3, <3>4 DEF Added
  <2>13. CourseOfPlan'
        BY <1>1, <1>2, <1>6, SameSets DEF CourseOfPlan
  <2> QED
      BY <1>1, <2>12, <2>13, SetsStay DEF PlanInv
<1>7. PICK g : g = Min(ToAdd)
      OBVIOUS
<1> QED
    BY <1>5, <1>6, <1>7 DEF AddShard

LEMMA PlanInvNext == PlanInv /\ [PlanNext]_planVars => PlanInv'
<1> SUFFICES ASSUME PlanInv, [PlanNext]_planVars PROVE PlanInv'
    OBVIOUS
<1>1. CASE UNCHANGED planVars
  <2>1. UNCHANGED <<plan, foreignPorts, sets, routers, slsLogs, startOf, addedShards>>
        BY <1>1 DEF planVars
  <2>2. ToAdd' = ToAdd
        BY <2>1, SameSets DEF ToAdd
  <2>3. CourseOfPlan'
        BY <2>1, <2>2, SameSets DEF PlanInv, CourseOfPlan
  <2>4. Added'
        BY <2>1, SameSets DEF PlanInv, Added, ShardSpec, SetName, Ports
  <2> QED
      BY <2>1, <2>3, <2>4, SetsStay DEF PlanInv
<1>2. CASE PlanNext
  <2>1. ASSUME NEW g \in DOMAIN sets,
               \/ Allocate(g) \/ SetUpShard(g) \/ StartMember(g) \/ ServersSettle(g)
               \/ InitiateSet(g) \/ ElectPrimary(g) \/ StopWaiting(g)
        PROVE  PlanInv'
        BY <2>1, AllocateKeeps, SetUpShardKeeps, StartMemberKeeps, ServersSettleKeeps,
           InitiateSetKeeps, ElectPrimaryKeeps, StopWaitingKeeps
  <2> QED
      BY <1>2, <2>1, OthersListenKeeps, CreateEnvironmentKeeps, MakePlanKeeps, SetsSettleKeeps,
         StartMongosKeeps, MongosSettleKeeps, AddShardKeeps DEF PlanNext
<1> QED
    BY <1>1, <1>2

LEMMA PlanInvHolds == PlanSpec => []PlanInv
  BY PlanInvInit, PlanInvNext, PTL DEF PlanSpec

LEMMA ShardsAreAll == PlanInv => ShardsAreAdded
<1> SUFFICES ASSUME PlanInv, startOf = "up", plan.topology = "sharded" PROVE ShardsAreAdded
    BY DEF ShardsAreAdded
<1>1. /\ ConfigSets # {} /\ sets[ConfigSet].name # NoName /\ ToAdd = {} /\ Added
      BY DEF PlanInv, CourseOfPlan
<1>2. DOMAIN addedShards = 1..Len(addedShards)
      BY <1>1 DEF Added
<1>3. \A i \in DOMAIN addedShards : addedShards[i].set \in Shardsvrs
      BY <1>1, <1>2 DEF Added
<1>4. ASSUME NEW g \in Shardsvrs
      PROVE  \E i \in DOMAIN addedShards :
               /\ addedShards[i] = ShardSpec(g, SetName(g))
               /\ \A j \in DOMAIN addedShards : addedShards[j].set = g => j = i
  <2>1. PICK i \in DOMAIN addedShards : addedShards[i].set = g
        BY <1>1 DEF ToAdd
  <2> QED
      BY <1>1, <1>2, <2>1 DEF Added
<1>5. ASSUME Cardinality(ConfigSets) = 1 PROVE OwnSets = DOMAIN sets
  <2>1. IsFiniteSet(ConfigSets)
    <3>1. ConfigSets \subseteq DOMAIN sets /\ IsFiniteSet(DOMAIN sets)
          BY DEF ConfigSets, PlanInv
    <3> QED
        BY <3>1, FS_Subset
  <2>2. PICK c : ConfigSets = {c}
        BY <1>5, <2>1, FS_Singleton
  <2>3. c \in DOMAIN sets /\ c \in Nat
        BY <2>2 DEF ConfigSets, PlanInv
  <2>4. ConfigSet = c
        BY <2>2, <2>3 DEF ConfigSet
  <2> QED
      BY <2>2, <2>3, <2>4 DEF OwnSets, Shardsvrs
<1> QED
    BY <1>1, <1>3, <1>4, <1>5 DEF ShardsAreAdded

(* The member that is taken for the primary.                                *)
MayBePrimary(ms) ==
  {i \in DOMAIN ms : IF ms[i].priority # Unasked THEN ms[i].priority # 0
                     ELSE \A j \in DOMAIN ms : OrElse(ms[j].priority, 0) <= 0}

LEMMA PrimaryIsFirst ==
  ASSUME NEW ms, Len(ms) \in Nat, DOMAIN ms = 1..Len(ms)
  PROVE  PrimaryIndex(ms) = IF MayBePrimary(ms) # {} THEN Min(MayBePrimary(ms)) ELSE 0
<1> DEFINE Chosen(i) == IF ms[i].priority # Unasked THEN ms[i].priority # 0
                        ELSE \A j \in DOMAIN ms : OrElse(ms[j].priority, 0) <= 0
           places == [i \in DOMAIN ms |-> i]
           I == {i \in 1..Len(places) : Chosen(places[i])}
<1>1. PrimaryIndex(ms) = IF I # {} THEN Min(I) ELSE 0
      BY DEF PrimaryIndex, SelectInSeq
<1>2. Len(places) = Len(ms)
  <2>1. DOMAIN places = 1..Len(ms) /\ places = [i \in 1..Len(ms) |-> places[i]]
        OBVIOUS
  <2> HIDE DEF places
  <2> QED
      BY <2>1, ListOf
<1>3. I = MayBePrimary(ms)
      BY <1>2 DEF MayBePrimary
<1> HIDE DEF I
<1> QED
    BY <1>1, <1>3

(* Of members that can be meant the first that may be the primary is no arbiter   *)
(* and has a priority, or is given one.                                           *)
LEMMA MeantIsElectable ==
  ASSUME NEW g, NEW ms, ms = sets[g].members, Len(ms) \in Nat \ {0}, DOMAIN ms = 1..Len(ms),
         Prioritized(ms), plan.rsMembers = Unasked \/ AreMeant(ms)
  PROVE  PrimaryIndex(ms) # 0 /\ Electable(g, PrimaryIndex(ms))
<1>1. ASSUME NEW i \in DOMAIN ms
      PROVE  ms[i].priority = Unasked \/ (ms[i].priority \in Nat /\ ms[i].priority # Unasked)
      BY <1>1, PlanAssumption DEF Prioritized
<1>2. MayBePrimary(ms) \subseteq Nat /\ MayBePrimary(ms) \subseteq DOMAIN ms
      BY DEF MayBePrimary
<1>3. CASE plan.rsMembers = Unasked
  <2>1. 1 \in DOMAIN ms /\ ms[1].priority = 1 /\ ~ms[1].arbiter /\ 1 # Unasked
        BY <1>3, PlanAssumption DEF Prioritized
  <2>2. 1 \in MayBePrimary(ms)
        BY <2>1 DEF MayBePrimary
  <2>3. \A y \in MayBePrimary(ms) : 1 <= y
        BY <1>2
  <2>4. PrimaryIndex(ms) = 1
        BY <1>2, <2>2, <2>3, PrimaryIsFirst, Smallest
  <2> QED
      BY <2>1, <2>4 DEF Electable, Priority, OrElse
<1>4. CASE AreMeant(ms)
  <2>1. PICK d \in DOMAIN ms : /\ ~ms[d].arbiter /\ ms[d].priority # 0
                               /\ plan.storage => ms[d].priority # Unasked
        BY <1>4 DEF AreMeant
  <2>2. MayBePrimary(ms) # {}
    <3>1. CASE ms[d].priority # Unasked
      <4>1. d \in MayBePrimary(ms)
            BY <2>1, <3>1 DEF MayBePrimary
      <4> QED
          BY <4>1
    <3>2. CASE ms[d].priority = Unasked /\ \E j \in DOMAIN ms : ~(OrElse(ms[j].priority, 0) <= 0)
      <4>1. PICK j \in DOMAIN ms : ~(OrElse(ms[j].priority, 0) <= 0)
            BY <3>2
      <4>2. ms[j].priority # Unasked /\ ms[j].priority # 0
            BY <4>1 DEF OrElse
      <4> QED
          BY <4>2 DEF MayBePrimary
    <3>3. CASE ms[d].priority = Unasked /\ \A j \in DOMAIN ms : OrElse(ms[j].priority, 0) <= 0
          BY <3>3 DEF MayBePrimary
    <3> QED
        BY <3>1, <3>2, <3>3
  <2>3. PICK k : k = PrimaryIndex(ms)
        OBVIOUS
  <2>4. k \in MayBePrimary(ms) /\ k \in DOMAIN ms /\ k # 0
        BY <1>2, <2>2, <2>3, PrimaryIsFirst, Smallest
  <2>5. CASE ms[k].priority # Unasked
    <3>1. ms[k].priority # 0 /\ ms[k].priority \in Nat
          BY <1>1, <2>4, <2>5 DEF MayBePrimary
    <3>2. ~ms[k].arbiter
          BY <1>4, <2>4, <3>1 DEF AreMeant
    <3> QED
        BY <2>3, <2>4, <2>5, <3>1, <3>2 DEF Electable, Priority, OrElse
  <2>6. CASE ms[k].priority = Unasked
    <3>1. \A j \in DOMAIN ms : OrElse(ms[j].priority, 0) <= 0
          BY <2>4, <2>6 DEF MayBePrimary
    <3>2. 0 # Unasked
          BY PlanAssumption
    <3>3. ~ms[k].arbiter
          BY <1>4, <2>4, <2>6, <3>2 DEF AreMeant
    <3>4. ~plan.storage
      <4> SUFFICES ASSUME plan.storage PROVE FALSE
          OBVIOUS
      <4>1. PICK p : p = ms[d].priority
            OBVIOUS
      <4>2. p # Unasked /\ p # 0
            BY <2>1, <4>1
      <4>3. p \in Nat /\ p <= 0
            BY <1>1, <3>1, <4>1, <4>2 DEF OrElse
      <4> QED
          BY <4>2, <4>3
    <3> QED
        BY <2>3, <2>4, <2>6, <3>3, <3>4 DEF Electable, Priority, OrElse
  <2> QED
      BY <2>5, <2>6
<1> QED
    BY <1>3, <1>4

(* Whatever the options are, a cluster that is made of them is whole: the storage *)
(* knows every member that runs by its port, a set that is asked for so that it   *)
(* can be meant has a first member that can be elected, and a cluster that is up  *)
(* has every shard, once, as it runs (mongocluster.ts, sls.ts).                   *)
THEOREM Whole == PlanSpec => []ClusterIsWhole
<1>1. ASSUME PlanInv, plan.storage, NEW g \in DOMAIN sets, NEW i \in DOMAIN sets[g].servers,
             sets[g].servers[i].state = "up"
      PROVE  sets[g].told[i] = sets[g].servers[i].port /\ sets[g].log \in slsLogs
      BY <1>1 DEF PlanInv, SetIsSound, KnownToStorage
<1>2. ASSUME PlanInv, NEW g \in DOMAIN sets,
             plan.rsMembers = Unasked \/ AreMeant(sets[g].members)
      PROVE  PrimaryIndex(sets[g].members) # 0 /\ Electable(g, PrimaryIndex(sets[g].members))
  <2>1. SetIsSound(sets[g])
        BY <1>2 DEF PlanInv
  <2>2. PICK ms : ms = sets[g].members
        OBVIOUS
  <2>3. Len(ms) \in Nat \ {0} /\ DOMAIN ms = 1..Len(ms) /\ Prioritized(ms)
        BY <2>1, <2>2 DEF SetIsSound, IsSet
  <2> QED
      BY <1>2, <2>2, <2>3, MeantIsElectable
<1>3. PlanInv => ClusterIsWhole
      BY <1>1, <1>2, ShardsAreAll DEF ClusterIsWhole, StorageKnowsMembers, FirstIsElectable
<1> QED
    BY <1>3, PlanInvHolds, PTL

-----------------------------------------------------------------------------
(* The ports that a cluster is given. P is the cluster's own.               *)
LEMMA PortsTogether ==
  ASSUME NEW s \in Seq(Nat), NEW t \in Seq(Nat), NEW P
  PROVE  P \in ToSet(s \o t) <=> P \in ToSet(s) \/ P \in ToSet(t)
<1>1. /\ Len(s) \in Nat /\ Len(t) \in Nat /\ DOMAIN s = 1..Len(s) /\ DOMAIN t = 1..Len(t)
      /\ DOMAIN (s \o t) = 1..(Len(s) + Len(t))
      /\ \A i \in 1..Len(s) : (s \o t)[i] = s[i]
      /\ \A i \in 1..Len(t) : (s \o t)[Len(s) + i] = t[i]
      BY LenProperties, ConcatProperties
<1>2. ASSUME NEW i \in 1..(Len(s) + Len(t))
      PROVE  \/ i \in 1..Len(s)
             \/ \E j \in 1..Len(t) : i = Len(s) + j
  <2>1. CASE i > Len(s)
    <3>1. i - Len(s) \in 1..Len(t) /\ i = Len(s) + (i - Len(s))
          BY <1>1, <2>1
    <3> QED
        BY <3>1
  <2> QED
      BY <1>1, <2>1
<1>3. ASSUME P \in ToSet(s \o t) PROVE P \in ToSet(s) \/ P \in ToSet(t)
  <2>1. PICK i \in 1..(Len(s) + Len(t)) : P = (s \o t)[i]
        BY <1>1, <1>3 DEF ToSet
  <2> QED
      BY <1>1, <1>2, <2>1 DEF ToSet
<1>4. ASSUME P \in ToSet(s) PROVE P \in ToSet(s \o t)
  <2>1. PICK i \in 1..Len(s) : P = s[i]
        BY <1>1, <1>4 DEF ToSet
  <2>2. i \in DOMAIN (s \o t) /\ (s \o t)[i] = P
        BY <1>1, <2>1
  <2> QED
      BY <2>2 DEF ToSet
<1>5. ASSUME P \in ToSet(t) PROVE P \in ToSet(s \o t)
  <2>1. PICK i \in 1..Len(t) : P = t[i]
        BY <1>1, <1>5 DEF ToSet
  <2>2. Len(s) + i \in DOMAIN (s \o t) /\ (s \o t)[Len(s) + i] = P
        BY <1>1, <2>1
  <2> QED
      BY <2>2 DEF ToSet
<1> QED
    BY <1>3, <1>4, <1>5

LEMMA FewPorts ==
  /\ \A P : P \notin ToSet(<<>>)
  /\ \A P, x : P \in ToSet(<<x>>) <=> P = x
<1>1. DOMAIN <<>> = {} /\ \A x : DOMAIN <<x>> = {1} /\ <<x>>[1] = x
      OBVIOUS
<1> QED
    BY <1>1 DEF ToSet

LEMMA PortsBehind ==
  ASSUME NEW s \in Seq(Nat), s # <<>>, NEW P, P \notin ToSet(s)
  PROVE  P \notin ToSet(Tail(s))
<1>1. Len(s) \in Nat \ {0} /\ DOMAIN s = 1..Len(s)
      BY EmptySeq, LenProperties
<1>2. DOMAIN Tail(s) = 1..(Len(s) - 1) /\ \A i \in 1..(Len(s) - 1) : Tail(s)[i] = s[i + 1]
      BY <1>1, HeadTailProperties
<1>3. ASSUME NEW i \in 1..(Len(s) - 1) PROVE Tail(s)[i] \in ToSet(s)
  <2>1. i + 1 \in DOMAIN s /\ Tail(s)[i] = s[i + 1]
        BY <1>1, <1>2
  <2> QED
      BY <2>1 DEF ToSet
<1> QED
    BY <1>2, <1>3 DEF ToSet

(* Among the members that are made of o the port of o is the primary's alone. *)
LEMMA PortOfMembers ==
  ASSUME NEW o, IsRequest(o), NEW fresh, NEW P \in Nat \ {0},
         o.rsMembers # Unasked =>
           \A i \in DOMAIN o.rsMembers : ~HasPortArg(o.rsMembers[i].args)
  PROVE  LET ms == ProcessRSMembers(o, fresh)
             users == {m \in DOMAIN ms : P \in ToSet(ms[m].args.ports)}
         IN /\ P \notin ToSet(o.args.ports) => users = {}
            /\ o.args.ports = <<P>> => users = {PrimaryIndex(ms)} \ {0}
<1> DEFINE named == IF o.args.name = NoName THEN [o.args EXCEPT !.name = fresh] ELSE o.args
           secondaryArgs == Plus(RemovePortArg(named), PortArg(0))
           ms == ProcessRSMembers(o, fresh)
<1>1. IsArgs(named) /\ named.ports = o.args.ports /\ IsArgs(o.args)
  <2>1. o.args = [ports |-> o.args.ports, roles |-> o.args.roles, name |-> o.args.name]
        BY DEF IsRequest, IsArgs, Args
  <2> QED
      BY <2>1, NamedArgs DEF IsRequest
<1> HIDE DEF named
<1>2. /\ IsArgs(secondaryArgs)
      /\ P \notin ToSet(o.args.ports) => P \notin ToSet(secondaryArgs.ports)
      /\ o.args.ports = <<P>> => P \notin ToSet(secondaryArgs.ports)
  <2> DEFINE removed == RemovePortArg(named)
  <2>1. /\ IsArgs(removed) /\ IsArgs(PortArg(0)) /\ PortArg(0).ports = <<0>>
        /\ removed.ports = IF named.ports = <<>> THEN <<>> ELSE Tail(named.ports)
        BY <1>1, RemovedPort, PortArgs
  <2> HIDE DEF removed
  <2>2. IsArgs(secondaryArgs) /\ secondaryArgs.ports = removed.ports \o <<0>>
        BY <2>1, PlusArgs DEF removed
  <2>3. removed.ports \in Seq(Nat) /\ <<0>> \in Seq(Nat) /\ o.args.ports \in Seq(Nat)
        BY <1>1, <2>1 DEF IsArgs
  <2>4. P \in ToSet(secondaryArgs.ports) <=> P \in ToSet(removed.ports)
        BY <2>2, <2>3, FewPorts, PortsTogether
  <2>5. P \notin ToSet(o.args.ports) => P \notin ToSet(removed.ports)
        BY <1>1, <2>1, <2>3, PortsBehind, FewPorts
  <2>6. ASSUME o.args.ports = <<P>> PROVE P \notin ToSet(removed.ports)
    <3>1. removed.ports = <<>>
          BY <1>1, <2>1, <2>6
    <3> QED
        BY <3>1, FewPorts
  <2> QED
      BY <2>2, <2>4, <2>5, <2>6
<1>3. AreMembers(ms)
      BY MembersAreMade
<1> HIDE DEF secondaryArgs
<1>4. CASE o.rsMembers = Unasked
  <2> DEFINE first == NewMember(1, FALSE, named)
             second == NewMember(0, FALSE, secondaryArgs)
             third == NewMember(0, TRUE, secondaryArgs)
             k == OrElse(o.secondaries, 2)
             l == OrElse(o.arbiters, 0)
             rest == [i \in 1..k |-> second] \o [i \in 1..l |-> third]
             two == <<first>> \o [i \in 1..k |-> second]
  <2>1. k \in Nat /\ l \in Nat
        BY DEF IsRequest, OrElse
  <2>2. ms = <<first>> \o [i \in 1..k |-> second] \o [i \in 1..l |-> third]
        BY <1>4 DEF ProcessRSMembers, named, secondaryArgs
  <2>3. /\ first.args = named /\ first.priority = 1 /\ second.args = secondaryArgs
        /\ third.args = secondaryArgs
        BY DEF NewMember
  <2> HIDE DEF first, second, third, k, l
  <2> DEFINE kinds == {first, second, third}
             seconds == [i \in 1..k |-> second]
             thirds == [i \in 1..l |-> third]
  <2>4. /\ <<first>> \in Seq(kinds) /\ seconds \in Seq(kinds) /\ thirds \in Seq(kinds)
        /\ Len(seconds) = k /\ Len(thirds) = l
        /\ \A i \in 1..k : seconds[i] = second
        /\ \A i \in 1..l : thirds[i] = third
        BY <2>1
  <2> HIDE DEF seconds, thirds
  <2>5. /\ two = <<first>> \o seconds /\ ms = two \o thirds
        BY <2>2 DEF seconds, thirds
  <2> HIDE DEF ms, two, kinds
  <2>6. /\ two \in Seq(kinds) /\ Len(two) = 1 + k /\ two[1] = first
        /\ \A i \in 2..(1 + k) : two[i] = second
    <3>1. two \in Seq(kinds) /\ Len(two) = 1 + k /\ two[1] = first
          BY <2>1, <2>4, <2>5
    <3>2. ASSUME NEW i \in 2..(1 + k) PROVE two[i] = second
      <4>1. two[i] = seconds[i - 1] /\ i - 1 \in 1..k
            BY <2>1, <2>4, <2>5, <3>2
      <4> QED
          BY <2>4, <4>1
    <3> QED
        BY <3>1, <3>2
  <2>7. /\ Len(ms) = 1 + k + l /\ DOMAIN ms = 1..(1 + k + l) /\ ms[1] = first
        /\ \A i \in 2..(1 + k + l) : ms[i] \in {second, third}
    <3>1. ms \in Seq(kinds) /\ Len(ms) = 1 + k + l /\ ms[1] = first
      <4>0. two \in Seq(kinds) /\ thirds \in Seq(kinds) /\ ms = two \o thirds
            BY <2>4, <2>5, <2>6
      <4>1. /\ ms \in Seq(kinds) /\ Len(ms) = Len(two) + Len(thirds)
            /\ \A i \in 1..Len(two) : ms[i] = two[i]
            BY <4>0
      <4>2. Len(ms) = 1 + k + l /\ 1 \in 1..Len(two)
            BY <2>1, <2>4, <2>6, <4>1
      <4> QED
          BY <2>6, <4>1, <4>2
    <3>2. ASSUME NEW i \in 2..(1 + k + l) PROVE ms[i] \in {second, third}
      <4>1. CASE i <= 1 + k
        <5>1. i \in 1..Len(two) /\ i \in 2..(1 + k)
              BY <2>1, <2>6, <4>1
        <5>2. ms[i] = two[i]
              BY <2>4, <2>5, <2>6, <5>1
        <5> QED
            BY <2>6, <5>1, <5>2
      <4>2. CASE i > 1 + k
        <5>1. i - (1 + k) \in 1..l
              BY <2>1, <4>2
        <5>2. ms[i] = thirds[i - (1 + k)]
              BY <2>1, <2>4, <2>5, <2>6, <4>2
        <5> QED
            BY <2>4, <5>1, <5>2
      <4> QED
          BY <2>1, <4>1, <4>2
    <3> QED
        BY <3>1, <3>2, LenProperties
  <2>8. \A i \in DOMAIN ms : ms[i].args = IF i = 1 THEN named ELSE secondaryArgs
        BY <2>1, <2>3, <2>7
  <2>9. PrimaryIndex(ms) = 1
    <3>1. 1 \in MayBePrimary(ms) /\ MayBePrimary(ms) \subseteq Nat \ {0}
          BY <2>1, <2>3, <2>7, PlanAssumption DEF MayBePrimary
    <3>2. Min(MayBePrimary(ms)) = 1
      <4>1. Min(MayBePrimary(ms)) \in Nat \ {0} /\ Min(MayBePrimary(ms)) <= 1
            BY <3>1, Smallest
      <4> QED
          BY <4>1
    <3>3. PrimaryIndex(ms) = Min(MayBePrimary(ms))
          BY <1>3, <3>1, PrimaryIsFirst DEF AreMembers
    <3> QED
        BY <3>2, <3>3
  <2>10. P \notin ToSet(o.args.ports) =>
           \A i \in DOMAIN ms : P \notin ToSet(ms[i].args.ports)
        BY <1>1, <1>2, <2>8
  <2>11. o.args.ports = <<P>> =>
           \A i \in DOMAIN ms : P \in ToSet(ms[i].args.ports) <=> i = 1
        BY <1>1, <1>2, <2>8, FewPorts
  <2>12. 1 \in DOMAIN ms
        BY <2>1, <2>7
  <2>13. o.args.ports = <<P>> =>
           {m \in DOMAIN ms : P \in ToSet(ms[m].args.ports)} = {PrimaryIndex(ms)} \ {0}
        BY <2>9, <2>11, <2>12
  <2> QED
      BY <2>10, <2>13 DEF ms
<1>5. CASE o.rsMembers # Unasked
  <2> DEFINE asked == o.rsMembers
             ArgsAt(i) == Plus(asked[i].args,
                            IF HasPortArg(asked[i].args) \/ i = PrimaryIndex(asked)
                            THEN named ELSE secondaryArgs)
  <2>1. asked \in Seq(MemberOptions) /\ asked # <<>>
        BY <1>5 DEF IsRequest
  <2>2. ms = [i \in DOMAIN asked |->
                NewMember(asked[i].priority, asked[i].arbiter, ArgsAt(i))]
        BY <1>5 DEF ProcessRSMembers, named, secondaryArgs
  <2>3. ASSUME NEW i \in DOMAIN asked
        PROVE  ArgsAt(i).ports = IF i = PrimaryIndex(asked) THEN named.ports
                                 ELSE secondaryArgs.ports
    <3>1. asked[i] \in MemberOptions /\ ~HasPortArg(asked[i].args)
          BY <1>5, <2>1, <2>3
    <3>2. IsArgs(asked[i].args) /\ asked[i].args.ports = <<>>
          BY <3>1, Argument DEF MemberOptions, HasPortArg
    <3> DEFINE more == IF HasPortArg(asked[i].args) \/ i = PrimaryIndex(asked)
                       THEN named ELSE secondaryArgs
    <3>3. /\ IsArgs(more)
          /\ more = IF i = PrimaryIndex(asked) THEN named ELSE secondaryArgs
          BY <1>1, <1>2, <3>1
    <3> HIDE DEF more
    <3>4. Plus(asked[i].args, more).ports = <<>> \o more.ports
          BY <3>2, <3>3, PlusArgs
    <3>5. <<>> \o more.ports = more.ports
          BY <3>3, ConcatEmptySeq DEF IsArgs
    <3> QED
        BY <3>3, <3>4, <3>5 DEF more
  <2>4. DOMAIN asked = 1..Len(asked) /\ Len(asked) \in Nat
        BY <2>1, LenProperties
  <2> HIDE DEF asked, ArgsAt
  <2>5. /\ DOMAIN ms = DOMAIN asked
        /\ \A i \in DOMAIN asked : ms[i].priority = asked[i].priority /\ ms[i].args = ArgsAt(i)
        BY <2>2 DEF NewMember
  <2> HIDE DEF ms
  <2>6. PrimaryIndex(ms) = PrimaryIndex(asked)
    <3>1. MayBePrimary(ms) = MayBePrimary(asked)
          BY <2>5 DEF MayBePrimary
    <3> QED
        BY <1>3, <2>4, <3>1, PrimaryIsFirst DEF AreMembers
  <2>7. PrimaryIndex(asked) \in {0} \cup DOMAIN asked /\ 0 \notin DOMAIN asked
        BY <2>4, PrimaryIsMember
  <2>8. P \notin ToSet(o.args.ports) =>
          \A i \in DOMAIN ms : P \notin ToSet(ms[i].args.ports)
        BY <1>1, <1>2, <2>3, <2>5
  <2>9. o.args.ports = <<P>> =>
          \A i \in DOMAIN ms : P \in ToSet(ms[i].args.ports) <=> i = PrimaryIndex(asked)
        BY <1>1, <1>2, <2>3, <2>5, FewPorts
  <2>10. o.args.ports = <<P>> =>
           {m \in DOMAIN ms : P \in ToSet(ms[m].args.ports)} = {PrimaryIndex(ms)} \ {0}
        BY <2>5, <2>6, <2>7, <2>9
  <2> QED
      BY <2>8, <2>10 DEF ms
<1> QED
    BY <1>4, <1>5

(* Shards are not given the port of the cluster.                            *)
LEMMA PortOfShards ==
  ASSUME NEW o \in PlanOptions, o.topology = "sharded", NEW P \in Nat \ {0},
         o.args.ports = <<P>>,
         o.shards # Unasked /\ "list" \in DOMAIN o.shards =>
           \A i \in DOMAIN o.shards.list : P \notin ToSet(o.shards.list[i].ports)
  PROVE  \A i \in DOMAIN ShardOptions(o) : P \notin ToSet(ShardOptions(o)[i].args.ports)
<1> DEFINE listed == o.shards # Unasked /\ "list" \in DOMAIN o.shards
           number == IF o.shards = Unasked THEN 3 ELSE o.shards.number
           asked == IF listed THEN o.shards.list ELSE [i \in 1..(number + 1) |-> NoArgs]
           Role(i) == Args(<<>>, IF asked[i].roles # {} THEN {}
                                 ELSE IF i = 1 THEN {"configsvr"} ELSE {"shardsvr"}, NoName)
           ArgsAt(i) == Plus(Plus(RemovePortArg(o.args), asked[i]), Role(i))
<1>1. \A i \in DOMAIN asked : IsArgs(asked[i]) /\ P \notin ToSet(asked[i].ports)
  <2>1. CASE listed
    <3>1. o.shards.list \in Seq(Arguments)
      <4>1. o.shards \in {Unasked} \cup [number : Nat] \cup [list : Seq(Arguments) \ {<<>>}]
            BY DEF PlanOptions
      <4>2. CASE o.shards \in [list : Seq(Arguments) \ {<<>>}]
            BY <4>2
      <4>3. CASE o.shards \in [number : Nat]
            BY <2>1, <4>3
      <4> QED
          BY <2>1, <4>1, <4>2, <4>3
    <3>2. asked = o.shards.list
          BY <2>1
    <3>3. \A i \in DOMAIN asked : P \notin ToSet(asked[i].ports)
          BY <2>1, <3>2
    <3> HIDE DEF asked
    <3>4. \A i \in DOMAIN asked : asked[i] \in Arguments
          BY <3>1, <3>2
    <3> QED
        BY <3>3, <3>4, Argument
  <2>2. CASE ~listed
    <3>1. asked = [i \in 1..(number + 1) |-> NoArgs]
          BY <2>2
    <3> HIDE DEF asked, number
    <3>2. \A i \in DOMAIN asked : asked[i] = NoArgs
          BY <3>1
    <3>3. NoArgs.ports = <<>>
          BY DEF NoArgs, Args
    <3> QED
        BY <3>2, <3>3, PortArgs, FewPorts
  <2> QED
      BY <2>1, <2>2
<1>2. ShardOptions(o) =
        [i \in DOMAIN asked |-> [o EXCEPT !.topology = "replset", !.args = ArgsAt(i)]]
      BY DEF ShardOptions
<1> HIDE DEF asked
<1>3. ASSUME NEW i \in DOMAIN asked PROVE P \notin ToSet(ArgsAt(i).ports)
  <2>1. IsArgs(Role(i)) /\ Role(i).ports = <<>>
    <3> DEFINE roles == IF asked[i].roles # {} THEN {}
                        ELSE IF i = 1 THEN {"configsvr"} ELSE {"shardsvr"}
    <3> HIDE DEF roles
    <3>1. <<>> \in Seq(Nat)
          OBVIOUS
    <3>2. IsArgs(Args(<<>>, roles, NoName)) /\ Args(<<>>, roles, NoName).ports = <<>>
          BY <3>1 DEF IsArgs, Args
    <3> QED
        BY <3>2 DEF roles
  <2>2. IsArgs(RemovePortArg(o.args)) /\ RemovePortArg(o.args).ports = <<>>
    <3>1. IsArgs(o.args)
          BY Argument DEF PlanOptions
    <3>2. o.args.ports # <<>> /\ Tail(o.args.ports) = <<>>
          OBVIOUS
    <3> QED
        BY <3>1, <3>2, RemovedPort
  <2> HIDE DEF Role
  <2>3. /\ IsArgs(Plus(RemovePortArg(o.args), asked[i]))
        /\ Plus(RemovePortArg(o.args), asked[i]).ports = <<>> \o asked[i].ports
        BY <1>1, <2>2, PlusArgs
  <2>4. P \notin ToSet(<<>> \o asked[i].ports)
        BY <1>1, ConcatEmptySeq DEF IsArgs
  <2>5. ArgsAt(i).ports = (<<>> \o asked[i].ports) \o <<>>
    <3>1. PICK a, b : a = Plus(RemovePortArg(o.args), asked[i]) /\ b = Role(i)
          OBVIOUS
    <3>2. ArgsAt(i) = Plus(a, b)
          BY <3>1
    <3>3. IsArgs(a) /\ a.ports = <<>> \o asked[i].ports
          BY <2>3, <3>1
    <3>4. IsArgs(b) /\ b.ports = <<>>
          BY <2>1, <3>1
    <3> HIDE DEF ArgsAt
    <3>5. Plus(a, b).ports = a.ports \o b.ports
          BY <3>3, <3>4, PlusArgs
    <3> QED
        BY <3>2, <3>3, <3>4, <3>5
  <2>6. <<>> \o asked[i].ports \in Seq(Nat)
        BY <2>3 DEF IsArgs
  <2>7. (<<>> \o asked[i].ports) \o <<>> = <<>> \o asked[i].ports
        BY <2>6, ConcatEmptySeq
  <2> QED
      BY <2>4, <2>5, <2>7
<1> HIDE DEF ArgsAt
<1>4. ASSUME NEW i \in DOMAIN asked PROVE ShardOptions(o)[i].args = ArgsAt(i)
  <2>1. o = [topology |-> o.topology, args |-> o.args, storage |-> o.storage,
             secondaries |-> o.secondaries, arbiters |-> o.arbiters, rsMembers |-> o.rsMembers,
             shards |-> o.shards, mongosArgs |-> o.mongosArgs]
        BY DEF PlanOptions
  <2>2. ShardOptions(o)[i] = [o EXCEPT !.topology = "replset", !.args = ArgsAt(i)]
        BY <1>2
  <2> QED
      BY <2>1, <2>2
<1>5. DOMAIN ShardOptions(o) = DOMAIN asked
      BY <1>2
<1> QED
    BY <1>3, <1>4, <1>5

(* The first mongos is, unless it has a port of its own.                    *)
LEMMA PortOfMongos ==
  ASSUME NEW o \in PlanOptions, NEW P \in Nat \ {0}, o.args.ports = <<P>>,
         \A i \in DOMAIN o.mongosArgs : P \notin ToSet(o.mongosArgs[i].ports)
  PROVE  {i \in DOMAIN o.mongosArgs : P \in ToSet(MongosArgs(o)[i].ports)} =
           IF HasPortArg(o.mongosArgs[1]) THEN {} ELSE {1}
<1>1. o.mongosArgs \in Seq(Arguments) /\ o.mongosArgs # <<>> /\ IsArgs(o.args)
      BY Argument DEF PlanOptions
<1>2. IsArgs(RemovePortArg(o.args)) /\ RemovePortArg(o.args).ports = <<>>
  <2>1. o.args.ports # <<>> /\ Tail(o.args.ports) = <<>>
        OBVIOUS
  <2> QED
      BY <1>1, <2>1, RemovedPort
<1>3. ASSUME NEW i \in DOMAIN o.mongosArgs
      PROVE  P \in ToSet(MongosArgs(o)[i].ports) <=> i = 1 /\ ~HasPortArg(o.mongosArgs[1])
  <2> DEFINE own == o.mongosArgs[i]
             first == IF i = 1 /\ ~HasPortArg(o.mongosArgs[1]) THEN o.args
                      ELSE RemovePortArg(o.args)
  <2>1. IsArgs(first) /\ IsArgs(own)
        BY <1>1, <1>2, <1>3, Argument
  <2>2. MongosArgs(o)[i] = Plus(first, own)
        BY <1>3 DEF MongosArgs
  <2>3. P \in ToSet(first.ports) <=> i = 1 /\ ~HasPortArg(o.mongosArgs[1])
        BY <1>2, FewPorts
  <2>4. P \notin ToSet(own.ports)
        BY <1>3
  <2> HIDE DEF first, own
  <2>5. Plus(first, own).ports = first.ports \o own.ports
        BY <2>1, PlusArgs
  <2>6. P \in ToSet(first.ports \o own.ports) <=> P \in ToSet(first.ports)
        BY <2>1, <2>4, PortsTogether DEF IsArgs
  <2> QED
      BY <2>2, <2>3, <2>5, <2>6
<1>4. 1 \in DOMAIN o.mongosArgs
  <2>1. Len(o.mongosArgs) \in Nat \ {0} /\ DOMAIN o.mongosArgs = 1..Len(o.mongosArgs)
        BY <1>1, EmptySeq, LenProperties
  <2> QED
      BY <2>1
<1> QED
    BY <1>3, <1>4

(* A set and a mongos that are new.                                         *)
LEMMA NewOnes ==
  /\ \A i, ms, c : ReplicaSet(i, ms, c).members = ms
  /\ \A a : NewServer(a).args = a
  BY DEF ReplicaSet, NewServer

UsersOf(ss, rs, P) ==
  {n \in UNION {{g} \X DOMAIN ss[g].members : g \in DOMAIN ss} :
     P \in ToSet(ss[n[1]].members[n[2]].args.ports)}
  \cup {<<0, i>> : i \in {j \in DOMAIN rs : P \in ToSet(rs[j].args.ports)}}

LEMMA UsersAre ==
  ASSUME NEW ss, NEW rs, NEW P
  PROVE  \A x : x \in UsersOf(ss, rs, P) <=>
           \/ \E g \in DOMAIN ss : \E m \in DOMAIN ss[g].members :
                x = <<g, m>> /\ P \in ToSet(ss[g].members[m].args.ports)
           \/ \E i \in DOMAIN rs : x = <<0, i>> /\ P \in ToSet(rs[i].args.ports)
  BY DEF UsersOf

(* Who has the port is decided when the plan is made; no later step changes the *)
(* members of a set or the arguments of a mongos.                               *)
PortGiven ==
  /\ OneServerHasThePort
  /\ sets # <<>> /\ plan.topology = "replset" => 1 \in DOMAIN sets

-----------------------------------------------------------------------------
(* The members of the sets, and the arguments of the mongos processes, stay. *)
SamePorts ==
  /\ plan' = plan /\ DOMAIN sets' = DOMAIN sets /\ DOMAIN routers' = DOMAIN routers
  /\ \A g \in DOMAIN sets : sets'[g].members = sets[g].members
  /\ \A i \in DOMAIN routers : routers'[i].args = routers[i].args

LEMMA UsersStay == ASSUME PlanInv, PlanInv', PortGiven, SamePorts PROVE PortGiven'
<1>1. MainPort' = MainPort /\ GivenOnce' = GivenOnce
      BY DEF SamePorts, MainPort, GivenOnce
<1>2. Users' = Users
  <2>1. Users = UsersOf(sets, routers, MainPort) /\ Users' = UsersOf(sets', routers', MainPort')
        BY DEF Users, UsersOf
  <2> DEFINE Uses(x, ss, rs) ==
               \/ \E g \in DOMAIN ss : \E m \in DOMAIN ss[g].members :
                    x = <<g, m>> /\ MainPort \in ToSet(ss[g].members[m].args.ports)
               \/ \E i \in DOMAIN rs : x = <<0, i>> /\ MainPort \in ToSet(rs[i].args.ports)
  <2>2. /\ \A x : x \in UsersOf(sets, routers, MainPort) <=> Uses(x, sets, routers)
        /\ \A x : x \in UsersOf(sets', routers', MainPort) <=> Uses(x, sets', routers')
        BY UsersAre
  <2>3. ASSUME NEW x PROVE Uses(x, sets', routers') <=> Uses(x, sets, routers)
        BY DEF SamePorts
  <2> HIDE DEF Uses
  <2>4. \A x : x \in UsersOf(sets', routers', MainPort) <=> x \in UsersOf(sets, routers, MainPort)
        BY <2>2, <2>3
  <2>5. UsersOf(sets', routers', MainPort) = UsersOf(sets, routers, MainPort)
        BY <2>4
  <2> QED
      BY <1>1, <2>1, <2>5
<1>3. sets' # <<>> => sets # <<>>
      BY DEF SamePorts, PlanInv
<1>4. sets # <<>> /\ plan.topology = "replset" =>
        1 \in DOMAIN sets /\ sets'[1].members = sets[1].members
      BY DEF PortGiven, SamePorts
<1>5. plan' = plan /\ DOMAIN sets' = DOMAIN sets
      BY DEF SamePorts
<1>6. plan.topology \in {"standalone", "replset", "sharded"}
      BY DEF PlanInv, PlanOptions
<1>7. MainPort # NoPort /\ sets # <<>> /\ GivenOnce =>
        Users = CASE plan.topology = "standalone" -> {<<1, 1>>}
                  [] plan.topology = "replset" ->
                       {1} \X ({PrimaryIndex(sets[1].members)} \ {0})
                  [] plan.topology = "sharded" ->
                       IF HasPortArg(plan.mongosArgs[1]) THEN {} ELSE {<<0, 1>>}
      BY DEF PortGiven, OneServerHasThePort
<1>8. (MainPort # NoPort)' = (MainPort # NoPort)
      BY <1>1
<1> DEFINE expected(k) == CASE plan.topology = "standalone" -> {<<1, 1>>}
                  [] plan.topology = "replset" -> {1} \X ({k} \ {0})
                  [] plan.topology = "sharded" ->
                       IF HasPortArg(plan.mongosArgs[1]) THEN {} ELSE {<<0, 1>>}
<1>9. OneServerHasThePort'
  <2> SUFFICES ASSUME MainPort' # NoPort, sets' # <<>>, GivenOnce'
               PROVE  Users' = CASE plan'.topology = "standalone" -> {<<1, 1>>}
                  [] plan'.topology = "replset" ->
                       {1} \X ({PrimaryIndex(sets'[1].members)} \ {0})
                  [] plan'.topology = "sharded" ->
                       IF HasPortArg(plan'.mongosArgs[1]) THEN {} ELSE {<<0, 1>>}
      BY DEF OneServerHasThePort
  <2>1. Users' = expected(PrimaryIndex(sets[1].members))
        BY <1>1, <1>2, <1>3, <1>7
  <2> QED
      BY <1>4, <1>5, <1>3, <1>6, <2>1
<1> QED
    BY <1>3, <1>4, <1>5, <1>9 DEF PortGiven

(* A step of a set leaves its members as they are.                           *)
LEMMA SetKeepsPorts ==
  ASSUME PlanInv, NEW g \in DOMAIN sets, NEW r, sets' = [sets EXCEPT ![g] = r],
         r.members = sets[g].members, UNCHANGED <<plan, routers>>
  PROVE  SamePorts
<1>1. /\ DOMAIN sets' = DOMAIN sets /\ sets'[g] = r
      /\ \A h \in DOMAIN sets \ {g} : sets'[h] = sets[h]
      BY DEF PlanInv
<1> QED
    BY <1>1 DEF SamePorts

LEMMA AdvanceKeepsPorts ==
  ASSUME PlanInv, NEW g \in DOMAIN sets, NEW pc,
         sets' = [sets EXCEPT ![g].pc = pc], UNCHANGED <<plan, routers>>
  PROVE  SamePorts
<1>1. PICK s : s = sets[g]
      OBVIOUS
<1>2. PICK r : r = [s EXCEPT !.pc = pc]
      OBVIOUS
<1>3. s = [pc |-> s.pc, isConfig |-> s.isConfig, members |-> s.members, servers |-> s.servers,
           told |-> s.told, name |-> s.name, log |-> s.log]
      BY <1>1 DEF PlanInv, SetIsSound, IsSet
<1>4. r.members = s.members
      BY <1>2, <1>3
<1>5. sets' = [sets EXCEPT ![g] = r]
      BY <1>1, <1>2
<1> QED
    BY <1>1, <1>4, <1>5, SetKeepsPorts

LEMMA SetStepsKeepPorts ==
  ASSUME PlanInv, NEW g \in DOMAIN sets,
         \/ Allocate(g) \/ SetUpShard(g) \/ StartMember(g) \/ ServersSettle(g)
         \/ InitiateSet(g) \/ ElectPrimary(g) \/ StopWaiting(g)
  PROVE  SamePorts
<1>1. PICK s : s = sets[g]
      OBVIOUS
<1>2. s = [pc |-> s.pc, isConfig |-> s.isConfig, members |-> s.members, servers |-> s.servers,
           told |-> s.told, name |-> s.name, log |-> s.log]
      BY <1>1 DEF PlanInv, SetIsSound, IsSet
<1>3. CASE Allocate(g)
  <2>1. PICK told, i, a, pc :
          sets' = [sets EXCEPT ![g].told = told, ![g].servers[i].args = a, ![g].pc = pc]
    <3>1. PICK i : i = Len(sets[g].told) + 1
          OBVIOUS
    <3>2. PICK asked : asked = GetPortArg(sets[g].servers[i].args)
          OBVIOUS
    <3>3. PICK p \in IF asked = NoPort THEN Free ELSE {asked} :
            sets' = [sets EXCEPT ![g].told = Append(@, p),
                       ![g].servers[i].args =
                         IF asked = NoPort
                         THEN Plus(RemovePortArg(sets[g].servers[i].args), PortArg(p))
                         ELSE sets[g].servers[i].args,
                       ![g].pc = IF i = Len(sets[g].members) THEN "setup" ELSE @]
          BY <1>3, <3>1, <3>2 DEF Allocate
    <3>4. PICK told, a, pc :
            /\ told = Append(sets[g].told, p)
            /\ a = IF asked = NoPort
                   THEN Plus(RemovePortArg(sets[g].servers[i].args), PortArg(p))
                   ELSE sets[g].servers[i].args
            /\ pc = IF i = Len(sets[g].members) THEN "setup" ELSE sets[g].pc
          OBVIOUS
    <3>5. sets' = [sets EXCEPT ![g].told = told, ![g].servers[i].args = a, ![g].pc = pc]
          BY <1>1, <1>2, <3>3, <3>4
    <3> QED
        BY <3>5
  <2>2. PICK r : r = [[[s EXCEPT !.told = told] EXCEPT !.servers =
                         [s.servers EXCEPT ![i] = [s.servers[i] EXCEPT !.args = a]]]
                        EXCEPT !.pc = pc]
        OBVIOUS
  <2>3. r.members = s.members
        BY <1>2, <2>2
  <2>4. sets' = [sets EXCEPT ![g] = r]
        BY <1>1, <1>2, <2>1, <2>2
  <2>5. UNCHANGED <<plan, routers>>
        BY <1>3 DEF Allocate
  <2> QED
      BY <1>1, <2>3, <2>4, <2>5, SetKeepsPorts
<1>4. CASE SetUpShard(g)
  <2>1. PICK started \in BOOLEAN :
          sets' = [sets EXCEPT ![g].pc =
                     IF started /\ HasMetadataService THEN "serve" ELSE "failed"]
        BY <1>4 DEF SetUpShard
  <2>2. PICK pc : pc = IF started /\ HasMetadataService THEN "serve" ELSE "failed"
        OBVIOUS
  <2>3. sets' = [sets EXCEPT ![g].pc = pc] /\ UNCHANGED <<plan, routers>>
        BY <1>4, <2>1, <2>2 DEF SetUpShard
  <2> QED
      BY <2>3, AdvanceKeepsPorts
<1>5. CASE StartMember(g)
  <2>1. PICK i \in DOMAIN sets[g].servers : \E u \in Starts(sets[g].servers[i]) :
          sets' = [sets EXCEPT ![g].servers[i] = u]
        BY <1>5 DEF StartMember
  <2>2. PICK u : sets' = [sets EXCEPT ![g].servers[i] = u]
        BY <2>1
  <2>3. PICK r : r = [s EXCEPT !.servers = [s.servers EXCEPT ![i] = u]]
        OBVIOUS
  <2>4. r.members = s.members
        BY <1>2, <2>3
  <2>5. sets' = [sets EXCEPT ![g] = r] /\ UNCHANGED <<plan, routers>>
        BY <1>1, <1>5, <2>2, <2>3 DEF StartMember
  <2> QED
      BY <1>1, <2>4, <2>5, SetKeepsPorts
<1>6. CASE ElectPrimary(g)
  <2>1. PICK r : r = [[s EXCEPT !.pc = "up"] EXCEPT !.name = SetName(g)]
        OBVIOUS
  <2>2. r.members = s.members
        BY <1>2, <2>1
  <2>3. sets' = [sets EXCEPT ![g] = r] /\ UNCHANGED <<plan, routers>>
        BY <1>1, <1>6, <2>1 DEF ElectPrimary
  <2> QED
      BY <1>1, <2>2, <2>3, SetKeepsPorts
<1>7. ASSUME NEW pc, Advance(g, pc) PROVE SamePorts
      BY <1>7, AdvanceKeepsPorts DEF Advance
<1>8. CASE ServersSettle(g)
      BY <1>7, <1>8 DEF ServersSettle
<1>9. CASE InitiateSet(g)
      BY <1>7, <1>9 DEF InitiateSet
<1>10. CASE StopWaiting(g)
      BY <1>7, <1>10 DEF StopWaiting
<1> QED
    BY <1>3, <1>4, <1>5, <1>6, <1>8, <1>9, <1>10

LEMMA StartMongosKeepsPorts == ASSUME PlanInv, StartMongos PROVE SamePorts
<1>1. UNCHANGED <<plan, sets>>
      BY DEF StartMongos, Enter
<1>2. PICK i \in DOMAIN routers :
        \E u \in IF sets[ConfigSet].name = NoName
                 THEN {[routers[i] EXCEPT !.state = "failed"]} ELSE Starts(routers[i]) :
          routers' = [routers EXCEPT ![i] = u]
      BY DEF StartMongos
<1>3. PICK u : /\ u \in IF sets[ConfigSet].name = NoName
                        THEN {[routers[i] EXCEPT !.state = "failed"]} ELSE Starts(routers[i])
               /\ routers' = [routers EXCEPT ![i] = u]
      BY <1>2
<1>4. PICK s : s = routers[i]
      OBVIOUS
<1>5. IsServer(s)
      BY <1>4 DEF PlanInv, Routers
<1>6. u.args = s.args
  <2>1. CASE sets[ConfigSet].name = NoName
    <3>1. u = [s EXCEPT !.state = "failed"]
          BY <1>3, <1>4, <2>1
    <3>2. s = [args |-> s.args, state |-> s.state, port |-> s.port]
          BY <1>5 DEF IsServer
    <3> QED
        BY <3>1, <3>2
  <2>2. CASE sets[ConfigSet].name # NoName
    <3>1. u \in Starts(s)
          BY <1>3, <1>4, <2>2
    <3> QED
        BY <1>5, <3>1, StartedServer
  <2> QED
      BY <2>1, <2>2
<1>7. /\ DOMAIN routers' = DOMAIN routers /\ routers'[i] = u
      /\ \A j \in DOMAIN routers \ {i} : routers'[j] = routers[j]
      BY <1>3 DEF PlanInv, Routers
<1> QED
    BY <1>1, <1>4, <1>6, <1>7 DEF SamePorts

-----------------------------------------------------------------------------
LEMMA UsersOfOneSet ==
  ASSUME NEW r, NEW P
  PROVE  UsersOf(<<r>>, <<>>, P) =
           {1} \X {m \in DOMAIN r.members : P \in ToSet(r.members[m].args.ports)}
<1>1. PICK ss : ss = <<r>>
      OBVIOUS
<1>2. PICK rs : rs = <<>>
      OBVIOUS
<1>3. DOMAIN ss = {1} /\ ss[1] = r /\ DOMAIN rs = {}
      BY <1>1, <1>2
<1>4. \A x : x \in UsersOf(ss, rs, P) <=>
        \E m \in DOMAIN r.members : x = <<1, m>> /\ P \in ToSet(r.members[m].args.ports)
      BY <1>3, UsersAre
<1>5. \A x : x \in UsersOf(ss, rs, P) <=>
        x \in {1} \X {m \in DOMAIN r.members : P \in ToSet(r.members[m].args.ports)}
      BY <1>4
<1> QED
    BY <1>1, <1>2, <1>5

LEMMA MakePlanGivesPort == ASSUME PlanInv, MakePlan PROVE PortGiven'
<1> DEFINE o == [plan EXCEPT !.secondaries = IF plan.storage THEN OrElse(@, 1) ELSE @]
           shards == ShardOptions(o)
           NameOf(i) == "set" \o ToString(i)
           P == MainPort
<1>1. plan' = plan /\ plan \in PlanOptions
      BY DEF MakePlan, PlanInv
<1>2. /\ IsRequest(o) /\ o.rsMembers = plan.rsMembers /\ o.topology = plan.topology
      /\ o.mongosArgs = plan.mongosArgs /\ o \in PlanOptions /\ o.args = plan.args
      /\ o.shards = plan.shards
      BY <1>1, RequestOfPlan
<1>3. /\ o.topology = "standalone" =>
           sets' = <<ReplicaSet(1, <<NewMember(1, FALSE, o.args)>>, FALSE)>> /\ routers' = <<>>
      /\ o.topology = "replset" =>
           sets' = <<ReplicaSet(1, ProcessRSMembers(o, "set1"), FALSE)>> /\ routers' = <<>>
      /\ o.topology = "sharded" =>
           /\ sets' = [i \in DOMAIN shards |->
                         ReplicaSet(i, ProcessRSMembers(shards[i], NameOf(i)),
                                    "configsvr" \in shards[i].args.roles)]
           /\ routers' = [i \in DOMAIN o.mongosArgs |-> NewServer(MongosArgs(o)[i])]
      BY DEF MakePlan
<1> HIDE DEF o, shards, NameOf
<1>4. plan.topology = "replset" => 1 \in DOMAIN sets'
      BY <1>2, <1>3
<1>5. MainPort' = P /\ GivenOnce' = GivenOnce
      BY <1>1 DEF MainPort, GivenOnce
<1>6. Users' = UsersOf(sets', routers', P)
      BY <1>5 DEF Users, UsersOf
<1>7. ASSUME MainPort # NoPort, GivenOnce
      PROVE  P \in Nat \ {0} /\ o.args.ports = <<P>>
  <2>1. PICK ports : ports = plan.args.ports
        OBVIOUS
  <2>2. ports \in Seq(Nat) /\ Len(ports) = 1
        BY <1>1, <1>7, <2>1 DEF PlanOptions, Arguments, GivenOnce
  <2>3. ports # <<>> /\ ports = <<ports[1]>> /\ ports[1] \in Nat
    <3>1. ports # <<>> /\ ports[1] \in Nat
          BY <2>2, EmptySeq, ElementOfSeq
    <3>2. ports = <<ports[1]>>
          BY <2>2
    <3> QED
        BY <3>1, <3>2
  <2>4. MainPort = ports[1] /\ ports[1] # 0
        BY <1>7, <2>1, <2>3 DEF MainPort, GetPortArg, HasPortArg
  <2> QED
      BY <1>2, <2>1, <2>3, <2>4
<1>8. ASSUME MainPort # NoPort, GivenOnce, plan.topology = "standalone"
      PROVE  Users' = {<<1, 1>>}
  <2>1. PICK ms : ms = <<NewMember(1, FALSE, o.args)>>
        OBVIOUS
  <2>2. DOMAIN ms = {1} /\ ms[1].args.ports = <<P>>
        BY <1>7, <1>8, <2>1 DEF NewMember
  <2>3. PICK r : r = ReplicaSet(1, ms, FALSE)
        OBVIOUS
  <2>4. sets' = <<r>> /\ routers' = <<>> /\ r.members = ms
    <3>1. sets' = <<r>> /\ routers' = <<>>
          BY <1>2, <1>3, <1>8, <2>1, <2>3
    <3> QED
        BY <2>3, <3>1, NewOnes
  <2>5. Users' = {1} \X {m \in DOMAIN ms : P \in ToSet(ms[m].args.ports)}
        BY <1>6, <2>4, UsersOfOneSet
  <2>6. {m \in DOMAIN ms : P \in ToSet(ms[m].args.ports)} = {1}
        BY <2>2, FewPorts
  <2> QED
      BY <2>5, <2>6
<1>9. ASSUME MainPort # NoPort, GivenOnce, plan.topology = "replset"
      PROVE  Users' = {1} \X ({PrimaryIndex(sets'[1].members)} \ {0})
  <2>1. PICK ms : ms = ProcessRSMembers(o, "set1")
        OBVIOUS
  <2>2. PICK r : r = ReplicaSet(1, ms, FALSE)
        OBVIOUS
  <2>3. sets' = <<r>> /\ routers' = <<>> /\ r.members = ms
    <3>1. sets' = <<r>> /\ routers' = <<>>
          BY <1>2, <1>3, <1>9, <2>1, <2>2
    <3> QED
        BY <2>2, <3>1, NewOnes
  <2>4. Users' = {1} \X {m \in DOMAIN ms : P \in ToSet(ms[m].args.ports)}
        BY <1>6, <2>3, UsersOfOneSet
  <2>5. o.rsMembers # Unasked =>
          \A i \in DOMAIN o.rsMembers : ~HasPortArg(o.rsMembers[i].args)
        BY <1>2, <1>9 DEF GivenOnce
  <2>6. {m \in DOMAIN ms : P \in ToSet(ms[m].args.ports)} = {PrimaryIndex(ms)} \ {0}
        BY <1>2, <1>7, <1>9, <2>1, <2>5, PortOfMembers
  <2>7. sets'[1].members = ms
        BY <2>3
  <2> QED
      BY <2>4, <2>6, <2>7
<1>10. ASSUME MainPort # NoPort, GivenOnce, plan.topology = "sharded"
       PROVE  Users' = IF HasPortArg(plan.mongosArgs[1]) THEN {} ELSE {<<0, 1>>}
  <2>1. P \in Nat \ {0} /\ o.args.ports = <<P>>
        BY <1>7, <1>10
  <2>2. /\ o.rsMembers # Unasked =>
             \A i \in DOMAIN o.rsMembers : ~HasPortArg(o.rsMembers[i].args)
        /\ o.shards # Unasked /\ "list" \in DOMAIN o.shards =>
             \A i \in DOMAIN o.shards.list : P \notin ToSet(o.shards.list[i].ports)
        /\ \A i \in DOMAIN o.mongosArgs : P \notin ToSet(o.mongosArgs[i].ports)
        BY <1>2, <1>10 DEF GivenOnce
  <2>3. /\ \A i \in DOMAIN shards : IsRequest(shards[i]) /\ shards[i].rsMembers = o.rsMembers
        /\ \A i \in DOMAIN shards : P \notin ToSet(shards[i].args.ports)
        BY <1>2, <1>10, <2>1, <2>2, ShardsOfPlan, PortOfShards DEF shards
  <2>4. ASSUME NEW i \in DOMAIN shards
        PROVE  LET ms == ProcessRSMembers(shards[i], NameOf(i))
               IN \A m \in DOMAIN ms : P \notin ToSet(ms[m].args.ports)
    <3>1. PICK p : p = shards[i]
          OBVIOUS
    <3>2. /\ IsRequest(p) /\ P \notin ToSet(p.args.ports)
          /\ p.rsMembers # Unasked =>
               \A j \in DOMAIN p.rsMembers : ~HasPortArg(p.rsMembers[j].args)
          BY <2>2, <2>3, <3>1
    <3>3. PICK ms : ms = ProcessRSMembers(p, NameOf(i))
          OBVIOUS
    <3>4. {m \in DOMAIN ms : P \in ToSet(ms[m].args.ports)} = {}
          BY <2>1, <3>2, <3>3, PortOfMembers
    <3> QED
        BY <3>1, <3>3, <3>4
  <2>5. /\ DOMAIN sets' = DOMAIN shards
        /\ \A i \in DOMAIN shards :
             sets'[i].members = ProcessRSMembers(shards[i], NameOf(i))
        BY <1>2, <1>3, <1>10, NewOnes
  <2>6. /\ DOMAIN routers' = DOMAIN o.mongosArgs
        /\ \A i \in DOMAIN o.mongosArgs : routers'[i].args = MongosArgs(o)[i]
        BY <1>2, <1>3, <1>10, NewOnes
  <2>7. \A g \in DOMAIN sets' : \A m \in DOMAIN sets'[g].members :
          P \notin ToSet(sets'[g].members[m].args.ports)
        BY <2>4, <2>5
  <2>8. PICK us : us = IF HasPortArg(o.mongosArgs[1]) THEN {} ELSE {1}
        OBVIOUS
  <2>9. {i \in DOMAIN o.mongosArgs : P \in ToSet(MongosArgs(o)[i].ports)} = us
        BY <1>2, <2>1, <2>2, <2>8, PortOfMongos
  <2>10. \A i : i \in DOMAIN routers' /\ P \in ToSet(routers'[i].args.ports) <=> i \in us
        BY <2>6, <2>9
  <2>11. \A x : x \in Users' <=> \E i \in us : x = <<0, i>>
    <3>1. \A x : x \in Users' <=>
            \/ \E g \in DOMAIN sets' : \E m \in DOMAIN sets'[g].members :
                 x = <<g, m>> /\ P \in ToSet(sets'[g].members[m].args.ports)
            \/ \E i \in DOMAIN routers' : x = <<0, i>> /\ P \in ToSet(routers'[i].args.ports)
          BY <1>6, UsersAre
    <3> QED
        BY <2>7, <2>10, <3>1
  <2> QED
      BY <1>2, <2>8, <2>11
<1> HIDE DEF P
<1>11. plan.topology \in {"standalone", "replset", "sharded"}
      BY <1>1 DEF PlanOptions
<1>12. OneServerHasThePort'
      BY <1>1, <1>5, <1>8, <1>9, <1>10, <1>11 DEF OneServerHasThePort, P
<1> QED
    BY <1>1, <1>4, <1>12 DEF PortGiven

LEMMA PortGivenNext ==
  ASSUME PlanInv, PlanInv', PortGiven, [PlanNext]_planVars PROVE PortGiven'
<1>1. ASSUME UNCHANGED <<plan, sets, routers>> PROVE SamePorts
      BY <1>1 DEF SamePorts
<1>2. CASE UNCHANGED planVars
      BY <1>1, <1>2, UsersStay DEF planVars
<1>3. CASE OthersListen \/ CreateEnvironment \/ SetsSettle \/ MongosSettle \/ AddShard
  <2>1. UNCHANGED <<plan, sets>>
        BY <1>3 DEF OthersListen, CreateEnvironment, SetsSettle, MongosSettle, AddShard, Enter
  <2>2. UNCHANGED routers
        BY <1>3 DEF OthersListen, CreateEnvironment, SetsSettle, MongosSettle, AddShard
  <2> QED
      BY <1>1, <2>1, <2>2, UsersStay
<1>4. ASSUME NEW g \in DOMAIN sets,
             \/ Allocate(g) \/ SetUpShard(g) \/ StartMember(g) \/ ServersSettle(g)
             \/ InitiateSet(g) \/ ElectPrimary(g) \/ StopWaiting(g)
      PROVE  PortGiven'
      BY <1>4, SetStepsKeepPorts, UsersStay
<1>5. CASE StartMongos
      BY <1>5, StartMongosKeepsPorts, UsersStay
<1>6. CASE MakePlan
      BY <1>6, MakePlanGivesPort
<1> QED
    BY <1>2, <1>3, <1>4, <1>5, <1>6 DEF PlanNext

LEMMA PortGivenHolds == PlanSpec => []PortGiven
<1>1. PlanInit => PortGiven
      BY DEF PlanInit, PortGiven, OneServerHasThePort
<1>2. PlanInv /\ PlanInv' /\ PortGiven /\ [PlanNext]_planVars => PortGiven'
      BY PortGivenNext
<1> QED
    BY <1>1, <1>2, PlanInvHolds, PTL DEF PlanSpec

-----------------------------------------------------------------------------
(* Induction over the numbers, for a set of them.                           *)
LEMMA AllNumbers ==
  ASSUME NEW T \in SUBSET Nat, 0 \in T, \A n \in T : n + 1 \in T
  PROVE  T = Nat
<1>1. CASE Nat \ T # {}
  <2>1. PICK x \in Nat \ T : \A y \in Nat \ T : <<y, x>> \notin OpToRel(<, Nat)
        BY <1>1, NatLessThanWellFounded, WFMin
  <2>2. \A y \in Nat \ T : ~(y < x)
        BY <2>1 DEF OpToRel
  <2>3. x # 0 /\ x - 1 \in Nat /\ x - 1 \notin T
    <3>1. x \in Nat /\ x \notin T
          BY <2>1
    <3>2. x # 0
          BY <3>1
    <3>3. x - 1 \in Nat /\ (x - 1) + 1 = x
          BY <3>1, <3>2
    <3> QED
        BY <3>1, <3>2, <3>3
  <2> QED
      BY <2>2, <2>3
<1>2. CASE Nat \ T = {}
      BY <1>2
<1> QED
    BY <1>1, <1>2

(* What is found in the first n lines of a compose file.                    *)
FoundBy(text, N, f) ==
  [n \in 0..N |-> IF n = 0 THEN NothingFound ELSE ReadComposeLine(f[n - 1], text[n])]

LEMMA SomethingIsFound ==
  ASSUME NEW text, NEW N \in Nat
  PROVE  \E f : f = FoundBy(text, N, f)
<1> DEFINE T == {n \in Nat : \E f : f = FoundBy(text, n, f)}
<1>1. 0 \in T
  <2>1. PICK f : f = [n \in 0..0 |-> NothingFound]
        OBVIOUS
  <2>2. f = FoundBy(text, 0, f)
        BY <2>1 DEF FoundBy
  <2> QED
      BY <2>2
<1>2. ASSUME NEW n \in T PROVE n + 1 \in T
  <2>1. PICK f : f = FoundBy(text, n, f)
        OBVIOUS
  <2>2. /\ f[0] = NothingFound
        /\ \A k \in 1..n : f[k] = ReadComposeLine(f[k - 1], text[k])
        BY <2>1 DEF FoundBy
  <2>3. PICK g : g = [k \in 0..(n + 1) |->
                        IF k <= n THEN f[k] ELSE ReadComposeLine(f[n], text[n + 1])]
        OBVIOUS
  <2>4. /\ g[0] = NothingFound /\ \A k \in 0..n : g[k] = f[k]
        /\ g[n + 1] = ReadComposeLine(f[n], text[n + 1])
        BY <2>2, <2>3
  <2>5. ASSUME NEW k \in 0..(n + 1), k # 0
        PROVE  g[k] = ReadComposeLine(g[k - 1], text[k])
    <3>1. CASE k <= n
      <4>1. k \in 1..n /\ k \in 0..n /\ k - 1 \in 0..n
            BY <2>5, <3>1
      <4> QED
          BY <2>2, <2>4, <4>1
    <3>2. CASE k > n
      <4>1. k = n + 1 /\ k - 1 = n /\ n \in 0..n
            BY <3>2
      <4> QED
          BY <2>4, <4>1
    <3> QED
        BY <3>1, <3>2
  <2>6. g = FoundBy(text, n + 1, g)
        BY <2>3, <2>4, <2>5 DEF FoundBy
  <2> QED
      BY <2>6
<1> HIDE DEF T
<1>3. T \in SUBSET Nat
      BY DEF T
<1>4. T = Nat
      BY <1>1, <1>2, <1>3, AllNumbers
<1> QED
    BY <1>4 DEF T

LEMMA FoundStepwise ==
  ASSUME NEW text, Len(text) \in Nat
  PROVE  \E f : /\ f[0] = NothingFound
                /\ \A n \in 1..Len(text) : f[n] = ReadComposeLine(f[n - 1], text[n])
                /\ ParseServices(text) = f[Len(text)].ports
<1> DEFINE f == CHOOSE f : f = FoundBy(text, Len(text), f)
<1>1. f = FoundBy(text, Len(text), f)
      BY SomethingIsFound
<1>2. ParseServices(text) = f[Len(text)].ports
      BY DEF ParseServices, FoundBy
<1> HIDE DEF f
<1>3. /\ f[0] = NothingFound
      /\ \A n \in 1..Len(text) : f[n] = ReadComposeLine(f[n - 1], text[n])
      BY <1>1 DEF FoundBy
<1> QED
    BY <1>2, <1>3

-----------------------------------------------------------------------------
(* A port that is found is in the list of ports of a service.                *)
IsListed(text, found) ==
  \E s, p \in DOMAIN text :
    /\ s < p /\ text[s] = [kind |-> "key", name |-> found.service]
    /\ text[p].kind = "port" /\ text[p].name = found.var
    /\ \A k \in s+1..p : text[k].kind = "port"
    /\ \E t \in 1..s : /\ text[t] = [kind |-> "top", name |-> "services"]
                       /\ \A k \in t+1..s : text[k].kind # "top"

(* What has been read of n lines: under which key of the top level they end,  *)
(* and under which service.                                                   *)
ReadsRight(text, n, f) ==
  /\ f = [top |-> f.top, service |-> f.service, ports |-> f.ports]
  /\ f.ports \in Seq([service : STRING, var : STRING])
  /\ \A i \in DOMAIN f.ports : IsListed(text, f.ports[i])
  /\ f.top # NoName =>
       \E t \in 1..n : /\ text[t] = [kind |-> "top", name |-> f.top]
                       /\ \A k \in t+1..n : text[k].kind # "top"
  /\ f.service # NoName =>
       /\ f.service \in STRING /\ f.top = "services"
       /\ \E s \in 1..n : /\ text[s] = [kind |-> "key", name |-> f.service]
                          /\ \A k \in s+1..n : text[k].kind = "port"

LEMMA LineKinds ==
  ASSUME NEW line \in ComposeLine
  PROVE  /\ line.name \in STRING /\ line.kind \in {"top", "key", "port"}
         /\ line.kind # "port" => line = [kind |-> line.kind, name |-> line.name]
<1>1. CASE line \in [kind : {"top", "key"}, name : STRING]
      BY <1>1
<1>2. CASE line \in [kind : {"port"}, name : STRING, listed : BOOLEAN]
      BY <1>2
<1> QED
    BY <1>1, <1>2 DEF ComposeLine

LEMMA NextLine ==
  ASSUME NEW text \in Seq(ComposeLine), NEW n \in Nat, n + 1 \in 1..Len(text),
         NEW f, ReadsRight(text, n, f)
  PROVE  ReadsRight(text, n + 1, ReadComposeLine(f, text[n + 1]))
<1>1. PICK line : line = text[n + 1]
      OBVIOUS
<1>2. PICK g : g = ReadComposeLine(f, line)
      OBVIOUS
<1>3. DOMAIN text = 1..Len(text) /\ Len(text) \in Nat /\ line \in ComposeLine
      BY <1>1, LenProperties, ElementOfSeq
<1>4. /\ line.name \in STRING /\ line.kind \in {"top", "key", "port"}
      /\ line.kind # "port" => line = [kind |-> line.kind, name |-> line.name]
      BY <1>3, LineKinds
<1>5. f = [top |-> f.top, service |-> f.service, ports |-> f.ports]
      BY DEF ReadsRight
<1>6. ASSUME line.kind # "top", f.top # NoName
      PROVE  \E t \in 1..(n + 1) : /\ text[t] = [kind |-> "top", name |-> f.top]
                                   /\ \A k \in t+1..(n + 1) : text[k].kind # "top"
  <2>1. PICK t \in 1..n : /\ text[t] = [kind |-> "top", name |-> f.top]
                          /\ \A k \in t+1..n : text[k].kind # "top"
        BY <1>6 DEF ReadsRight
  <2>2. \A k \in t+1..(n + 1) : k \in t+1..n \/ k = n + 1
        OBVIOUS
  <2>3. text[n + 1].kind # "top" /\ t \in 1..(n + 1)
        BY <1>1, <1>6
  <2>4. \A k \in t+1..(n + 1) : text[k].kind # "top"
        BY <2>1, <2>2, <2>3
  <2> QED
      BY <2>1, <2>3, <2>4
<1>7. ASSUME line.kind = "port", f.service # NoName
      PROVE  \E s \in 1..n : /\ text[s] = [kind |-> "key", name |-> f.service]
                             /\ \A k \in s+1..(n + 1) : text[k].kind = "port"
  <2>1. PICK s \in 1..n : /\ text[s] = [kind |-> "key", name |-> f.service]
                          /\ \A k \in s+1..n : text[k].kind = "port"
        BY <1>7 DEF ReadsRight
  <2>2. \A k \in s+1..(n + 1) : k \in s+1..n \/ k = n + 1
        OBVIOUS
  <2> QED
      BY <1>1, <1>7, <2>1, <2>2
<1>8. CASE line.kind = "top"
  <2>1. g = [f EXCEPT !.top = line.name, !.service = NoName]
        BY <1>2, <1>8 DEF ReadComposeLine
  <2>2. g = [top |-> line.name, service |-> NoName, ports |-> f.ports]
        BY <1>5, <2>1
  <2>3. text[n + 1] = [kind |-> "top", name |-> line.name]
        BY <1>1, <1>4, <1>8
  <2>4. \E t \in 1..(n + 1) : /\ text[t] = [kind |-> "top", name |-> line.name]
                              /\ \A k \in t+1..(n + 1) : text[k].kind # "top"
        BY <2>3
  <2>5. g.top = line.name /\ g.service = NoName /\ g.ports = f.ports
        BY <2>2
  <2>6. ReadsRight(text, n + 1, g)
        BY <2>2, <2>4, <2>5 DEF ReadsRight
  <2> QED
      BY <1>1, <1>2, <2>6
<1>9. CASE line.kind = "key" /\ f.top = "services"
  <2>1. g = [f EXCEPT !.service = line.name]
        BY <1>2, <1>9 DEF ReadComposeLine
  <2>2. g = [top |-> f.top, service |-> line.name, ports |-> f.ports]
        BY <1>5, <2>1
  <2>3. text[n + 1] = [kind |-> "key", name |-> line.name]
        BY <1>1, <1>4, <1>9
  <2>4. \E s \in 1..(n + 1) : /\ text[s] = [kind |-> "key", name |-> line.name]
                              /\ \A k \in s+1..(n + 1) : text[k].kind = "port"
        BY <2>3
  <2>5. g.top = f.top /\ g.service = line.name /\ g.ports = f.ports
        BY <2>2
  <2>6. ReadsRight(text, n + 1, g)
        BY <1>4, <1>6, <1>9, <2>2, <2>4, <2>5 DEF ReadsRight
  <2> QED
      BY <1>1, <1>2, <2>6
<1>10. CASE line.kind = "port" /\ line.listed /\ f.service # NoName
  <2>1. PICK mapping : mapping = [service |-> f.service, var |-> line.name]
        OBVIOUS
  <2>2. g = [f EXCEPT !.ports = Append(f.ports, mapping)]
        BY <1>2, <1>10, <2>1 DEF ReadComposeLine
  <2>3. PICK ports : ports = Append(f.ports, mapping)
        OBVIOUS
  <2>4. g = [top |-> f.top, service |-> f.service, ports |-> ports]
        BY <1>5, <2>2, <2>3
  <2>5. g.top = f.top /\ g.service = f.service /\ g.ports = ports
        BY <2>4
  <2>6. /\ f.ports \in Seq([service : STRING, var : STRING])
        /\ mapping \in [service : STRING, var : STRING]
        /\ mapping.service = f.service /\ mapping.var = line.name
        BY <1>4, <1>10, <2>1 DEF ReadsRight
  <2>7. /\ ports \in Seq([service : STRING, var : STRING])
        /\ \A i \in DOMAIN ports :
             ports[i] = mapping \/ \E j \in DOMAIN f.ports : ports[i] = f.ports[j]
    <3>1. /\ ports \in Seq([service : STRING, var : STRING])
          /\ Len(ports) = Len(f.ports) + 1 /\ ports[Len(f.ports) + 1] = mapping
          /\ \A i \in 1..Len(f.ports) : ports[i] = f.ports[i]
          /\ Len(f.ports) \in Nat /\ DOMAIN f.ports = 1..Len(f.ports)
          BY <2>3, <2>6, AppendProperties, LenProperties
    <3>2. DOMAIN ports = 1..Len(ports)
          BY <3>1, LenProperties
    <3>3. \A i \in DOMAIN ports : i \in 1..Len(f.ports) \/ i = Len(f.ports) + 1
          BY <3>1, <3>2
    <3> QED
        BY <3>1, <3>3
  <2>8. IsListed(text, mapping)
    <3>1. PICK s \in 1..n : /\ text[s] = [kind |-> "key", name |-> f.service]
                            /\ \A k \in s+1..(n + 1) : text[k].kind = "port"
          BY <1>7, <1>10
    <3>2. f.top = "services" /\ f.top # NoName
          BY <1>10, PlanAssumption DEF ReadsRight
    <3>3. PICK t \in 1..n : /\ text[t] = [kind |-> "top", name |-> "services"]
                            /\ \A k \in t+1..n : text[k].kind # "top"
          BY <3>2 DEF ReadsRight
    <3>4. t < s
      <4>1. text[s].kind = "key" /\ text[t].kind = "top"
            BY <3>1, <3>3
      <4>2. t # s
            BY <4>1
      <4>3. ~(s < t)
        <5>1. CASE s < t
          <6>1. t \in s+1..(n + 1)
                BY <5>1
          <6> QED
              BY <3>1, <4>1, <6>1
        <5> QED
            BY <5>1
      <4> QED
          BY <4>2, <4>3
    <3>5. \A k \in t+1..s : text[k].kind # "top"
          BY <3>3
    <3>6. s \in DOMAIN text /\ n + 1 \in DOMAIN text /\ s < n + 1 /\ t \in 1..s
          BY <1>3, <3>4
    <3>7. text[n + 1].kind = "port" /\ text[n + 1].name = line.name
          BY <1>1, <1>10
    <3>8. text[s] = [kind |-> "key", name |-> mapping.service]
          BY <2>6, <3>1
    <3> QED
        BY <2>6, <3>1, <3>3, <3>5, <3>6, <3>7, <3>8 DEF IsListed
  <2>9. \A i \in DOMAIN ports : IsListed(text, ports[i])
        BY <2>7, <2>8 DEF ReadsRight
  <2>10. f.service \in STRING /\ f.top = "services"
        BY <1>10 DEF ReadsRight
  <2>11. \E s \in 1..(n + 1) : /\ text[s] = [kind |-> "key", name |-> f.service]
                               /\ \A k \in s+1..(n + 1) : text[k].kind = "port"
        BY <1>7, <1>10
  <2>12. ReadsRight(text, n + 1, g)
        BY <1>6, <1>10, <2>4, <2>5, <2>7, <2>9, <2>10, <2>11 DEF ReadsRight
  <2> QED
      BY <1>1, <1>2, <2>12
<1>11. CASE /\ line.kind # "top" /\ ~(line.kind = "key" /\ f.top = "services")
            /\ ~(line.kind = "port" /\ line.listed /\ f.service # NoName)
  <2>1. g = f
        BY <1>2, <1>11 DEF ReadComposeLine
  <2>2. f.service # NoName => line.kind = "port"
        BY <1>4, <1>11 DEF ReadsRight
  <2>3. f.service # NoName =>
          \E s \in 1..(n + 1) : /\ text[s] = [kind |-> "key", name |-> f.service]
                                /\ \A k \in s+1..(n + 1) : text[k].kind = "port"
        BY <1>7, <2>2
  <2>4. ReadsRight(text, n + 1, f)
        BY <1>6, <1>11, <2>3 DEF ReadsRight
  <2> QED
      BY <1>1, <1>2, <2>1, <2>4
<1> QED
    BY <1>8, <1>9, <1>10, <1>11

LEMMA PortsAreListed ==
  ASSUME NEW text \in Seq(ComposeLine)
  PROVE  \A i \in DOMAIN ParseServices(text) : IsListed(text, ParseServices(text)[i])
<1>1. Len(text) \in Nat
      BY LenProperties
<1>2. PICK f : /\ f[0] = NothingFound
               /\ \A n \in 1..Len(text) : f[n] = ReadComposeLine(f[n - 1], text[n])
               /\ ParseServices(text) = f[Len(text)].ports
      BY <1>1, FoundStepwise
<1> DEFINE T == {n \in Nat : n <= Len(text) => ReadsRight(text, n, f[n])}
<1>3. 0 \in T
  <2>1. /\ NothingFound.top = NoName /\ NothingFound.service = NoName
        /\ NothingFound.ports = <<>>
        /\ NothingFound = [top |-> NoName, service |-> NoName, ports |-> <<>>]
        BY DEF NothingFound
  <2>2. DOMAIN NothingFound.ports = {}
        BY <2>1
  <2>3. NothingFound.ports \in Seq([service : STRING, var : STRING])
        BY <2>1
  <2>4. ReadsRight(text, 0, NothingFound)
        BY <2>1, <2>2, <2>3 DEF ReadsRight
  <2> QED
      BY <1>2, <2>4
<1>4. ASSUME NEW n \in T PROVE n + 1 \in T
  <2>1. CASE n + 1 <= Len(text)
    <3>1. n \in Nat /\ n + 1 \in 1..Len(text) /\ ReadsRight(text, n, f[n])
          BY <1>1, <2>1
    <3>2. f[n + 1] = ReadComposeLine(f[n], text[n + 1])
      <4>1. (n + 1) - 1 = n
            BY <3>1
      <4> QED
          BY <1>2, <3>1, <4>1
    <3>3. ReadsRight(text, n + 1, f[n + 1])
          BY <3>1, <3>2, NextLine
    <3> QED
        BY <3>3
  <2> QED
      BY <2>1
<1> HIDE DEF T
<1>5. T \in SUBSET Nat
      BY DEF T
<1>6. Len(text) \in T
      BY <1>1, <1>3, <1>4, <1>5, AllNumbers
<1>7. ReadsRight(text, Len(text), f[Len(text)])
      BY <1>1, <1>6 DEF T
<1> QED
    BY <1>2, <1>7 DEF ReadsRight

-----------------------------------------------------------------------------
(* The compose file stays as it is, and was read once.                      *)
ServicesInv == composeLines \in Seq(ComposeLine) /\ PortsAreOfServices

LEMMA ServicesInvHolds == PlanSpec => []ServicesInv
<1>1. PlanInit => ServicesInv
  <2> SUFFICES ASSUME PlanInit PROVE ServicesInv
      OBVIOUS
  <2>1. composeLines \in ComposeFiles \/ composeLines = <<>>
        BY DEF PlanInit
  <2>2. composeLines \in Seq(ComposeLine)
    <3>1. <<>> \in Seq(ComposeLine)
          OBVIOUS
    <3> QED
        BY <2>1, <3>1, PlanAssumption
  <2>3. DOMAIN slsServices = {}
        BY DEF PlanInit
  <2> QED
      BY <2>2, <2>3 DEF ServicesInv, PortsAreOfServices
<1>2. ASSUME ServicesInv, CreateEnvironment PROVE ServicesInv'
  <2>1. PICK found : found = ParseServices(composeLines)
        OBVIOUS
  <2>2. /\ composeLines' = composeLines
        /\ \/ \E ports : slsServices' = [i \in DOMAIN found |->
                [service |-> found[i].service, var |-> found[i].var, port |-> ports[i]]]
           \/ slsServices' = slsServices
        BY <1>2, <2>1 DEF CreateEnvironment
  <2>3. CASE slsServices' = slsServices
        BY <1>2, <2>2, <2>3 DEF ServicesInv, PortsAreOfServices
  <2>4. ASSUME NEW ports, slsServices' = [i \in DOMAIN found |->
                [service |-> found[i].service, var |-> found[i].var, port |-> ports[i]]]
        PROVE  ServicesInv'
    <3>1. \A i \in DOMAIN found : IsListed(composeLines, found[i])
          BY <1>2, <2>1, PortsAreListed DEF ServicesInv
    <3>2. /\ DOMAIN slsServices' = DOMAIN found
          /\ \A i \in DOMAIN found : /\ slsServices'[i].service = found[i].service
                                     /\ slsServices'[i].var = found[i].var
          BY <2>4
    <3>3. \A i \in DOMAIN slsServices' : IsListed(composeLines', slsServices'[i])
          BY <2>2, <3>1, <3>2 DEF IsListed
    <3>4. PortsAreOfServices'
          BY <3>3 DEF PortsAreOfServices, IsListed
    <3> QED
        BY <1>2, <2>2, <3>4 DEF ServicesInv
  <2> QED
      BY <2>2, <2>3, <2>4
<1>3. ASSUME ServicesInv, UNCHANGED <<composeLines, slsServices>> PROVE ServicesInv'
      BY <1>3 DEF ServicesInv, PortsAreOfServices
<1>4. ASSUME PlanNext PROVE CreateEnvironment \/ UNCHANGED <<composeLines, slsServices>>
  <2>1. ASSUME NEW g \in DOMAIN sets,
               \/ Allocate(g) \/ SetUpShard(g) \/ StartMember(g) \/ ServersSettle(g)
               \/ InitiateSet(g) \/ ElectPrimary(g) \/ StopWaiting(g)
        PROVE  UNCHANGED <<composeLines, slsServices>>
        BY <2>1 DEF Allocate, SetUpShard, StartMember, ServersSettle, InitiateSet, ElectPrimary,
                    StopWaiting, Advance
  <2> QED
      BY <1>4, <2>1 DEF PlanNext, OthersListen, MakePlan, SetsSettle, StartMongos, MongosSettle,
                        AddShard, Enter
<1>5. ServicesInv /\ [PlanNext]_planVars => ServicesInv'
      BY <1>2, <1>3, <1>4 DEF planVars
<1> QED
    BY <1>1, <1>5, PTL DEF PlanSpec

(* A port that the cluster is given is one server's, the one that is talked to   *)
(* first, and the ports that are chosen for the storage are those of the lists   *)
(* of ports of its services (mongocluster.ts, sls.ts).                           *)
THEOREM PortsGiven == PlanSpec => []PortsAreAsAsked
<1>1. PortGiven /\ ServicesInv => PortsAreAsAsked
      BY DEF PortGiven, ServicesInv, PortsAreAsAsked
<1> QED
    BY <1>1, PortGivenHolds, ServicesInvHolds, PTL

-----------------------------------------------------------------------------
(* What servers log is read, by those who start them and on behalf of those    *)
(* who watch for warnings, and the members of a cluster know of each other and *)
(* have the ports that were asked for.                                         *)
THEOREM ServersSound == ServersSpec => []ServersAreSound
<1>1. ServersAreSound <=>
        StartIsSound /\ ClusterIsWhole /\ PortsAreAsAsked /\ UnexpectedIsReported
      BY DEF ServersAreSound
<1> QED
    BY <1>1, Started, Whole, PortsGiven, Reported, PTL DEF ServersSpec
=============================================================================
