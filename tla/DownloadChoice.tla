--------------------------- MODULE DownloadChoice ---------------------------
(* download-url: getDownloadURL() works out which systems' builds run on this *)
(* host and picks one from the list of versions.  A name like "rhel83" is a   *)
(* family with a number; of equal candidates any may be first in the list.    *)
EXTENDS Naturals, FiniteSets, FiniteSetsExt, SequencesExt

CONSTANTS
  Hosts,     \* what a host says of itself: platform, osRelease, lsb, distroId
  ListsOf,   \* the lists of versions that may be served to each
  Wishes,    \* the options that getDownloadURL() may be called with
  Unknown    \* what is not there

VARIABLES
  host, list,
  osRelease,  \* "undefined" until /etc/os-release was read, then "" or "text"
  wish,       \* the options of the last call
  got         \* and what it returned, or Unknown if it threw

choiceVars == <<host, list, osRelease, wish, got>>

-----------------------------------------------------------------------------
(* Names of systems.                                                          *)

Target(family, number) == [family |-> family, number |-> number]
Generic(name) == Target(name, 0)
Prio(value, priority) == [value |-> value, priority |-> priority]

\* +version.replace('.', ''): the digits of both parts side by side.
Digits(v) == v.major * (10 ^ v.minorDigits) + v.minor

\* Those of S whose threshold the version has reached, with what the version adds.
Reached(S, major) == SelectSeq(S, LAMBDA e : major >= e[1])
Ids(family, S) ==
  [i \in DOMAIN S |-> Prio(Target(family, S[i][2]), S[i][3])]
Also(cond, p) == IF cond THEN <<p>> ELSE <<>>

Ubuntus == <<<<12, 1204, 100>>, <<14, 1404, 200>>, <<16, 1604, 300>>, <<18, 1804, 400>>,
             <<20, 2004, 500>>, <<22, 2204, 600>>, <<24, 2404, 700>>>>
UbuntuIds(v) ==
  Ids("ubuntu", Reached(Ubuntus, v.major))
  \o Also(v.major > 24, Prio(Target("ubuntu", Digits(v) * 100 + 4), 700))

Debians == <<<<8, 81, 100>>, <<9, 92, 200>>, <<10, 10, 300>>>>
Codenames == <<<<"buster", 10, 100>>, <<"bullseye", 11, 200>>, <<"bookworm", 12, 300>>,
               <<"trixie", 13, 400>>, <<"forky", 14, 500>>>>
DebianIds(v, codename) ==
  Ids("debian", Reached(Debians, v.major))
  \o Also(v.major > 10, Prio(Target("debian", Digits(v)), 400))
  \o Ids("debian", SelectSeq(Codenames, LAMBDA e : v.major = 0 /\ e[1] = codename))

\* 8 and 9 stand for every release of that series and outrank each of them.
RhelBuilds == <<55, 57, 62, 67, 70, 71, 72, 80, 81, 82, 83, 8, 90, 93, 9>>
Want(v) ==
  LET want == Digits(v)
  IN IF want < 10 THEN want * 10 + 9 ELSE IF want = 10 THEN 93 ELSE want
AllowsAnySeries(want, k) == k > 50 => k <= want  \* deviation: the series is not compared
Allows(want, k) == IF k > 50 THEN k <= want ELSE k * 10 <= want
RhelIds(v) ==
  LET allowed == SelectSeq(RhelBuilds, LAMBDA k : Allows(Want(v), k))
  IN [i \in DOMAIN allowed |-> Prio(Target("rhel", allowed[i]), i * 100)]

AmazonIds(v) ==
  IF v.major \in 2010..2019 /\ v.minorDigits > 0
  THEN <<Prio(Generic("amazon"), 100), Prio(Generic("amzn64"), 100)>>
  ELSE <<Prio(Target("amazon", IF v.major \in 1000..9999 THEN v.major ELSE Digits(v)), 100)>>

\* listDistroIds(); <<>> for a system that is not known.
ListDistroIds(s) ==
  CASE s.id = "ubuntu" -> UbuntuIds(s.version)
    [] s.id = "debian" -> DebianIds(s.version, s.codename)
    [] s.id = "suse"   -> <<Prio(Target("suse", s.version.major), 100)>>
    [] s.id = "amazon" -> AmazonIds(s.version)
    [] s.id = "centos" -> <<Prio(Target("rhel", Digits(s.version) * 10), 100)>>
    [] s.id = "rhel"   -> RhelIds(s.version)
    [] OTHER -> <<>>

\* A DISTRO_ID, already taken apart; one of another system stands for itself.
EnvironmentIds(s) ==
  IF s.id \in {"ubuntu", "debian", "suse", "rhel", "amazon"} THEN ListDistroIds(s)
  ELSE <<Prio(Generic(s.id), 100)>>

\* getCurrentLinuxDistro(); Unknown if it throws.
CurrentLinuxDistro(text) ==
  LET released == IF text THEN ListDistroIds(host.osRelease) ELSE <<>>
  IN IF host.distroId # Unknown THEN EnvironmentIds(host.distroId)
     ELSE IF released # <<>> THEN released
     ELSE IF host.lsb # Unknown /\ ListDistroIds(host.lsb) # <<>>
     THEN ListDistroIds(host.lsb) ELSE Unknown

-----------------------------------------------------------------------------
(* Options.                                                                   *)

Synonyms == {{"i686", "i386", "x86", "ia32"}, {"x86_64", "x64"}, {"arm64", "aarch64"},
             {"ppc64", "ppc64le"}}
ParseArch(arch) ==
  IF \E S \in Synonyms : arch \in S THEN CHOOSE S \in Synonyms : arch \in S ELSE {arch}

AnyVersion(v) == v \in {"*", "stable", "latest", "rapid", "continuous", "unstable"}
Tags(v) ==
  CASE v \in {"stable", "latest", "*"} -> {"production_release"}
    [] v \in {"rapid", "continuous"} -> {"production_release", "continuous_release"}
    [] OTHER -> {"*"}

\* An exact version below 4.0.0 does without knowing the system.
Ancient(v) == v \in {"3.6.23"}

LinuxTargets(w, ids) ==
  LET archs == ParseArch(w.arch)
      intel == "x86_64" \in archs
      Is(names) == w.distro \in {Generic(n) : n \in names}
  IN Also(w.distro # Unknown, Prio(w.distro, 1000))
     \o Also(intel /\ Is({"amzn64", "amazon1"}), Prio(Generic("amazon"), 900))
     \o Also(intel /\ Is({"amazon", "amazon1"}), Prio(Generic("amzn64"), 900))
     \o Also(intel, Prio(Generic("linux_x86_64"), 1))
     \o Also("i686" \in archs, Prio(Generic("linux_i686"), 1))
     \o (IF ids = Unknown THEN <<>> ELSE ids)

OtherTargets(platform, archs) ==
  LET All(names) == [i \in DOMAIN names |-> Prio(Generic(names[i][1]), names[i][2])]
  IN CASE platform = "sunos" -> All(<<<<"sunos5", 1>>>>)
       [] platform = "win32" /\ "i686" \in archs ->
            All(<<<<"windows", 1>>, <<"windows_i686", 10>>>>)
       [] platform = "win32" /\ "i686" \notin archs ->
            All(<<<<"windows", 1>>, <<"windows_x86_64", 10>>,
                  <<"windows_x86_64-2008plus", 10>>, <<"windows_x86_64-2008plus-ssl", 100>>,
                  <<"windows_x86_64-2012plus", 100>>>>)
       [] platform = "darwin" ->
            All(<<<<"osx", 1>>, <<"osx-ssl", 10>>, <<"darwin", 1>>, <<"macos", 1>>>>)
       [] OTHER -> All(<<<<platform, 1>>>>)

\* parseTarget(); <<>> stands for the error that is thrown when nothing is known of the
\* system.
ParseTarget(w, ids) ==
  IF host.platform # "linux" THEN OtherTargets(host.platform, ParseArch(w.arch))
  ELSE IF w.distro = Unknown /\ ids = Unknown /\ ~Ancient(w.version) THEN <<>>
  ELSE LinuxTargets(w, ids)

-----------------------------------------------------------------------------
(* The choice.                                                                *)

\* getVersion(): the newest version with downloads, an allowed tag and the number.
Eligible(w) ==
  {v \in list : /\ v.downloads # {}
                /\ AnyVersion(w.version) => Tags(w.version) \cap (v.tags \cup {"*"}) # {}
                /\ AnyVersion(w.version) \/ v.number = w.version}
Newest(S) == CHOOSE v \in S : \A u \in S : u.order <= v.order

AnyEdition(w, d) == TRUE  \* deviation: the edition is not looked at
Edition(w, d) ==
  IF w.enterprise THEN d.edition = "enterprise" ELSE d.edition \in {"targeted", "base"}

\* getPriority(): the first entry of a name counts.
PriorityOf(targets, t) ==
  LET at == {i \in DOMAIN targets : targets[i].value = t}
  IN IF at = {} THEN 0 ELSE targets[Min(at)].priority

Candidates(w, targets, version) ==
  {d \in version.downloads : /\ Edition(w, d) /\ d.arch \in ParseArch(w.arch)
                             /\ PriorityOf(targets, d.target) > 0}

\* maximizer()
Maximal(rank) == {x \in DOMAIN rank : \A y \in DOMAIN rank : rank[y] <= rank[x]}

\* The enterprise build of the day has an address of its own, for the first of the
\* targets of the highest priority.
Alpha(w, targets) ==
  LET names == {targets[i].value : i \in DOMAIN targets}
      top == Maximal([i \in DOMAIN targets |-> targets[i].priority])
      At(target) == {[edition |-> "enterprise", arch |-> "x86_64", target |-> target,
                      extras |-> {}]}
  IN IF w.version # "latest-alpha" \/ ~w.enterprise THEN {}
     ELSE IF Generic("macos") \in names THEN At(Generic("macos"))
     ELSE IF Generic("linux_x86_64") \in names THEN At(targets[Min(top)].value)
     ELSE IF Generic("windows_x86_64") \in names THEN At(Generic("windows")) ELSE {}

Downloads(w, targets) ==
  IF Alpha(w, targets) # {} THEN Alpha(w, targets)
  ELSE IF Eligible(w) = {} THEN {}
  ELSE LET all == Candidates(w, targets, Newest(Eligible(w)))
       IN Maximal([d \in all |-> PriorityOf(targets, d.target)])

\* Which of a download's files the URL is of; Unknown if there is none.
Part(w, d) ==
  CASE w.what = "crypt_shared" /\ "crypt_shared" \in d.extras -> "crypt_shared"
    [] w.what = "crypt_shared" /\ "crypt_shared" \notin d.extras ->
         IF "csfle" \in d.extras THEN "csfle" ELSE Unknown
    [] w.what = "cryptd" /\ "cryptd" \in d.extras -> "cryptd"
    [] OTHER -> "archive"

\* What getDownloadURL() may return.
Answers(w, text) ==
  LET targets == ParseTarget(w, CurrentLinuxDistro(text))
  IN IF w.what = "both" \/ targets = <<>> THEN {Unknown}
     ELSE LET found == {[download |-> d, part |-> Part(w, d)] : d \in Downloads(w, targets)}
              there == {f \in found : f.part # Unknown}
          IN IF there = found /\ found # {} THEN found ELSE there \cup {Unknown}

-----------------------------------------------------------------------------
ChoiceInit ==
  /\ host \in Hosts /\ list \in ListsOf[host]
  /\ osRelease = "undefined" /\ wish = Unknown /\ got = Unknown

\* One call; /etc/os-release is read once, unless that fails for another reason than
\* that it is not there.
GetDownloadURL(w) ==
  /\ \/ osRelease # "undefined" /\ UNCHANGED osRelease
     \/ osRelease = "undefined" /\ (host.platform # "linux" \/ host.distroId # Unknown)
        /\ UNCHANGED osRelease
     \/ /\ osRelease = "undefined" /\ host.platform = "linux" /\ host.distroId = Unknown
        /\ osRelease' \in {IF host.osRelease = Unknown THEN "" ELSE "text", "undefined"}
  /\ wish' = w
  /\ got' \in Answers(w, osRelease' = "text")
  /\ UNCHANGED <<host, list>>

ChoiceNext == \E w \in Wishes : GetDownloadURL(w)

ChoiceSpec == ChoiceInit /\ [][ChoiceNext]_choiceVars

ChoiceTypeOK ==
  /\ host \in Hosts /\ list \in ListsOf[host] /\ osRelease \in {"undefined", "", "text"}
  /\ wish \in Wishes \cup {Unknown}
  /\ got = Unknown \/ got.part \in {"archive", "cryptd", "crypt_shared", "csfle"}

-----------------------------------------------------------------------------
(* What the names mean: a build runs on the systems of its family from one      *)
(* release on; those of SUSE and Amazon Linux on that release alone, and CentOS *)
(* is taken for the first RHEL of its series.                                   *)
System == IF host.distroId # Unknown THEN host.distroId
          ELSE IF host.lsb = Unknown \/ ListDistroIds(host.osRelease) # <<>>
          THEN host.osRelease ELSE host.lsb
Family(s) == IF s.id = "centos" THEN "rhel" ELSE s.id
Major(s) ==
  IF s.version.major > 0 THEN s.version.major
  ELSE LET i == CHOOSE i \in DOMAIN Codenames : Codenames[i][1] = s.codename
       IN Codenames[i][2]
Own(s) == Major(s) * 100 + (IF s.version.minorDigits = 0 THEN 99 ELSE s.version.minor)

\* The first release a build runs on; a build for a series is the newest of it.
Since(t) ==
  CASE t.family = "rhel" -> IF t.number < 10 THEN t.number * 100
                            ELSE ((t.number \div 10) * 100) + (t.number % 10)
    [] t.family = "ubuntu" -> t.number
    [] t.family = "debian" -> IF t.number > 50 THEN (t.number \div 10) * 100
                              ELSE t.number * 100
    [] OTHER -> t.number * 100
Age(t) == Since(t) + (IF t.family = "rhel" /\ t.number < 10 THEN 99 ELSE 0)

RunsOn(s, t) ==
  \/ t = Generic("linux_x86_64")
  \/ /\ t.family = Family(s) /\ Since(t) <= Own(s)
     /\ t.family \in {"suse", "amazon"} => t.number = s.version.major
     /\ s.id = "centos" => t.number = s.version.major * 10
  \/ t \in {Generic("amazon"), Generic("amzn64")} /\ s.id = "amazon" /\ s.version.major \in 2010..2019

\* What the code does not know: a minor release of two digits is read as a later major
\* one; releases after Ubuntu 24.04 and between Debian 10 and the host's own have no
\* place in the order; RHEL before 5.5 does not count; a codename stands for that release
\* of Debian alone; and a host of RHEL 8.1 or later ranks some of its own builds as high
\* as the 1000 of a distro that was asked for.
Forgotten(s) == Family(s) = "rhel" /\ Own(s) < 505
CodenameOnly(s) == s.version.major = 0
TwoDigitMinor(s) == Family(s) = "rhel" /\ s.version.minorDigits = 2
Unranked(t) ==
  \/ t.family = "ubuntu" /\ t.number > 2404
  \/ t.family = "debian" /\ t.number \in 11..50
Outranks(s) == Family(s) = "rhel" /\ (Own(s) > 800 \/ TwoDigitMinor(s))

\* A build that is handed out runs on the host and is the newest that does, as far as
\* the code knows them; the call fails only if there is none; a distro that was asked
\* for is kept to; and the library is not replaced by something else.
DownloadIsBest ==
  LET builds == IF Eligible(wish) = {} THEN {}
                ELSE {d \in Newest(Eligible(wish)).downloads :
                        Edition(wish, d) /\ d.arch \in ParseArch(wish.arch)}
      own == {d \in builds : RunsOn(System, d.target) /\ ~Unranked(d.target)}
      d == got.download
      known == /\ host.distroId # Unknown \/ host.lsb # Unknown \/ osRelease = "text"
               /\ ~CodenameOnly(System) /\ ~Forgotten(System)
  IN (host.platform = "linux" /\ wish # Unknown /\ wish.version # "latest-alpha") =>
     /\ (got # Unknown /\ wish.distro = Unknown /\ ~TwoDigitMinor(System)) =>
          /\ RunsOn(System, d.target)
          /\ \/ Unranked(d.target) \/ CodenameOnly(System)
             \/ \A e \in own : Age(e.target) <= Age(d.target)
     /\ (got # Unknown /\ wish.distro \in {b.target : b \in builds} /\ ~Outranks(System)) =>
          d.target = wish.distro
     /\ (got = Unknown /\ known /\ wish.what \in {"archive", "cryptd"}) => own = {}
     /\ (got # Unknown /\ wish.what = "crypt_shared") => got.part \in {"crypt_shared", "csfle"}
=============================================================================
