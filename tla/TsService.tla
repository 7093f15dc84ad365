------------------------------ MODULE TsService ------------------------------
(* ts-autocomplete: a TypeScript language service over files in memory.  The   *)
(* service asks its host for the version of a file before it reads the file    *)
(* again; files the autocompleter was not given come from a fallback host.     *)
EXTENDS Naturals

CONSTANTS
  TsFiles,     \* names of files
  Main,        \* the file that is completed
  OnDisk,      \* the files that the fallback host has
  TsTexts,     \* what may be in a file
  NoText,      \* the file is not there
  MaxUpdates   \* bound: how often files are updated

OnlyExists == "exists"   \* the text of a file that is only looked for
Blank == "blank"
Disk == "disk"

ASSUME ServiceAssumption ==
  /\ Main \in TsFiles \ OnDisk /\ OnDisk \subseteq TsFiles /\ MaxUpdates \in Nat
  /\ NoText \notin TsTexts \cup {OnlyExists}

VARIABLES
  codeHolder,  \* the files in memory
  versions,    \* how often each was updated, 0 if never
  held,        \* what the service has read of each file
  heldVersion, \* and the version it had then
  answered,    \* the files the last completion was made from
  fellBack     \* ghost: the files that were read from the fallback host

serviceVars == <<codeHolder, versions, held, heldVersion, answered, fellBack>>

ServiceInit ==
  /\ codeHolder = [f \in TsFiles |-> NoText] /\ versions = [f \in TsFiles |-> 0]
  /\ held = [f \in TsFiles |-> NoText] /\ heldVersion = [f \in TsFiles |-> 0]
  /\ answered = {} /\ fellBack = {}

InMemory == {f \in TsFiles : codeHolder[f] # NoText}

\* getScriptSnapshot()
Snapshot(code, f) ==
  IF code[f] = OnlyExists THEN Blank
  ELSE IF code[f] # NoText THEN code[f]
  ELSE IF f \in OnDisk THEN Disk ELSE NoText

\* Deviation: only a text that replaces another one counts.
NotCounted(f) == IF codeHolder[f] = OnlyExists THEN versions[f] ELSE versions[f] + 1

NextScriptVersion(f) == versions[f] + 1

\* getScriptVersion(): a file of the fallback host has the version 1.
ScriptVersion(vs, f) == IF vs[f] = 0 THEN 1 ELSE vs[f]

\* updateCode()
UpdateCode(f, text) ==
  /\ f # Main /\ versions[f] < MaxUpdates
  /\ codeHolder' = [codeHolder EXCEPT ![f] = text]
  /\ versions' = [versions EXCEPT ![f] = NextScriptVersion(f)]
  /\ answered' = {}
  /\ UNCHANGED <<held, heldVersion, fellBack>>

\* autocomplete() puts the code into the main file and asks the service, which
\* reads what is in memory, and the files on disk that are imported.
CompleteCode(text, imported) ==
  /\ versions[Main] < MaxUpdates
  /\ LET code == [codeHolder EXCEPT ![Main] = text]
         vs == [versions EXCEPT ![Main] = NextScriptVersion(Main)]
         program == {Main} \cup InMemory \cup imported
         stale == {f \in program : held[f] = NoText \/ heldVersion[f] # ScriptVersion(vs, f)}
     IN /\ codeHolder' = code /\ versions' = vs
        /\ held' = [f \in TsFiles |-> IF f \in stale THEN Snapshot(code, f) ELSE held[f]]
        /\ heldVersion' = [f \in TsFiles |-> IF f \in stale THEN ScriptVersion(vs, f)
                                             ELSE heldVersion[f]]
        /\ answered' = program
        /\ fellBack' = fellBack \cup {f \in stale : code[f] = NoText}

ServiceNext ==
  \/ \E f \in TsFiles, text \in TsTexts \cup {OnlyExists} : UpdateCode(f, text)
  \/ \E text \in TsTexts, imported \in SUBSET OnDisk : CompleteCode(text, imported)

ServiceSpec == ServiceInit /\ [][ServiceNext]_serviceVars

-----------------------------------------------------------------------------
(* Properties.                                                                 *)

\* The types of the variables.
ServiceTypeOK ==
  /\ codeHolder \in [TsFiles -> TsTexts \cup {NoText, OnlyExists}]
  /\ versions \in [TsFiles -> 0..MaxUpdates] /\ heldVersion \in [TsFiles -> 0..MaxUpdates]
  /\ held \in [TsFiles -> TsTexts \cup {NoText, Blank, Disk}]
  /\ answered \subseteq TsFiles /\ fellBack \subseteq OnDisk

\* A completion is made from what the files say now, those that were only looked
\* for before included, unless a file had come from the fallback host first: its
\* first update gets the version it had there (index.ts:50 and 63).
ServedIsCurrent ==
  \A f \in answered :
    held[f] = Snapshot(codeHolder, f) \/ (f \in fellBack /\ versions[f] = 1)
=============================================================================
