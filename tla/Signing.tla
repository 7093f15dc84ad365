------------------------------ MODULE Signing ------------------------------
(* signing-utils: jobs that sign a file each.  A remote job uploads script and *)
(* file to a working directory all of them share, runs the script over ssh and *)
(* downloads the result; a local one runs the script where the file is.        *)
EXTENDS FiniteSets

CONSTANTS
  Jobs,
  Remote,    \* the jobs that sign on the server; the others share a directory
  Detached   \* the jobs whose signature is a file of its own (gpg)

ASSUME SigningAssumption == Remote \subseteq Jobs /\ Detached \subseteq Jobs

SigningPlaces == {"server", "here"}
PlaceOf(j) == IF j \in Remote THEN "server" ELSE "here"

VARIABLES
  step,       \* where sign() is, "resolved" or "rejected" in the end
  connected,  \* the jobs with a connection
  closed,     \* the jobs whose connection was ended by disconnect() or is lost
  script,     \* garasign.sh on the server: "absent", "partial" or "whole"
  copy,       \* the job's file on the server: the same, or "original" or "signed"
  signatures, \* the jobs whose detached signature is on the server, beside the file
  artifact,   \* what sign() is to change, the file or the detached signature:
              \* "original", "torn" or "signed"
  process,    \* the script of a job: "none", "prepared", "signed", "failed" or
              \* "skipped", cut off before it signs, with a status of 0
  prepared,   \* the places with an environment file and a docker login
  unharmed    \* ghost: the jobs that met neither a fault nor another job

signingVars ==
  <<step, connected, closed, script, copy, signatures, artifact, process, prepared, unharmed>>

SigningInit ==
  /\ step = [j \in Jobs |-> "idle"]
  /\ connected = {} /\ closed = {}
  /\ script = "absent" /\ copy = [j \in Jobs |-> "absent"]
  /\ artifact = [j \in Jobs |-> "original"]
  /\ process = [j \in Jobs |-> "none"]
  /\ prepared = {} /\ unharmed = {} /\ signatures = {}

Over == {"resolved", "rejected"}
Active(j) == step[j] \notin {"idle"} \cup Over \/ process[j] # "none"

SignStep(j, from, to) == step[j] = from /\ step' = [step EXCEPT ![j] = to]

\* An operation over the connection: it has to be there.
Online(j) == j \in connected

-----------------------------------------------------------------------------
(* sign() and getSigningClient().                                             *)

\* Deviation: every job signs over ssh.
AlwaysSsh(j) == TRUE

UsesSsh(j) == j \in Remote

StartSigning(j) ==
  /\ IF UsesSsh(j)
     THEN /\ SignStep(j, "idle", "script") /\ script' = "partial"
          /\ connected' = connected \cup {j}
     ELSE SignStep(j, "idle", "run") /\ UNCHANGED <<script, connected>>
  /\ unharmed' = IF \E k \in Jobs : Active(k) THEN {} ELSE unharmed \cup {j}
  /\ UNCHANGED <<closed, copy, artifact, process, prepared, signatures>>

SshFails(j) ==
  /\ j \in Remote /\ SignStep(j, "idle", "rejected")
  /\ UNCHANGED <<connected, closed, script, copy, artifact, process, prepared,
                 unharmed, signatures>>

\* Deviation: the upload of the script is not awaited.
NotAwaited(j) == script

\* init(): while somebody uploads the script it is not all there.
ScriptSent(j) == IF \E k \in Jobs \ {j} : step[k] = "script" THEN script ELSE "whole"

ScriptUploaded(j) ==
  /\ Online(j) /\ SignStep(j, "script", "upload")
  /\ script' = ScriptSent(j)
  /\ UNCHANGED <<connected, closed, copy, artifact, process, prepared, unharmed,
                 signatures>>

Uploaded(j) ==
  /\ Online(j) /\ SignStep(j, "upload", "run")
  /\ copy' = [copy EXCEPT ![j] = "original"]
  /\ UNCHANGED <<connected, closed, script, artifact, process, prepared, unharmed,
                 signatures>>

\* garasign.sh: the environment file and the login.
ScriptStarts(j) ==
  /\ step[j] = "run" /\ process[j] = "none" /\ (j \in Remote => Online(j))
  /\ process' = [process EXCEPT ![j] = "prepared"]
  /\ prepared' = prepared \cup {PlaceOf(j)}
  /\ UNCHANGED <<step, connected, closed, script, copy, artifact, unharmed, signatures>>

\* The shell reads the script as it goes, and finds the end of a partial one.
ScriptIsCutOff(j) ==
  /\ j \in Remote /\ script = "partial"
  /\ \/ step[j] = "run" /\ process[j] = "none" /\ Online(j)
     \/ process[j] = "prepared"
  /\ process' = [process EXCEPT ![j] = "skipped"]
  /\ UNCHANGED <<step, connected, closed, script, copy, artifact, prepared, unharmed,
                 signatures>>

\* docker run: it needs both, and the file, and may fail anyway.  gpg leaves the
\* file as it is and puts its signature beside it.
DockerSigns(j) ==
  /\ process[j] = "prepared" /\ PlaceOf(j) \in prepared
  /\ process' = [process EXCEPT ![j] = "signed"]
  /\ IF j \in Remote
     THEN /\ copy[j] # "absent" /\ UNCHANGED artifact
          /\ IF j \in Detached
             THEN signatures' = signatures \cup {j} /\ UNCHANGED copy
             ELSE copy' = [copy EXCEPT ![j] = "signed"] /\ UNCHANGED signatures
     ELSE artifact' = [artifact EXCEPT ![j] = "signed"] /\ UNCHANGED <<copy, signatures>>
  /\ UNCHANGED <<step, connected, closed, script, prepared, unharmed>>

DockerFails(j) ==
  /\ process[j] = "prepared"
  /\ process' = [process EXCEPT ![j] = "failed"]
  /\ unharmed' = IF PlaceOf(j) \in prepared THEN unharmed \ {j} ELSE unharmed
  /\ UNCHANGED <<step, connected, closed, script, copy, artifact, prepared, signatures>>

\* Deviation: the status of the script is not looked at.
Accepted(status) == TRUE

Successful(status) == status # "failed"

\* The script ends and cleans up; sign() goes on if it still waits for it.
ScriptEnds(j) ==
  /\ process[j] \in {"signed", "failed", "skipped"}
  /\ process' = [process EXCEPT ![j] = "none"]
  /\ prepared' = prepared \ {PlaceOf(j)}
  /\ step' = IF step[j] # "run" THEN step
           ELSE [step EXCEPT ![j] =
             CASE j \notin Remote -> IF Successful(process[j]) THEN "resolved" ELSE "rejected"
               [] Online(j) /\ Successful(process[j]) -> "download"
               [] OTHER -> "remove"]
  /\ UNCHANGED <<connected, closed, script, copy, artifact, unharmed, signatures>>

\* downloadFile() writes over the file itself, or gets gpg's signature.
DownloadStarts(j) ==
  /\ Online(j) /\ SignStep(j, "download", "downloading")
  /\ j \in Detached => j \in signatures
  /\ artifact' = [artifact EXCEPT ![j] = "torn"]
  /\ UNCHANGED <<connected, closed, script, copy, process, prepared, unharmed, signatures>>

OnServer(j) == IF j \in Detached THEN "signed" ELSE copy[j]

Downloaded(j) ==
  /\ Online(j) /\ SignStep(j, "downloading", "remove")
  /\ artifact' = [artifact EXCEPT ![j] = OnServer(j)]
  /\ UNCHANGED <<connected, closed, script, copy, process, prepared, unharmed, signatures>>

\* Whatever fails is caught, and sign() goes on with what is in finally.
StepFails(j) ==
  /\ step[j] \in {"script", "upload", "run", "download", "downloading"} /\ j \in Remote
  /\ step' = [step EXCEPT ![j] = "remove"]
  /\ \E left \in IF step[j] = "upload" THEN {"absent", "partial"} ELSE {copy[j]} :
       copy' = [copy EXCEPT ![j] = left]
  /\ unharmed' = unharmed \ {j}
  /\ UNCHANGED <<connected, closed, script, artifact, process, prepared, signatures>>

\* Deviation: the errors of finally are caught too.
AllCaught(j) == "resolved"

\* A file that cannot be removed is an error that nobody catches.
Outcome(j) == IF Online(j) /\ copy[j] # "absent" THEN "resolved" ELSE "rejected"

\* It is the uploaded file that is removed: gpg's signature stays.
Removed(j) ==
  /\ step[j] = "remove"
  /\ step' = [step EXCEPT ![j] = Outcome(j)]
  /\ IF Online(j) /\ copy[j] # "absent"
     THEN /\ copy' = [copy EXCEPT ![j] = "absent"]
          /\ connected' = connected \ {j} /\ closed' = closed \cup {j}
     ELSE UNCHANGED <<copy, connected, closed>>
  /\ UNCHANGED <<script, signatures, artifact, process, prepared, unharmed>>

\* The connection is lost; a script that runs goes on.
ConnectionLost(j) ==
  /\ Online(j)
  /\ connected' = connected \ {j} /\ closed' = closed \cup {j}
  /\ unharmed' = unharmed \ {j}
  /\ UNCHANGED <<step, script, copy, artifact, process, prepared, signatures>>

SigningNext ==
  \E j \in Jobs :
    \/ StartSigning(j) \/ SshFails(j) \/ ScriptUploaded(j) \/ Uploaded(j)
    \/ ScriptStarts(j) \/ ScriptIsCutOff(j) \/ DockerSigns(j) \/ DockerFails(j)
    \/ ScriptEnds(j) \/ DownloadStarts(j) \/ Downloaded(j) \/ StepFails(j) \/ Removed(j)
    \/ ConnectionLost(j)

SigningSpec == SigningInit /\ [][SigningNext]_signingVars

-----------------------------------------------------------------------------
(* Properties.                                                                *)

\* The types of the variables, and a local job has no connection.
SigningTypeOK ==
  /\ step \in [Jobs -> {"idle", "script", "upload", "run", "download", "downloading",
                      "remove"} \cup Over]
  /\ connected \subseteq Remote /\ closed \subseteq Remote
  /\ script \in {"absent", "partial", "whole"}
  /\ copy \in [Jobs -> {"absent", "partial", "original", "signed"}]
  /\ artifact \in [Jobs -> {"original", "torn", "signed"}]
  /\ process \in [Jobs -> {"none", "prepared", "signed", "failed", "skipped"}]
  /\ prepared \subseteq SigningPlaces /\ unharmed \subseteq Jobs
  /\ signatures \subseteq Remote \cap Detached

\* A remote job that resolves has taken the file it uploaded off the server and
\* its connection down, however it went; only a script that outlives its job
\* could find the file gone.
ResolvedIsTidy ==
  \A j \in Remote : step[j] = "resolved" => copy[j] = "absent" /\ j \in closed \ connected

\* Every signature of gpg that was downloaded stays on the server: removeFile() is
\* called for the uploaded file only.
SignaturesStay ==
  \A j \in Remote \cap Detached : artifact[j] = "signed" => j \in signatures

\* A local job resolves only if its file is signed, although jobs of one
\* directory write and remove the same environment file and log each other out.
LocalIsSigned ==
  \A j \in Jobs \ Remote : step[j] = "resolved" => artifact[j] = "signed"

\* What earlier jobs have left on the server, a script that was cut off, an
\* environment file, files of jobs that lost their connection, does not matter:
\* a job that meets no fault and no other job signs its file.
UnharmedIsSigned ==
  \A j \in unharmed : step[j] \in Over => step[j] = "resolved" /\ artifact[j] = "signed"

\* What sign() leaves behind, whoever else signs at the same time or has signed
\* before.
SigningIsSound == ResolvedIsTidy /\ SignaturesStay /\ LocalIsSigned /\ UnharmedIsSigned
=============================================================================
