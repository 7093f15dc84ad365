------------------------------ MODULE DeviceId ------------------------------
(* device-id: one call of getDeviceId(), a race of the machine's id, a timer  *)
(* and an abort signal, and what onError is told of it.                       *)
EXTENDS Integers

CONSTANTS Timeouts  \* what `timeout` may be: "given", "omitted" or "undefined"

VARIABLES
  timeout,  \* the option
  machine,  \* the promise of resolveMachineId()
  timer,    \* the timer
  aborted,  \* did the signal abort, and was it before the call?
  value,    \* what the call resolved with
  by,       \* what decided it
  told,     \* what onError was told, and how often
  early     \* what onError was told before the call resolved

deviceVars == <<timeout, machine, timer, aborted, value, by, told, early>>

Reasons == {"abort", "timeout", "resolutionError"}

\* A parameter's default replaces `undefined` as well, although that is said to
\* disable the timeout.
HasTimer(t) == t \in {"given", "omitted", "undefined"}

DeviceInit ==
  /\ timeout \in Timeouts
  /\ machine = "pending"
  /\ timer = IF HasTimer(timeout) THEN "set" ELSE "none"
  /\ aborted \in {"no", "before"}
  /\ value = "pending" /\ by = "nothing"
  /\ told = [r \in Reasons |-> 0] /\ early = {}

Tell(r) ==
  /\ told' = [told EXCEPT ![r] = @ + 1]
  /\ early' = IF value = "pending" THEN early \cup {r} ELSE early

\* Deviation: the timer is left running.
LeftRunning == timer

Cleared == IF timer = "set" THEN "cleared" ELSE timer

\* The first outcome counts, and finally() clears the timer.
Resolve(v, who) ==
  IF value = "pending" THEN value' = v /\ by' = who /\ timer' = Cleared
  ELSE UNCHANGED <<value, by, timer>>

MachineIdRead ==
  /\ machine = "pending"
  /\ machine' = "id"
  /\ Resolve("id", "machine")
  /\ UNCHANGED <<timeout, aborted, told, early>>

\* No id, or an error: 'unknown', whatever the fallback value is.
MachineIdFails ==
  /\ machine = "pending"
  /\ machine' = "failed"
  /\ Tell("resolutionError")
  /\ Resolve("unknown", "machine")
  /\ UNCHANGED <<timeout, aborted>>

TimerFires ==
  /\ timer = "set"
  /\ Tell("timeout")
  /\ IF value = "pending"
     THEN value' = "fallback" /\ by' = "timeout" /\ timer' = "fired"
     ELSE timer' = "fired" /\ UNCHANGED <<value, by>>
  /\ UNCHANGED <<timeout, machine, aborted>>

\* The listener is never removed; a signal that aborted before has none.
SignalAborts ==
  /\ aborted = "no"
  /\ aborted' = "during"
  /\ Tell("abort")
  /\ Resolve("fallback", "abort")
  /\ UNCHANGED <<timeout, machine>>

DeviceNext == MachineIdRead \/ MachineIdFails \/ TimerFires \/ SignalAborts

DeviceSpec == DeviceInit /\ [][DeviceNext]_deviceVars

-----------------------------------------------------------------------------
(* Properties.                                                                *)

\* The types of the variables; nothing is told twice.
DeviceTypeOK ==
  /\ timeout \in Timeouts
  /\ machine \in {"pending", "id", "failed"}
  /\ timer \in {"none", "set", "fired", "cleared"}
  /\ aborted \in {"no", "before", "during"}
  /\ value \in {"pending", "id", "unknown", "fallback"}
  /\ by \in {"nothing", "machine", "timeout", "abort"}
  /\ told \in [Reasons -> 0 .. 1]
  /\ early \subseteq Reasons

\* What the caller was told when the call resolved is why it resolved so: an id
\* comes without a complaint, anything else with exactly one, and a timeout is
\* only ever reported by a call that it decided.
ToldWhy ==
  /\ early = CASE by \in {"timeout", "abort"} -> {by}
               [] by = "machine" /\ value = "unknown" -> {"resolutionError"}
               [] OTHER -> {}
  /\ told["timeout"] > 0 => by = "timeout"
=============================================================================
