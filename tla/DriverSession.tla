---------------------------- MODULE DriverSession ----------------------------
(***************************************************************************)
(* The connection that the driver for NX-OS (cisco_nxos.py) or SONiC       *)
(* (sonic.py) keeps between commands: connecting, probing after a pause,   *)
(* reconnecting, and falling back from the device's API to SSH, which only *)
(* NX-OS has; and the pool that keeps the driver. The other drivers differ *)
(* from these two and are not modelled.                                    *)
(*                                                                         *)
(* The pool gives a driver one port, which is what it dials for the API    *)
(* and for SSH alike, so that only one of the two can be there. It gives   *)
(* NX-OS the transport of the inventory; any but "nxapi", the default      *)
(* "https" included, means SSH.                                            *)
(*                                                                         *)
(* The host lock lets one command at a time through to the driver. Its     *)
(* steps are exchanges with the device, which may change between them.     *)
(* What the driver shows the outside is the outcome of a command (for      *)
(* SONiC, one that has a path in the API): "answered", "errors" (success   *)
(* is reported, with errors for the results), or "raised".                 *)
(***************************************************************************)
EXTENDS Naturals

CONSTANTS
  Kinds,     \* kinds of drivers: how they dial, "rest" (SONiC), "nxapi" or "ssh"
             \* (NX-OS), and whether it is the API or SSH that listens at their port
  Interval,  \* _keepalive_interval
  Attempts   \* stop_after_attempt

ASSUME DriverSessionAssumption ==
  /\ Kinds \subseteq [transport : {"rest", "nxapi", "ssh"}, port : {"api", "shell"}]
  /\ Interval \in Nat \ {0} /\ Attempts \in Nat \ {0}

VARIABLES
  kind,      \* of the driver, which is the same for ever
  kept,      \* the driver is in ConnectionManager._drivers
  connected, \* _connected
  primary,   \* _nxapi or _client, the client of the API
  ssh,       \* _ssh_transport
  idle,      \* time since _last_command_time
  place,     \* the place in run_show
  tries,     \* attempts at a connection so far
  api, shell, auth,  \* environment: is the device's API up, and its SSH server,
                     \* and are the credentials accepted?
  paused,    \* history: the command under way, or the last one, came after a
             \* pause of Interval
  steady,    \* history: what the driver dials answered all along that command, and
             \* nothing about the device changed
  outcome    \* history: what came of the last command

transports == <<primary, ssh>>
device == <<api, shell, auth>>
history == <<paused, steady, outcome>>
driverVars == <<kind, kept, connected, transports, idle, place, tries, device, history>>

DriverTypeOK ==
  /\ kind \in Kinds
  /\ kept \in BOOLEAN /\ connected \in BOOLEAN
  /\ primary \in {"none", "open"}
  /\ ssh \in {"none", "unopened", "open", "broken"}
  /\ idle \in 0..Interval /\ tries \in 0..(Attempts - 1)
  /\ place \in {"idle", "connecting", "probing", "reconnecting", "using"}
  /\ api \in BOOLEAN /\ shell \in BOOLEAN /\ auth \in BOOLEAN
  /\ paused \in BOOLEAN /\ steady \in BOOLEAN
  /\ outcome \in {"none", "answered", "errors", "raised"}

DriverInit ==
  /\ kind \in Kinds
  /\ kept = FALSE /\ connected = FALSE
  /\ primary = "none" /\ ssh = "none"
  /\ idle = 0 /\ place = "idle" /\ tries = 0
  /\ api \in BOOLEAN /\ shell \in BOOLEAN /\ auth \in BOOLEAN
  /\ paused = FALSE /\ steady = FALSE /\ outcome = "none"

ApiAnswers == kind.port = "api" /\ api
ShellAnswers == kind.port = "shell" /\ shell

\* Something that the driver dials answers, and accepts its credentials.
InOrder ==
  /\ auth
  /\ \/ kind.transport # "ssh" /\ ApiAnswers
     \/ kind.transport # "rest" /\ ShellAnswers

-----------------------------------------------------------------------------
(* A command *)

Settle(result) == place' = "idle" /\ outcome' = result

\* A pause is noticed only by a driver that takes itself for connected.
Begin ==
  /\ place = "idle"
  /\ paused' = (idle = Interval) /\ steady' = InOrder
  /\ \/ /\ ~kept
        /\ place' = "connecting" /\ UNCHANGED <<idle, outcome>>
     \/ /\ kept /\ ~connected
        /\ Settle("raised") /\ UNCHANGED idle
     \/ /\ kept /\ connected /\ idle < Interval
        /\ place' = "using" /\ idle' = 0 /\ UNCHANGED outcome
     \/ /\ kept /\ connected /\ idle = Interval
        /\ place' = "probing" /\ UNCHANGED <<idle, outcome>>
  /\ UNCHANGED <<kind, kept, connected, transports, tries, device>>

\* Does the transport in use carry a command now? A session over SSH is opened
\* by its first command.
ApiCarries == primary = "open" /\ ApiAnswers /\ auth
SshCarries == ShellAnswers /\ (ssh = "open" \/ (ssh = "unopened" /\ auth))

\* Seeded fault: a session is alive if it was ever opened.
ProbeAnswers_AsksSession == ApiCarries \/ (primary = "none" /\ ssh \in {"open", "broken"})

\* _check_alive: over SSH an opened session is asked, an unopened one is taken
\* for none.
ProbeAnswers == ApiCarries \/ (primary = "none" /\ ssh = "open" /\ ShellAnswers)

\* close
Close == primary' = "none" /\ ssh' = "none" /\ connected' = FALSE

\* A driver whose probe fails reconnects.
Probe ==
  /\ place = "probing"
  /\ \/ ProbeAnswers /\ place' = "using" /\ idle' = 0 /\ UNCHANGED <<connected, transports>>
     \/ ~ProbeAnswers /\ place' = "reconnecting" /\ Close /\ UNCHANGED idle
  /\ UNCHANGED <<kind, kept, tries, device, history>>

Connected ==
  /\ connected' = TRUE /\ kept' = TRUE
  /\ place' = "using" /\ idle' = 0 /\ tries' = 0
  /\ UNCHANGED outcome

\* Seeded fault: attempts are not counted anew.
AttemptFails_KeepsCount ==
  /\ tries' = tries + 1
  /\ IF tries' < Attempts THEN UNCHANGED <<place, outcome>> ELSE Settle("raised")
  /\ UNCHANGED <<kept, connected, transports, idle>>

\* The last of the attempts raises its error to the caller. What is left is a
\* driver that is not connected: a new one is dropped, an old one stays.
AttemptFails ==
  /\ IF tries + 1 < Attempts
     THEN tries' = tries + 1 /\ UNCHANGED <<place, outcome>>
     ELSE tries' = 0 /\ Settle("raised")
  /\ UNCHANGED <<kept, connected, transports, idle>>

DialsApi == kind.transport # "ssh"

\* The API answers and accepts the credentials.
Attach ==
  /\ DialsApi /\ ApiAnswers /\ auth
  /\ primary' = "open" /\ UNCHANGED ssh
  /\ Connected

\* "do NOT fallback to SSH for 401/403"
Reject == DialsApi /\ ApiAnswers /\ ~auth /\ AttemptFails

\* Seeded fault: SSH is opened at once, and has to answer.
FallBack_TriesSsh ==
  /\ kind.transport # "rest" /\ ~(DialsApi /\ ApiAnswers)
  /\ \/ ShellAnswers /\ auth /\ ssh' = "unopened" /\ UNCHANGED primary /\ Connected
     \/ ~(ShellAnswers /\ auth) /\ AttemptFails

\* SSH, for want of an API that answers or as the configured transport. It is not
\* tried before the first command needs it.
FallBack ==
  /\ kind.transport # "rest" /\ ~(DialsApi /\ ApiAnswers)
  /\ ssh' = "unopened" /\ UNCHANGED primary
  /\ Connected

Miss == kind.transport = "rest" /\ ~ApiAnswers /\ AttemptFails

\* _connect_with_retry, one attempt
Attempt ==
  /\ place \in {"connecting", "reconnecting"}
  /\ Attach \/ Reject \/ FallBack \/ Miss
  /\ UNCHANGED <<kind, device, paused, steady>>

Use ==
  /\ place = "using"
  /\ IF primary # "none"
     THEN Settle(IF ApiCarries THEN "answered" ELSE "errors") /\ UNCHANGED ssh
     ELSE /\ Settle(IF SshCarries THEN "answered" ELSE "errors")
          /\ ssh' = IF SshCarries THEN "open" ELSE ssh
  /\ UNCHANGED <<kind, kept, connected, primary, idle, tries, device, paused, steady>>

-----------------------------------------------------------------------------
(* The environment *)

\* Sessions over SSH do not survive what serves them.
Broken(transport) == IF transport = "open" THEN "broken" ELSE transport

Disturb == steady' = FALSE

\* The client of the API sends every command in a request of its own.
ApiChanges ==
  /\ api' = ~api
  /\ Disturb
  /\ UNCHANGED <<kind, kept, connected, transports, idle, place, tries>>
  /\ UNCHANGED <<shell, auth, paused, outcome>>

ShellChanges ==
  /\ shell' = ~shell
  /\ ssh' = IF shell THEN Broken(ssh) ELSE ssh
  /\ Disturb
  /\ UNCHANGED <<kind, kept, connected, primary, idle, place, tries>>
  /\ UNCHANGED <<api, auth, paused, outcome>>

AuthChanges ==
  /\ auth' = ~auth
  /\ Disturb
  /\ UNCHANGED <<kind, kept, connected, transports, idle, place, tries>>
  /\ UNCHANGED <<api, shell, paused, outcome>>

\* A session may also end alone, by a time-out of the device's.
SessionEnds ==
  /\ ssh' = Broken(ssh)
  /\ Disturb
  /\ UNCHANGED <<kind, kept, connected, primary, idle, place, tries, device>>
  /\ UNCHANGED <<paused, outcome>>

\* The pool makes room for another device.
Evict ==
  /\ kept /\ place = "idle"
  /\ kept' = FALSE /\ Close
  /\ UNCHANGED <<kind, idle, place, tries, device, history>>

Tick ==
  /\ idle < Interval
  /\ idle' = idle + 1
  /\ UNCHANGED <<kind, kept, connected, transports, place, tries, device, history>>

DriverNext ==
  \/ Begin \/ Probe \/ Attempt \/ Use
  \/ ApiChanges \/ ShellChanges \/ AuthChanges \/ SessionEnds
  \/ Evict \/ Tick

DriverSpec == DriverInit /\ [][DriverNext]_driverVars

-----------------------------------------------------------------------------
(* Properties *)

\* Stale connections are recycled: however the SSH session broke and whatever the
\* driver fell back to, a command that comes after a pause, while what the driver
\* dials answers, is answered. The one exception is a driver that an earlier, failed
\* reconnection left in the pool without a connection: it is never probed again, and
\* raises for every command.
PauseHeals ==
  paused /\ steady /\ place = "idle" =>
    outcome = "answered" \/ (outcome = "raised" /\ ~connected)

\* A driver with SSH to go to is not left behind like that by any outage, as long as
\* the credentials are never refused.
FallbackStaysConnected ==
  []auth => [](kind.transport # "rest" /\ kept /\ place = "idle" => connected)
=============================================================================
