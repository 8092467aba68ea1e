---------------------------- MODULE ServerLifecycle ----------------------------
(***************************************************************************)
(* The VS Code extension's one language server:                            *)
(* editors/vscode/src/extension.ts and serial.ts.  Every start and stop is *)
(* a request that runs behind the ones asked for before it; a request      *)
(* awaits the old client's stop, the probe of the binary and the new       *)
(* client's start, and settings, commands and the server's own crashes     *)
(* come in at each await.  A client whose start failed is forgotten and    *)
(* never stopped.  The client of a request is named after it.              *)
(***************************************************************************)
EXTENDS Integers

CONSTANTS
  MaxRequests,   \* bound: requests in all
  Settings,      \* what a user may set
  Enabled,       \* the settings with ocomment.enable on
  Found,         \* the settings whose ocomment.path answers --version
  Usable         \* the settings whose other values have the types launch needs

ASSUME BoundAssumption == MaxRequests \in Nat
ASSUME SettingsAssumption == Enabled \subseteq Settings /\ Found \subseteq Settings
                               /\ Usable \subseteq Settings

VARIABLES
  requests,    \* how many requests were made
  kind,        \* of each: "start" or "stop"
  at,          \* where each is
  taken,       \* the client each is stopping, or stopped
  read,        \* the settings each launch read
  settings,    \* the settings now
  client,      \* the client held, 0 for none
  listener,    \* the client whose state changes are heard, 0 for none
  alive,       \* the clients that have a server process
  loose,       \* the clients whose stop was reported to have failed
  failed,      \* the clients whose start was reported to have failed
  state,       \* what the status bar shows
  disposing    \* the request deactivate waits for, 0 before, -1 once the listeners are gone

job  == <<requests, kind, at, taken, read>>
held == <<client, listener, alive, loose, failed, state>>
vars == <<job, settings, held, disposing>>

Request == 1..MaxRequests
State == {"stopped", "starting", "running", "disabled", "unavailable"}
At == {"unasked", "waiting", "stopping", "launching", "probing", "starting", "settled"}

Init ==
  /\ requests = 0 /\ settings \in Settings
  /\ kind = [j \in Request |-> "start"] /\ at = [j \in Request |-> "unasked"]
  /\ taken = [j \in Request |-> 0] /\ read = [j \in Request |-> settings]
  /\ client = 0 /\ listener = 0 /\ alive = {} /\ loose = {} /\ failed = {}
  /\ state = "stopped" /\ disposing = 0

-----------------------------------------------------------------------------
(* Who asks.                                                                *)

Ask(k) ==
  /\ requests < MaxRequests /\ requests' = requests + 1
  /\ at' = [at EXCEPT ![requests + 1] = "waiting"]
  /\ kind' = [kind EXCEPT ![requests + 1] = k]
  /\ UNCHANGED <<taken, read, held>>

\* activate, and the command.
Restart == disposing # -1 /\ Ask("start") /\ UNCHANGED <<settings, disposing>>

\* Mutant of ChangeSettings: while a request is under way another is not needed.
ChangeSettingsCoalesced ==
  /\ disposing # -1 /\ settings' \in Settings \ {settings}
  /\ IF \E j \in Request : at[j] \notin {"unasked", "settled"}
     THEN UNCHANGED <<job, held>> ELSE Ask("start")
  /\ UNCHANGED disposing

ChangeSettings ==
  /\ disposing # -1 /\ settings' \in Settings \ {settings}
  /\ Ask("start") /\ UNCHANGED disposing

Deactivate ==
  /\ disposing = 0 /\ Ask("stop") /\ disposing' = requests + 1
  /\ UNCHANGED settings

\* Mutant of Dispose: stop is called and not awaited.
DisposeAtOnce ==
  /\ disposing \in Request
  /\ disposing' = -1
  /\ UNCHANGED <<job, settings, held>>

Dispose ==
  /\ disposing \in Request /\ at[disposing] = "settled"
  /\ disposing' = -1
  /\ UNCHANGED <<job, settings, held>>

-----------------------------------------------------------------------------
(* Serial: a request runs when all before it have settled, however.         *)

\* Mutant of Turn: requests run as they come.
TurnAtOnce(j) == at[j] = "waiting"

\* Mutant of Turn: a request whose launch threw fails those behind it.
TurnIfLaunched(j) ==
  at[j] = "waiting" /\ \A i \in 1..(j - 1) : at[i] = "settled" /\ read[i] \in Usable

Turn(j) == at[j] = "waiting" /\ \A i \in 1..(j - 1) : at[i] = "settled"

Move(j, to) == at' = [at EXCEPT ![j] = to]
AfterStop(j) == Move(j, IF kind[j] = "start" THEN "launching" ELSE "settled")
Enter(s) == state' = s

\* shutdown: the client is forgotten before its stop is awaited.
Shutdown(j) ==
  /\ Turn(j)
  /\ client' = 0 /\ listener' = 0
  /\ taken' = [taken EXCEPT ![j] = client]
  /\ IF client = 0 THEN AfterStop(j) /\ Enter("stopped") ELSE Move(j, "stopping") /\ UNCHANGED state
  /\ UNCHANGED <<requests, kind, read, settings, alive, loose, failed, disposing>>

ClientStops(j) ==
  /\ at[j] = "stopping" /\ AfterStop(j) /\ Enter("stopped")
  /\ alive' = alive \ {taken[j]}
  /\ UNCHANGED <<requests, kind, taken, read, settings, client, listener, loose, failed, disposing>>

\* A stop that fails is logged; whether the process is gone is not known.
ClientStopFails(j) ==
  /\ at[j] = "stopping" /\ AfterStop(j) /\ Enter("stopped")
  /\ loose' = loose \cup {taken[j]}
  /\ UNCHANGED <<requests, kind, taken, read, settings, client, listener, alive, failed, disposing>>

Launch(j) ==
  /\ at[j] = "launching" /\ read' = [read EXCEPT ![j] = settings]
  /\ IF settings \in Enabled THEN Move(j, "probing") /\ UNCHANGED state
                             ELSE Move(j, "settled") /\ Enter("disabled")
  /\ UNCHANGED <<requests, kind, taken, settings, client, listener, alive, loose, failed, disposing>>

\* Nothing to run, or it did not answer in time.
ProbeFails(j) ==
  /\ at[j] = "probing"
  /\ Move(j, "settled") /\ Enter("unavailable")
  /\ UNCHANGED <<requests, kind, taken, read, settings, client, listener, alive, loose, failed, disposing>>

\* A setting that is not of the type launch takes it for: the request is rejected.
LaunchThrows(j) ==
  /\ at[j] = "probing" /\ read[j] \in Found \ Usable
  /\ Move(j, "settled")
  /\ UNCHANGED <<requests, kind, taken, read, settings, held, disposing>>

Spawn(j) ==
  /\ at[j] = "probing" /\ read[j] \in Found \cap Usable
  /\ client' = j /\ listener' = j /\ alive' = alive \cup {j}
  /\ Move(j, "starting") /\ Enter("starting")
  /\ UNCHANGED <<requests, kind, taken, read, settings, loose, failed, disposing>>

Started(j) ==
  /\ at[j] = "starting" /\ j \in alive /\ Move(j, "settled") /\ Enter("running")
  /\ UNCHANGED <<requests, kind, taken, read, settings, client, listener, alive, loose, failed, disposing>>

\* The client is forgotten, not stopped: its server may run on, and it is still heard.
StartFails(j) ==
  /\ at[j] = "starting" /\ Move(j, "settled") /\ Enter("stopped")
  /\ client' = 0 /\ failed' = failed \cup {j}
  /\ UNCHANGED <<requests, kind, taken, read, settings, listener, alive, loose, disposing>>

-----------------------------------------------------------------------------
(* The server by itself.                                                    *)

Hear(j, s) == IF listener = j THEN Enter(s) ELSE UNCHANGED state

\* A server that runs, or is starting, exits.
Crash(j) ==
  /\ j \in alive /\ alive' = alive \ {j} /\ Hear(j, "stopped")
  /\ UNCHANGED <<job, settings, client, listener, loose, failed, disposing>>

\* A language client nobody asked to stop starts its server again, and one whose start
\* failed was never asked to.
Revive(j) ==
  /\ client = j \/ j \in failed
  /\ j \notin alive /\ alive' = alive \cup {j} /\ Hear(j, "running")
  /\ UNCHANGED <<job, settings, client, listener, loose, failed, disposing>>

\* What the extension does once it is its turn; the probe gives up after ten seconds.
Proceed(j) == Shutdown(j) \/ Launch(j) \/ ProbeFails(j) \/ LaunchThrows(j) \/ Spawn(j)

\* What it awaits from the client, without a timeout.
Answered(j) == ClientStops(j) \/ ClientStopFails(j) \/ Started(j) \/ StartFails(j)

Next ==
  \/ Restart \/ ChangeSettings \/ Deactivate \/ Dispose
  \/ \E j \in Request : Proceed(j) \/ Answered(j) \/ Crash(j) \/ Revive(j)

Spec == Init /\ [][Next]_vars

\* A promise that settled runs what awaits it; nothing makes a client answer.
FairSpec == Spec /\ \A j \in Request : WF_vars(Proceed(j))

-----------------------------------------------------------------------------
\* What has been asked for is numbered without a gap, and begins only when all before it
\* have settled (Serial.run).
InOrder ==
  /\ \A j \in Request : at[j] = "unasked" <=> j > requests
  /\ \A i, j \in Request :
       i < j /\ at[j] \notin {"unasked", "waiting"} => at[i] = "settled"

\* The shape of the extension's state, and the order Serial keeps its requests in.
TypeOK ==
  /\ InOrder
  /\ requests \in 0..MaxRequests /\ settings \in Settings
  /\ kind \in [Request -> {"start", "stop"}] /\ at \in [Request -> At]
  /\ taken \in [Request -> 0..MaxRequests] /\ read \in [Request -> Settings]
  /\ client \in 0..MaxRequests /\ listener \in 0..MaxRequests
  /\ alive \subseteq Request /\ loose \subseteq Request /\ failed \subseteq Request
  /\ state \in State /\ disposing \in -1..MaxRequests

Stopping == {j \in Request : at[j] = "stopping"}

\* The servers of the clients whose start did not fail, and whose stop did not.
Owned == alive \ (loose \cup failed)

\* Requests that overlap never leave a server behind with nothing holding it: one of the
\* clients whose start and stop did not fail at most has a server, and it is the one held
\* or the one being stopped (the comment on Serial).
NoServerLeftBehind ==
  /\ \A i, j \in Owned : i = j
  /\ Owned \subseteq {client} \cup {taken[j] : j \in Stopping}

Quiet == \A j \in Request : at[j] \in {"unasked", "settled"}

\* When nothing is under way the status bar says whether the held client has a server,
\* unless it still listens to a client whose start failed (launch, shutdown); and the
\* last change of the settings has been applied: the server was started under them, and
\* none runs when they disable it.
QuietIsSettled ==
  Quiet =>
    /\ listener \notin failed => (state = "running" <=> client \in alive)
    /\ disposing = 0 /\ requests > 0 =>
         /\ client # 0 => read[client] = settings
         /\ settings \notin Enabled => client = 0 /\ state = "disabled"
         /\ settings \in Enabled \ Found => client = 0 /\ state = "unavailable"

\* Deactivation leaves no server but those whose start or stop was reported to have
\* failed, unless something was asked for while it waited (deactivate, dispose).
DeactivationStops ==
  disposing = -1 /\ kind[requests] = "stop" => client = 0 /\ alive \subseteq loose \cup failed

\* Whatever became of the requests before it, a request settles, as long as every start
\* and stop of a client that is awaited ends (Serial.run: the chain remembers that the
\* previous work finished, never how).
EveryRequestSettles ==
  (\A j \in Request : []<>(at[j] \notin {"stopping", "starting"}))
    => \A j \in Request : at[j] = "waiting" ~> at[j] = "settled"
=============================================================================
