------------------------- MODULE ServerLifecycleProofs -------------------------
(***************************************************************************)
(* Proofs about ServerLifecycle, for any number of requests and any        *)
(* settings: the order Serial keeps, that no two requests leave a server   *)
(* behind with nothing holding it, what deactivation leaves and that       *)
(* what the status bar shows of a server at rest is so.  All of them hold  *)
(* with starts and stops that fail.                                        *)
(***************************************************************************)
EXTENDS ServerLifecycle, TLAPS

Idle == {"unasked", "waiting", "settled"}
Step(j) == Proceed(j) \/ Answered(j)

\* What a request under way knows of the client held: it has let go of the old one, and
\* listens to none, and only the request that started a client is at its start.
ClientOfRequest ==
  \A j \in Request : /\ at[j] \in {"stopping", "launching", "probing"} =>
                          client = 0 /\ listener = 0
                     /\ at[j] = "stopping" => taken[j] # 0
                     /\ at[j] = "starting" => client = j

\* Where a server may be whose start and stop did not fail.
ServersHeld == Owned \subseteq {client} \cup {taken[j] : j \in Stopping}

IInv == TypeOK /\ ClientOfRequest /\ ServersHeld

\* A request that is under way, or whose turn it is, is the only one.
LEMMA OnlyOne ==
  ASSUME TypeOK, NEW j \in Request, at[j] \notin Idle \/ Turn(j)
  PROVE  \A i \in Request \ {j} : at[i] \in Idle
<1>1. SUFFICES ASSUME NEW i \in Request \ {j}, at[i] \notin Idle PROVE FALSE
  OBVIOUS
<1>2. at[i] \notin {"unasked", "waiting"} /\ at[i] # "settled" /\ at[j] # "settled"
  BY <1>1 DEF Idle, Turn
<1>3. CASE i < j
  <2>1. at[j] \notin {"unasked", "waiting"} => at[i] = "settled"
    BY <1>3 DEF TypeOK, InOrder
  <2>2. Turn(j) => at[i] = "settled"
    BY <1>3 DEF Turn, Request
  <2> QED BY <1>2, <2>1, <2>2 DEF Idle
<1>4. CASE j < i
  BY <1>2, <1>4 DEF TypeOK, InOrder
<1> QED BY <1>1, <1>3, <1>4 DEF Request

\* Init establishes every part.
LEMMA InitIInv == Init => IInv
<1>1. ASSUME Init PROVE TypeOK
  BY <1>1, BoundAssumption DEF Init, TypeOK, InOrder, Request, At, State
<1>2. ASSUME Init PROVE ClientOfRequest /\ ServersHeld
  BY <1>2 DEF Init, ClientOfRequest, ServersHeld, Stopping, Owned
<1> QED BY <1>1, <1>2 DEF IInv

\* A request that moves on keeps the order.
LEMMA MoveKeepsOrder ==
  ASSUME TypeOK, NEW j \in Request, at[j] \notin Idle \/ Turn(j), requests' = requests,
         NEW to \in At \ {"unasked", "waiting"}, Move(j, to)
  PROVE  InOrder' /\ at' \in [Request -> At] /\ at'[j] = to
           /\ \A i \in Request \ {j} : at'[i] = at[i]
<1>1. at' = [at EXCEPT ![j] = to] /\ at \in [Request -> At] BY DEF Move, TypeOK
<1>2. at' \in [Request -> At] /\ at'[j] = to /\ \A i \in Request \ {j} : at'[i] = at[i]
  BY <1>1
<1>3. at[j] # "unasked" /\ at[j] # "settled" BY DEF Idle, Turn
<1>4. \A i \in Request : at'[i] = "unasked" <=> i > requests'
  BY <1>2, <1>3 DEF TypeOK, InOrder
<1>5. ASSUME NEW h \in Request, NEW i \in Request, h < i, at'[i] \notin {"unasked", "waiting"}
      PROVE  at'[h] = "settled"
  <2>1. CASE i = j
    <3>1. at[h] = "settled" BY <1>5, <2>1, <1>3 DEF Turn, Idle, TypeOK, InOrder, Request
    <3> QED BY <1>2, <1>5, <2>1, <3>1 DEF Request
  <2>2. CASE i # j
    BY <1>2, <1>3, <1>5, <2>2 DEF TypeOK, InOrder
  <2> QED BY <2>1, <2>2
<1> QED BY <1>2, <1>4, <1>5 DEF InOrder

\* A request keeps the types, the order, what is known of the client and where servers are.
LEMMA StepIInv == ASSUME IInv, NEW j \in Request, Step(j) PROVE IInv'
<1> USE BoundAssumption, SettingsAssumption
<1>0. TypeOK /\ ClientOfRequest /\ ServersHeld BY DEF IInv
<1>1. CASE Shutdown(j)
  <2>1. PICK to \in {"launching", "settled", "stopping"} :
           Move(j, to) /\ (to = "stopping" <=> client # 0)
    BY <1>1 DEF Shutdown, AfterStop
  <2>2. InOrder' /\ at' \in [Request -> At] /\ at'[j] = to
           /\ \A i \in Request \ {j} : at'[i] = at[i]
    <3>1. to \in At \ {"unasked", "waiting"} BY <2>1 DEF At
    <3> QED BY <1>0, <1>1, <2>1, <3>1, MoveKeepsOrder DEF Shutdown
  <2>3. \A i \in Request \ {j} : at[i] \in Idle
    BY <1>0, <1>1, OnlyOne DEF Shutdown
  <2>4. TypeOK'
    BY <1>0, <1>1, <2>2 DEF TypeOK, Shutdown, Enter, State, Request
  <2>5. ClientOfRequest'
    <3>1. client' = 0 /\ listener' = 0 /\ taken'[j] = client
      BY <1>0, <1>1 DEF Shutdown, TypeOK
    <3> QED BY <2>1, <2>2, <2>3, <3>1 DEF ClientOfRequest, Idle
  <2>6. ServersHeld'
    <3>1. Stopping = {} BY <1>1, <2>3 DEF Stopping, Shutdown, Turn, Idle
    <3>2. Owned \subseteq {client} /\ 0 \notin Owned
      BY <1>0, <3>1 DEF ServersHeld, TypeOK, Request, Owned
    <3>3. taken'[j] = client /\ Owned' = Owned
      BY <1>0, <1>1 DEF Shutdown, TypeOK, Owned
    <3>4. client # 0 => j \in Stopping' BY <2>1, <2>2 DEF Stopping
    <3> QED BY <3>2, <3>3, <3>4 DEF ServersHeld
  <2> QED BY <2>4, <2>5, <2>6 DEF IInv
<1>2. CASE ClientStops(j) \/ ClientStopFails(j)
  <2>1. PICK to \in {"launching", "settled"} : Move(j, to)
    BY <1>2 DEF ClientStops, ClientStopFails, AfterStop
  <2>2. InOrder' /\ at' \in [Request -> At] /\ at'[j] = to
           /\ \A i \in Request \ {j} : at'[i] = at[i]
    <3>1. to \in At \ {"unasked", "waiting"} /\ at[j] \notin Idle
      BY <1>2, <2>1 DEF At, Idle, ClientStops, ClientStopFails
    <3> QED BY <1>0, <1>2, <2>1, <3>1, MoveKeepsOrder DEF ClientStops, ClientStopFails
  <2>3. \A i \in Request \ {j} : at[i] \in Idle
    BY <1>0, <1>2, OnlyOne DEF ClientStops, ClientStopFails, Idle
  <2>4. client = 0 /\ client' = 0 /\ listener' = 0 /\ 0 \notin Owned
    BY <1>0, <1>2 DEF ClientOfRequest, ClientStops, ClientStopFails, TypeOK, Request, Owned
  <2>5. Owned \subseteq {taken[j]}
    BY <1>0, <2>3, <2>4 DEF ServersHeld, Stopping, Idle
  <2>6. TypeOK'
    <3>1. taken[j] \in Request
      BY <1>0, <1>2 DEF TypeOK, ClientOfRequest, ClientStops, ClientStopFails, Request
    <3>2. loose' \subseteq Request
      BY <1>0, <1>2, <3>1 DEF TypeOK, ClientStops, ClientStopFails
    <3> QED BY <1>0, <1>2, <2>2, <3>2
         DEF TypeOK, ClientStops, ClientStopFails, Enter, State, Request
  <2>7. ClientOfRequest'
    BY <2>1, <2>2, <2>3, <2>4 DEF ClientOfRequest, Idle
  <2>8. ServersHeld'
    BY <1>2, <2>5 DEF ServersHeld, ClientStops, ClientStopFails, Owned
  <2> QED BY <2>6, <2>7, <2>8 DEF IInv
<1>3. CASE Launch(j) \/ ProbeFails(j) \/ LaunchThrows(j)
  <2>1. PICK to \in {"probing", "settled"} : Move(j, to)
    BY <1>3 DEF Launch, ProbeFails, LaunchThrows
  <2>2. at[j] \in {"launching", "probing"} /\ UNCHANGED <<requests, kind, taken, settings, client, listener, alive, loose, failed, disposing>>
    BY <1>3 DEF Launch, ProbeFails, LaunchThrows, held
  <2>3. InOrder' /\ at' \in [Request -> At] /\ at'[j] = to
           /\ \A i \in Request \ {j} : at'[i] = at[i]
    <3>1. to \in At \ {"unasked", "waiting"} /\ at[j] \notin Idle
      BY <2>1, <2>2 DEF At, Idle
    <3> QED BY <1>0, <2>1, <2>2, <3>1, MoveKeepsOrder
  <2>4. read' \in [Request -> Settings] /\ state' \in State
    BY <1>0, <1>3 DEF TypeOK, Launch, ProbeFails, LaunchThrows, Enter, State, held
  <2>5. TypeOK'
    BY <1>0, <2>2, <2>3, <2>4 DEF TypeOK
  <2>6. ClientOfRequest'
    BY <1>0, <2>1, <2>2, <2>3 DEF ClientOfRequest
  <2>7. Stopping' = Stopping
    BY <2>1, <2>2, <2>3 DEF Stopping
  <2>8. ServersHeld'
    BY <1>0, <2>2, <2>7 DEF ServersHeld, Owned
  <2> QED BY <2>5, <2>6, <2>8 DEF IInv
<1>4. CASE Spawn(j) \/ Started(j) \/ StartFails(j)
  <2>1. PICK to \in {"starting", "settled"} :
           Move(j, to) /\ (to = "starting" => Spawn(j))
    BY <1>4 DEF Spawn, Started, StartFails
  <2>2. at[j] \in {"probing", "starting"} /\ UNCHANGED <<requests, kind, taken, read, settings, loose, disposing>>
    BY <1>4 DEF Spawn, Started, StartFails
  <2>3. InOrder' /\ at' \in [Request -> At] /\ at'[j] = to
           /\ \A i \in Request \ {j} : at'[i] = at[i]
    <3>1. to \in At \ {"unasked", "waiting"} /\ at[j] \notin Idle
      BY <2>1, <2>2 DEF At, Idle
    <3> QED BY <1>0, <2>1, <2>2, <3>1, MoveKeepsOrder
  <2>4. \A i \in Request \ {j} : at[i] \in Idle
    BY <1>0, <2>2, OnlyOne DEF Idle
  <2>5. Stopping = {} BY <2>2, <2>4 DEF Stopping, Idle
  <2>6. Owned \subseteq {j}
    BY <1>0, <2>2, <2>5 DEF ServersHeld, ClientOfRequest, TypeOK, Request, Owned
  <2>7. TypeOK'
    <3>1. /\ client' \in 0..MaxRequests /\ listener' \in 0..MaxRequests
      BY <1>0, <1>4 DEF TypeOK, Spawn, Started, StartFails, Request
    <3>2. alive' \subseteq Request /\ failed' \subseteq Request
      BY <1>0, <1>4 DEF TypeOK, Spawn, Started, StartFails
    <3>3. state' \in State
      BY <1>4 DEF Spawn, Started, StartFails, Enter, State
    <3> QED BY <1>0, <2>2, <2>3, <3>1, <3>2, <3>3 DEF TypeOK
  <2>8. ClientOfRequest'
    <3>1. to = "starting" => client' = j BY <2>1 DEF Spawn
    <3> QED BY <2>1, <2>3, <2>4, <3>1 DEF ClientOfRequest, Idle
  <2>9. ServersHeld'
    <3>1. CASE Spawn(j)
      BY <2>6, <3>1 DEF ServersHeld, Spawn, Owned
    <3>2. CASE Started(j)
      BY <1>0, <2>6, <3>2 DEF ServersHeld, Started, ClientOfRequest, Owned
    <3>3. CASE StartFails(j)
      BY <2>6, <3>3 DEF ServersHeld, StartFails, Owned
    <3> QED BY <1>4, <3>1, <3>2, <3>3
  <2> QED BY <2>7, <2>8, <2>9 DEF IInv
<1> QED BY <1>1, <1>2, <1>3, <1>4 DEF Step, Proceed, Answered

\* What the user asks for, and what the server does by itself, keep all of it.
LEMMA NextIInv == IInv /\ [Next]_vars => IInv'
<1> USE BoundAssumption, SettingsAssumption
<1>1. SUFFICES ASSUME IInv, [Next]_vars PROVE IInv'
  OBVIOUS
<1>0. TypeOK /\ ClientOfRequest /\ ServersHeld BY <1>1 DEF IInv
<1>2. ASSUME NEW k \in {"start", "stop"}, Ask(k), settings' \in Settings,
             disposing' \in -1..MaxRequests
      PROVE  IInv'
  <2>1. requests + 1 \in Request /\ requests' = requests + 1
    BY <1>0, <1>2 DEF Ask, TypeOK, Request
  <2>2. at' = [at EXCEPT ![requests + 1] = "waiting"] /\ at[requests + 1] = "unasked"
    BY <1>0, <1>2, <2>1 DEF Ask, TypeOK, InOrder
  <2>3. at' \in [Request -> At] /\ at'[requests + 1] = "waiting"
          /\ \A i \in Request \ {requests + 1} : at'[i] = at[i]
    BY <1>0, <2>1, <2>2 DEF TypeOK, At
  <2>4. InOrder'
    <3>1. \A i \in Request : at'[i] = "unasked" <=> i > requests'
      BY <1>0, <2>1, <2>3 DEF TypeOK, InOrder, Request
    <3>2. \A h, i \in Request :
            h < i /\ at'[i] \notin {"unasked", "waiting"} => at'[h] = "settled"
      BY <1>0, <2>1, <2>2, <2>3 DEF TypeOK, InOrder
    <3> QED BY <3>1, <3>2 DEF InOrder
  <2>5. TypeOK'
    <3>1. kind' \in [Request -> {"start", "stop"}] /\ requests' \in 0..MaxRequests
      BY <1>0, <1>2, <2>1 DEF Ask, TypeOK, Request
    <3> QED BY <1>0, <1>2, <2>3, <2>4, <3>1 DEF Ask, held, TypeOK
  <2>6. Stopping' = Stopping /\ UNCHANGED <<taken, client, listener, alive, loose, failed>>
    BY <1>2, <2>1, <2>2, <2>3 DEF Stopping, Ask, held
  <2>7. ClientOfRequest' /\ ServersHeld'
    BY <1>0, <2>3, <2>6 DEF ClientOfRequest, ServersHeld, Owned
  <2> QED BY <2>5, <2>7 DEF IInv
<1>3. CASE Restart \/ ChangeSettings \/ Deactivate
  <2>1. settings' \in Settings /\ disposing' \in -1..MaxRequests
    BY <1>0, <1>3 DEF Restart, ChangeSettings, Deactivate, Ask, TypeOK
  <2> QED BY <1>2, <1>3, <2>1 DEF Restart, ChangeSettings, Deactivate
<1>4. CASE Dispose
  BY <1>0, <1>4 DEF IInv, Dispose, TypeOK, InOrder, ClientOfRequest, ServersHeld, Owned, Stopping, job, held
<1>5. ASSUME NEW j \in Request, Crash(j) \/ Revive(j) PROVE IInv'
  <2>1. UNCHANGED <<requests, kind, at, taken, read, settings, client, listener, loose, failed, disposing>>
    BY <1>5 DEF Crash, Revive, job
  <2>2. alive' \subseteq Request /\ state' \in State
    BY <1>0, <1>5 DEF Crash, Revive, Hear, Enter, TypeOK, State
  <2>3. TypeOK' BY <1>0, <2>1, <2>2 DEF TypeOK, InOrder
  <2>4. ClientOfRequest' BY <1>0, <2>1 DEF ClientOfRequest
  <2>5. ServersHeld'
    BY <1>0, <1>5, <2>1 DEF ServersHeld, Owned, Stopping, Crash, Revive
  <2> QED BY <2>3, <2>4, <2>5 DEF IInv
<1>6. CASE UNCHANGED vars
  BY <1>0, <1>6 DEF IInv, vars, TypeOK, InOrder, ClientOfRequest, ServersHeld, Owned, Stopping, job, held
<1> QED BY <1>1, <1>3, <1>4, <1>5, <1>6, StepIInv DEF Next, Step

\* The types hold, and requests begin in the order they were made, each when those before
\* it have settled.
THEOREM Ordered == Spec => []TypeOK
<1>1. IInv => TypeOK BY DEF IInv
<1> QED BY InitIInv, NextIInv, <1>1, PTL DEF Spec

\* However requests, crashes and failed starts and stops fall, one server at most belongs
\* to a client whose start and stop did not fail, and the extension holds it or is
\* stopping it.
THEOREM NoneLeftBehind == Spec => []NoServerLeftBehind
<1>1. ASSUME IInv PROVE NoServerLeftBehind
  <2>1. TypeOK /\ ClientOfRequest /\ ServersHeld BY <1>1 DEF IInv
  <2>2. ASSUME NEW a \in Owned, NEW b \in Owned PROVE a = b
    <3>1. a # 0 /\ b # 0 BY <2>1 DEF TypeOK, Request, Owned
    <3>2. CASE client # 0
      <4>1. Stopping = {} BY <2>1, <3>2 DEF ClientOfRequest, Stopping
      <4> QED BY <2>1, <4>1 DEF ServersHeld
    <3>3. CASE client = 0
      <4>1. PICK i \in Stopping : a = taken[i] BY <2>1, <3>1, <3>3 DEF ServersHeld
      <4>2. PICK j \in Stopping : b = taken[j] BY <2>1, <3>1, <3>3 DEF ServersHeld
      <4>3. i \in Request /\ j \in Request /\ at[i] = "stopping" /\ at[j] = "stopping"
        BY DEF Stopping
      <4>4. i = j BY <2>1, <4>3, OnlyOne DEF Idle
      <4> QED BY <4>1, <4>2, <4>4
    <3> QED BY <3>2, <3>3
  <2> QED BY <2>1, <2>2 DEF NoServerLeftBehind, ServersHeld
<1> QED BY InitIInv, NextIInv, <1>1, PTL DEF Spec

-----------------------------------------------------------------------------
(* What the status bar shows, and what deactivation leaves.                 *)

\* The client whose changes are heard is the one held, or one let go of when its start
\* failed.
ClientHeard == IF client = 0 THEN listener \in failed \cup {0} ELSE listener = client

\* Only a start goes on to launch a client.
StartsLaunch ==
  \A j \in Request : at[j] \in {"launching", "probing", "starting"} => kind[j] = "start"

\* What is shown while a request is under way, and when none is.
StatusOfRequest ==
  /\ \A j \in Request : at[j] \in {"launching", "probing"} => state = "stopped"
  /\ (\A j \in Request : at[j] \in Idle) /\ listener \notin failed =>
       (state = "running" <=> client \in alive)

\* The last start goes by the settings of now, since each change of them asks for another.
LastApplied ==
  requests > 0 /\ kind[requests] = "start" =>
    /\ at[requests] \in {"probing", "starting"} =>
         read[requests] = settings /\ settings \in Enabled
    /\ at[requests] = "starting" => settings \in Found
    /\ at[requests] = "settled" =>
         /\ client # 0 => client = requests /\ read[requests] = settings
         /\ settings \notin Enabled => client = 0 /\ listener = 0 /\ state = "disabled"
         /\ settings \in Enabled \ Found => client = 0 /\ listener = 0 /\ state = "unavailable"

\* The one stop is the one deactivate asked for.
OneStop ==
  /\ disposing # 0 => requests > 0
  /\ \A j \in Request : kind[j] = "stop" =>
       j <= requests /\ (disposing = j \/ (disposing = -1 /\ at[j] = "settled"))

\* A stop that settled last left no server.
StopLeavesNone ==
  requests > 0 /\ kind[requests] = "stop" /\ at[requests] = "settled" =>
    client = 0 /\ alive \subseteq loose \cup failed

Shown ==
  ClientHeard /\ StartsLaunch /\ StatusOfRequest /\ LastApplied /\ OneStop /\ StopLeavesNone

\* Nothing has been asked for, and nothing is held.
LEMMA InitShown == Init => Shown
  BY BoundAssumption DEF Init, Shown, ClientHeard, StartsLaunch, StatusOfRequest, LastApplied, OneStop,
     StopLeavesNone, Request, Idle

\* When the last request is not waiting, the ones before it have settled.
LEMMA LastIsAlone ==
  ASSUME TypeOK, NEW j \in Request, at[j] \notin Idle \/ Turn(j),
         requests > 0, at[requests] \notin {"unasked", "waiting"}
  PROVE  j = requests
<1>1. at[j] \notin {"unasked", "settled"} BY DEF Idle, Turn
<1>2. j <= requests /\ requests \in Request BY <1>1 DEF TypeOK, InOrder, Request
<1>3. j < requests => at[j] = "settled" BY <1>2 DEF TypeOK, InOrder
<1> QED BY <1>1, <1>2, <1>3 DEF TypeOK, Request

\* A request that stops the old client.
LEMMA ShutdownShown ==
  ASSUME IInv, Shown, NEW j \in Request,
         Shutdown(j) \/ ClientStops(j) \/ ClientStopFails(j)
  PROVE  Shown'
<1> USE BoundAssumption, SettingsAssumption
<1>0. TypeOK /\ ClientOfRequest /\ ServersHeld /\ TypeOK'
  BY StepIInv DEF IInv, Step, Proceed, Answered
<1>1. PICK to \in {"launching", "settled", "stopping"} :
        Move(j, to) /\ (to = "settled" => kind[j] = "stop")
                    /\ (to = "launching" => kind[j] = "start")
                    /\ (to = "stopping" => Shutdown(j) /\ client # 0)
  BY <1>0 DEF Shutdown, ClientStops, ClientStopFails, AfterStop, TypeOK
<1>2. at'[j] = to /\ \A i \in Request \ {j} : at'[i] = at[i]
  BY <1>0, <1>1 DEF Move, TypeOK
<1>3. UNCHANGED <<requests, kind, read, settings, disposing>> /\ at[j] # "settled"
  BY DEF Shutdown, ClientStops, ClientStopFails, Turn
<1>4. \A i \in Request \ {j} : at[i] \in Idle
  BY <1>0, OnlyOne DEF Shutdown, ClientStops, ClientStopFails, Idle
<1>5. client' = 0 /\ 0 \notin alive' /\ alive' \subseteq alive /\ loose \subseteq loose' /\ failed' = failed
  BY <1>0 DEF Shutdown, ClientStops, ClientStopFails, TypeOK, ClientOfRequest, Request
<1>6. listener' = 0
  BY <1>0 DEF Shutdown, ClientStops, ClientStopFails, ClientOfRequest
<1>7. to # "stopping" => state' = "stopped" /\ alive' \subseteq loose' \cup failed'
  <2>1. CASE Shutdown(j)
    <3>1. Stopping = {} BY <1>4, <2>1 DEF Stopping, Shutdown, Turn, Idle
    <3>2. to # "stopping" => client = 0 /\ state' = "stopped"
      <4>1. client # 0 => at'[j] = "stopping"
        BY <1>0, <2>1 DEF Shutdown, Move, TypeOK
      <4> QED BY <1>2, <2>1, <4>1 DEF Shutdown, Enter
    <3> QED BY <1>0, <1>5, <2>1, <3>1, <3>2 DEF ServersHeld, Shutdown, Owned
  <2>2. CASE ClientStops(j) \/ ClientStopFails(j)
    <3>1. client = 0 /\ Stopping = {j}
      BY <1>0, <1>4, <2>2 DEF ClientOfRequest, Stopping, ClientStops, ClientStopFails, Idle
    <3>2. alive \subseteq loose \cup failed \cup {0, taken[j]}
      BY <1>0, <3>1 DEF ServersHeld, Owned
    <3> QED BY <1>5, <2>2, <3>2 DEF ClientStops, ClientStopFails, Enter
  <2> QED BY <2>1, <2>2
<1>8. ClientHeard'
  BY <1>5, <1>6 DEF ClientHeard, Shown
<1>9. StatusOfRequest'
  <2>1. to # "settled" => at'[j] \notin Idle BY <1>2, <1>1 DEF Idle
  <2>2. to = "settled" => state' = "stopped" BY <1>7
  <2>3. to = "launching" => state' = "stopped" BY <1>7
  <2> QED BY <1>1, <1>2, <1>4, <1>5, <2>1, <2>2, <2>3 DEF StatusOfRequest, Idle
<1>10. LastApplied'
  <2>1. SUFFICES ASSUME requests > 0, kind[requests] = "start"
                 PROVE  at'[requests] \notin {"probing", "starting", "settled"}
    BY <1>3 DEF LastApplied
  <2>2. requests \in Request BY <1>0, <2>1 DEF TypeOK, Request
  <2>3. CASE requests = j BY <1>1, <1>2, <2>1, <2>3
  <2>4. CASE requests # j
    <3>1. at[requests] \in {"unasked", "waiting"}
      BY <1>0, <2>1, <2>4, LastIsAlone DEF Shutdown, ClientStops, ClientStopFails, Idle
    <3> QED BY <1>2, <2>2, <2>4, <3>1
  <2> QED BY <2>3, <2>4
<1>11. OneStop'
  BY <1>2, <1>3 DEF OneStop, Shown
<1>12. StopLeavesNone'
  <2>1. SUFFICES ASSUME requests > 0, kind[requests] = "stop", at'[requests] = "settled"
                 PROVE  alive' \subseteq loose' \cup failed'
    BY <1>3, <1>5 DEF StopLeavesNone
  <2>2. requests \in Request BY <1>0, <2>1 DEF TypeOK, Request
  <2>3. CASE requests = j BY <1>2, <1>7, <2>1, <2>3
  <2>4. CASE requests # j
    <3>1. at[requests] \in {"unasked", "waiting"}
      BY <1>0, <2>1, <2>4, LastIsAlone DEF Shutdown, ClientStops, ClientStopFails, Idle
    <3> QED BY <1>2, <2>1, <2>2, <2>4, <3>1
  <2> QED BY <2>3, <2>4
<1>13. StartsLaunch' BY <1>1, <1>2, <1>3 DEF StartsLaunch, Shown
<1> QED BY <1>8, <1>9, <1>10, <1>11, <1>12, <1>13 DEF Shown

\* A request that reads the settings and probes the binary.
LEMMA LaunchShown ==
  ASSUME IInv, Shown, NEW j \in Request, Launch(j) \/ ProbeFails(j) \/ LaunchThrows(j)
  PROVE  Shown'
<1> USE BoundAssumption, SettingsAssumption
<1>0. TypeOK /\ ClientOfRequest /\ ServersHeld BY DEF IInv
<1>1. PICK to \in {"probing", "settled"} : Move(j, to)
  BY DEF Launch, ProbeFails, LaunchThrows
<1>2. at'[j] = to /\ \A i \in Request \ {j} : at'[i] = at[i]
  BY <1>0, <1>1 DEF Move, TypeOK
<1>3. at[j] \in {"launching", "probing"}
        /\ UNCHANGED <<requests, kind, settings, client, listener, alive, loose, failed, disposing>>
  BY DEF Launch, ProbeFails, LaunchThrows, held
<1>4. \A i \in Request \ {j} : at[i] \in Idle
  BY <1>0, <1>3, OnlyOne DEF Idle
<1>5. client = 0 /\ listener = 0 /\ 0 \notin alive /\ state = "stopped"
  BY <1>0, <1>3 DEF TypeOK, ClientOfRequest, Request, Shown, StatusOfRequest
<1>6. to = "probing" => state' = "stopped"
  <2>1. ProbeFails(j) \/ LaunchThrows(j) => at'[j] = "settled"
    BY <1>0 DEF ProbeFails, LaunchThrows, Move, TypeOK
  <2>2. Launch(j) => at'[j] = "settled" \/ state' = state
    BY <1>0 DEF Launch, Move, TypeOK
  <2> QED BY <1>2, <1>5, <2>1, <2>2
<1>7. state' # "running"
  BY <1>5 DEF Launch, ProbeFails, LaunchThrows, Enter, held
<1>8. ClientHeard' BY <1>3 DEF ClientHeard, Shown
<1>9. StatusOfRequest'
  BY <1>1, <1>2, <1>3, <1>4, <1>5, <1>6, <1>7 DEF StatusOfRequest, Idle
<1>10. LastApplied'
  <2>1. SUFFICES ASSUME requests > 0, kind[requests] = "start",
                        at'[requests] \in {"probing", "starting", "settled"}
                 PROVE  /\ at'[requests] = "probing" =>
                             read'[requests] = settings /\ settings \in Enabled
                        /\ at'[requests] # "starting"
                        /\ at'[requests] = "settled" =>
                             /\ settings \notin Enabled => state' = "disabled"
                             /\ settings \in Enabled \ Found => state' = "unavailable"
    BY <1>3, <1>5 DEF LastApplied
  <2>2. requests \in Request BY <1>0, <2>1 DEF TypeOK, Request
  <2>3. requests = j
    <3>1. CASE at[requests] \in {"unasked", "waiting"} BY <1>2, <2>1, <2>2, <3>1
    <3>2. CASE at[requests] \notin {"unasked", "waiting"}
      BY <1>0, <1>3, <2>1, <3>2, LastIsAlone DEF Idle
    <3> QED BY <3>1, <3>2
  <2>4. at[j] = "probing" => read[j] = settings /\ settings \in Enabled
    BY <2>1, <2>3 DEF Shown, LastApplied
  <2>5. CASE Launch(j)
    <3>1. read'[j] = settings BY <1>0, <2>5 DEF Launch, TypeOK
    <3>2. settings \in Enabled => at'[j] = "probing"
      BY <1>0, <2>5 DEF Launch, Move, TypeOK
    <3>3. settings \notin Enabled => at'[j] = "settled" /\ state' = "disabled"
      BY <1>0, <2>5 DEF Launch, Move, Enter, TypeOK
    <3> QED BY <2>3, <3>1, <3>2, <3>3
  <2>6. CASE ProbeFails(j)
    <3>1. at'[j] = "settled" /\ state' = "unavailable" /\ at[j] = "probing"
      BY <1>0, <2>6 DEF ProbeFails, Move, Enter, TypeOK
    <3> QED BY <2>3, <2>4, <3>1
  <2>7. CASE LaunchThrows(j)
    <3>1. at'[j] = "settled" /\ read[j] \in Found /\ at[j] = "probing"
      BY <1>0, <2>7 DEF LaunchThrows, Move, TypeOK
    <3> QED BY <2>3, <2>4, <3>1
  <2> QED BY <2>5, <2>6, <2>7
<1>11. OneStop' BY <1>2, <1>3 DEF OneStop, Shown
<1>12. StopLeavesNone'
  <2>1. SUFFICES ASSUME requests > 0, kind[requests] = "stop", at'[requests] = "settled"
                 PROVE  alive \subseteq loose \cup failed
    BY <1>3, <1>5 DEF StopLeavesNone
  <2>2. Stopping = {} BY <1>3, <1>4 DEF Stopping, Idle
  <2> QED BY <1>0, <1>5, <2>2 DEF ServersHeld, Owned
<1>13. StartsLaunch' BY <1>1, <1>2, <1>3 DEF StartsLaunch, Shown
<1> QED BY <1>8, <1>9, <1>10, <1>11, <1>12, <1>13 DEF Shown

\* A request that starts a client.
LEMMA SpawnShown ==
  ASSUME IInv, Shown, NEW j \in Request, Spawn(j) \/ Started(j) \/ StartFails(j)
  PROVE  Shown'
<1> USE BoundAssumption, SettingsAssumption
<1>0. TypeOK /\ ClientOfRequest /\ ServersHeld BY DEF IInv
<1>1. PICK to \in {"starting", "settled"} :
        Move(j, to) /\ (to = "starting" => Spawn(j))
                    /\ (to = "settled" => Started(j) \/ StartFails(j))
  BY DEF Spawn, Started, StartFails
<1>2. at'[j] = to /\ \A i \in Request \ {j} : at'[i] = at[i]
  BY <1>0, <1>1 DEF Move, TypeOK
<1>3. at[j] \in {"probing", "starting"}
        /\ UNCHANGED <<requests, kind, read, settings, loose, disposing>>
  BY DEF Spawn, Started, StartFails
<1>4. \A i \in Request \ {j} : at[i] \in Idle
  BY <1>0, <1>3, OnlyOne DEF Idle
<1>5. j # 0 /\ 0 \notin alive BY <1>0 DEF TypeOK, Request
<1>6. at[j] = "starting" => client = j /\ listener = j
  BY <1>0, <1>5 DEF ClientOfRequest, Shown, ClientHeard
<1>7. ClientHeard'
  <2>1. CASE Spawn(j) BY <1>5, <2>1 DEF Spawn, ClientHeard
  <2>2. CASE Started(j) BY <2>2 DEF Started, Shown, ClientHeard
  <2>3. CASE StartFails(j) BY <1>6, <2>3 DEF StartFails, ClientHeard
  <2> QED BY <2>1, <2>2, <2>3
<1>8. StatusOfRequest'
  <2>1. to = "settled" => listener' \in failed' \/ (state' = "running" <=> client' \in alive')
    <3>1. CASE Started(j) BY <1>6, <3>1 DEF Started, Enter
    <3>2. CASE StartFails(j) BY <1>6, <3>2 DEF StartFails, Enter
    <3> QED BY <1>1, <3>1, <3>2
  <2> QED BY <1>1, <1>2, <1>4, <2>1 DEF StatusOfRequest, Idle
<1>9. LastApplied'
  <2>1. SUFFICES ASSUME requests > 0, kind[requests] = "start",
                        at'[requests] \in {"probing", "starting", "settled"}
                 PROVE  /\ read[requests] = settings /\ settings \in Enabled
                        /\ settings \in Found
                        /\ client' # 0 => client' = requests
    BY <1>3 DEF LastApplied
  <2>2. requests \in Request BY <1>0, <2>1 DEF TypeOK, Request
  <2>3. requests = j
    <3>1. CASE at[requests] \in {"unasked", "waiting"} BY <1>2, <2>1, <2>2, <3>1
    <3>2. CASE at[requests] \notin {"unasked", "waiting"}
      BY <1>0, <1>3, <2>1, <3>2, LastIsAlone DEF Idle
    <3> QED BY <3>1, <3>2
  <2>4. read[j] = settings /\ settings \in Enabled
    BY <1>3, <2>1, <2>3 DEF Shown, LastApplied
  <2>5. settings \in Found
    BY <1>3, <2>1, <2>3, <2>4 DEF Shown, LastApplied, Spawn, Started, StartFails
  <2>6. client' # 0 => client' = j
    BY <1>6 DEF Spawn, Started, StartFails
  <2> QED BY <2>3, <2>4, <2>5, <2>6
<1>10. OneStop' BY <1>2, <1>3 DEF OneStop, Shown
<1>11. StopLeavesNone'
  <2>1. SUFFICES ASSUME requests > 0, kind[requests] = "stop", at'[requests] = "settled"
                 PROVE  FALSE
    BY <1>3 DEF StopLeavesNone
  <2>2. requests \in Request BY <1>0, <2>1 DEF TypeOK, Request
  <2>3. kind[j] = "start" BY <1>3 DEF StartsLaunch, Shown
  <2>4. at[requests] = "settled" BY <1>2, <2>1, <2>2, <2>3
  <2> QED BY <1>0, <1>3, <2>1, <2>3, <2>4, LastIsAlone DEF Idle
<1>12. StartsLaunch' BY <1>1, <1>2, <1>3 DEF StartsLaunch, Shown
<1> QED BY <1>7, <1>8, <1>9, <1>10, <1>11, <1>12 DEF Shown

\* What the user asks for, and what the server does by itself.
LEMMA NextShown == IInv /\ Shown /\ [Next]_vars => Shown'
<1> USE BoundAssumption, SettingsAssumption
<1>1. SUFFICES ASSUME IInv, Shown, [Next]_vars PROVE Shown'
  OBVIOUS
<1>0. TypeOK /\ ClientOfRequest /\ ServersHeld BY <1>1 DEF IInv
<1>2. ASSUME NEW k \in {"start", "stop"}, Ask(k), disposing # -1,
             \/ k = "start" /\ UNCHANGED disposing
             \/ k = "stop" /\ disposing = 0 /\ disposing' = requests + 1
      PROVE  Shown'
  <2>1. /\ requests + 1 \in Request /\ requests' = requests + 1
        /\ requests \in Nat /\ requests' > 0
    BY <1>0, <1>2 DEF Ask, TypeOK, Request
  <2>2. at' = [at EXCEPT ![requests + 1] = "waiting"] /\ at[requests + 1] = "unasked"
    BY <1>0, <1>2, <2>1 DEF Ask, TypeOK, InOrder
  <2>3. /\ at'[requests + 1] = "waiting" /\ kind'[requests + 1] = k
        /\ \A i \in Request \ {requests + 1} : at'[i] = at[i] /\ kind'[i] = kind[i]
    BY <1>0, <1>2, <2>1, <2>2 DEF TypeOK, Ask
  <2>4. UNCHANGED <<taken, client, listener, alive, loose, failed, state>>
    BY <1>2 DEF Ask, held
  <2>5. ClientHeard' BY <1>1, <2>4 DEF ClientHeard, Shown
  <2>6. StartsLaunch' BY <1>1, <2>3 DEF StartsLaunch, Shown
  <2>7. StatusOfRequest'
    <3>1. (\A i \in Request : at'[i] \in Idle) => \A i \in Request : at[i] \in Idle
      BY <2>2, <2>3 DEF Idle
    <3> QED BY <1>1, <2>3, <2>4, <3>1 DEF StatusOfRequest, Shown
  <2>8. LastApplied' BY <2>1, <2>3 DEF LastApplied
  <2>9. OneStop'
    <3>1. disposing' # 0 => requests' > 0 BY <2>1
    <3>2. ASSUME NEW i \in Request, kind'[i] = "stop"
          PROVE  i <= requests' /\ (disposing' = i \/ (disposing' = -1 /\ at'[i] = "settled"))
      <4>1. CASE i = requests + 1 BY <1>2, <2>1, <2>3, <3>2, <4>1
      <4>2. CASE i # requests + 1
        <5>1. kind[i] = "stop" /\ i <= requests /\ disposing = i
          BY <1>1, <1>2, <2>3, <3>2, <4>2 DEF OneStop, Shown
        <5> QED BY <1>2, <2>1, <5>1 DEF Request
      <4> QED BY <4>1, <4>2
    <3> QED BY <3>1, <3>2 DEF OneStop
  <2>10. StopLeavesNone' BY <2>1, <2>3 DEF StopLeavesNone
  <2> QED BY <2>5, <2>6, <2>7, <2>8, <2>9, <2>10 DEF Shown
<1>3. CASE Restart \/ ChangeSettings \/ Deactivate
  BY <1>2, <1>3 DEF Restart, ChangeSettings, Deactivate
<1>4. CASE Dispose
  <2>1. /\ UNCHANGED <<requests, kind, at, read, settings, client, listener, alive, loose, failed, state>>
        /\ disposing' = -1 /\ disposing \in Request /\ at[disposing] = "settled"
    BY <1>4 DEF Dispose, job, held
  <2>2. ClientHeard' /\ StartsLaunch' /\ StatusOfRequest' /\ LastApplied' /\ StopLeavesNone'
    BY <1>1, <2>1 DEF ClientHeard, StartsLaunch, StatusOfRequest, LastApplied, StopLeavesNone, Shown
  <2>3. OneStop' BY <1>1, <2>1 DEF OneStop, Shown, Request
  <2> QED BY <2>2, <2>3 DEF Shown
<1>5. ASSUME NEW j \in Request, Crash(j) \/ Revive(j) PROVE Shown'
  <2>1. UNCHANGED <<requests, kind, at, taken, read, settings, client, listener, loose, failed, disposing>>
    BY <1>5 DEF Crash, Revive, job
  <2>2. j # 0 /\ (client = 0 => alive' \subseteq alive \cup failed)
    BY <1>5 DEF Crash, Revive, Request
  <2>3. listener = 0 => state' = state
    BY <1>5, <2>2 DEF Crash, Revive, Hear
  <2>4. ClientHeard' BY <1>1, <2>1 DEF ClientHeard, Shown
  <2>5. client # 0 => /\ j # client => state' = state /\ (client \in alive' <=> client \in alive)
                      /\ j = client => (state' = "running" <=> client \in alive')
    BY <1>1, <1>5 DEF Crash, Revive, Hear, Enter, Shown, ClientHeard
  <2>6. StartsLaunch' /\ OneStop' BY <1>1, <2>1 DEF StartsLaunch, OneStop, Shown
  <2>7. StatusOfRequest'
    <3>1. \A i \in Request : at[i] \in {"launching", "probing"} => state' = "stopped"
      BY <1>0, <1>1, <2>3 DEF StatusOfRequest, Shown, ClientOfRequest
    <3>2. ASSUME \A i \in Request : at[i] \in Idle, listener \notin failed
          PROVE  state' = "running" <=> client \in alive'
      <4>1. state = "running" <=> client \in alive
        BY <1>1, <3>2 DEF StatusOfRequest, Shown
      <4>2. 0 \notin alive /\ 0 \notin alive'
        BY <1>0, <1>5 DEF TypeOK, Request, Crash, Revive
      <4>3. client = 0 => listener = 0 BY <1>1, <3>2 DEF Shown, ClientHeard
      <4> QED BY <2>3, <2>5, <4>1, <4>2, <4>3
    <3> QED BY <2>1, <3>1, <3>2 DEF StatusOfRequest
  <2>8. LastApplied' BY <1>1, <2>1, <2>3 DEF LastApplied, Shown
  <2>9. StopLeavesNone' BY <1>1, <2>1, <2>2 DEF StopLeavesNone, Shown
  <2> QED BY <2>4, <2>6, <2>7, <2>8, <2>9 DEF Shown
<1>6. ASSUME NEW j \in Request, Step(j) PROVE Shown'
  BY <1>1, <1>6, ShutdownShown, LaunchShown, SpawnShown DEF Step, Proceed, Answered
<1>7. CASE UNCHANGED vars
  BY <1>1, <1>7 DEF vars, job, held, Shown, ClientHeard, StartsLaunch, StatusOfRequest,
     LastApplied, OneStop, StopLeavesNone
<1> QED BY <1>1, <1>3, <1>4, <1>5, <1>6, <1>7 DEF Next, Step

\* Deactivation leaves no server but those whose start or stop was reported to have
\* failed, unless something was asked for while its stop waited: a crash, a revival or a
\* request still under way when it was asked for brings back no other.
THEOREM DeactivationIsFinal == Spec => []DeactivationStops
<1>1. ASSUME IInv, Shown PROVE DeactivationStops
  <2>1. SUFFICES ASSUME disposing = -1, kind[requests] = "stop"
                 PROVE  client = 0 /\ alive \subseteq loose \cup failed
    BY DEF DeactivationStops
  <2>2. requests \in Request BY <1>1, <2>1 DEF IInv, TypeOK, Shown, OneStop, Request
  <2>3. at[requests] = "settled" BY <1>1, <2>1, <2>2 DEF Shown, OneStop, Request
  <2> QED BY <1>1, <2>1, <2>2, <2>3 DEF Shown, StopLeavesNone, Request
<1> QED BY InitIInv, InitShown, NextIInv, NextShown, <1>1, PTL DEF Spec

\* When no request is under way the status bar says whether the held client has a server,
\* unless a client whose start failed is still listened to, and what runs, or why nothing does, follows from the settings of now.
THEOREM StatusIsTrue == Spec => []QuietIsSettled
<1>1. ASSUME IInv, Shown, Quiet PROVE QuietIsSettled
  <2>1. \A j \in Request : at[j] \in Idle BY <1>1 DEF Quiet, Idle
  <2>2. listener \notin failed => (state = "running" <=> client \in alive)
    BY <1>1, <2>1 DEF Shown, StatusOfRequest
  <2>3. ASSUME disposing = 0, requests > 0
        PROVE  kind[requests] = "start" /\ at[requests] = "settled"
    <3>1. requests \in Request BY <1>1, <2>3 DEF IInv, TypeOK, Request
    <3>2. at[requests] = "settled" BY <1>1, <3>1 DEF IInv, TypeOK, InOrder, Quiet, Request
    <3>3. kind[requests] # "stop" BY <1>1, <2>3, <3>1 DEF Shown, OneStop
    <3> QED BY <1>1, <3>1, <3>2, <3>3 DEF IInv, TypeOK
  <2> QED BY <1>1, <2>2, <2>3 DEF QuietIsSettled, Shown, LastApplied
<1>2. ASSUME IInv, Shown PROVE QuietIsSettled
  BY <1>1, <1>2 DEF QuietIsSettled
<1> QED BY InitIInv, InitShown, NextIInv, NextShown, <1>2, PTL DEF Spec
=============================================================================
