------------------------------ MODULE Session ------------------------------
(***************************************************************************)
(* A session of the extension with the language server: the operations     *)
(* start, stop and restart of the extension (editors/code/src/lsp.ts), the  *)
(* messages between VS Code's language client and the server process, and   *)
(* the server's main loop (lsp/main_loop.rs), which handles one event at a  *)
(* time and in some handlers waits for an answer of the client.            *)
(*                                                                         *)
(* What VS Code's language client and tower-lsp do is modelled from how     *)
(* they are used: messages arrive in the order they were sent; the process  *)
(* may crash, and is started anew while the client is running.             *)
(***************************************************************************)
EXTENDS Integers, Sequences, FiniteSets

CONSTANTS
  Requests,     \* the formatting requests an editor may make
  Capacity,     \* the requests that tower-lsp holds before it stops reading
  MaxOperations,  \* bound: the operations the user asks for
  MaxPulls,     \* bound: the times documents are opened or the configuration changes
  MaxCrashes    \* bound: the times the server process crashes

ASSUME CapacityAssumption == Capacity \in Nat

\* What the client and the server send each other besides requests and their answers.
Signals == {"initialize", "initialized", "pull", "ask", "answer", "shutdown"}

ASSUME RequestsAssumption == Requests \cap Signals = {}

VARIABLES
  operations,   \* stateQueue: the operations under way and waiting
  phase,        \* where the operation under way waits
  restarting,   \* whether a start follows the stop under way
  state,        \* LSP.state
  client,       \* whether LSP.client and LSP.binaryPath are set
  fired,        \* the state last told to the subscribers
  process,      \* the client's server process: "none", "running" or "crashed"
  orphaned,     \* whether a process was left running when its client was dropped
  toServer,     \* the messages on their way to the server
  toClient,     \* the messages on their way to the client
  events,       \* events_rx
  mainLoop,     \* "ready", "awaiting" an answer of the client, or "ended"
  requests,     \* what became of each request
  asked, pulls, crashes

extensionVars == <<operations, phase, restarting, state, client, fired>>
serverVars    == <<events, mainLoop>>
sessionVars   == <<extensionVars, process, orphaned, toServer, toClient, serverVars, requests,
                   asked, pulls, crashes>>

Operations == {"start", "stop", "restart"}

-----------------------------------------------------------------------------
(* The extension *)

\* LSP.start, restart and stop: they run one after the other.
Enqueue ==
  /\ asked < MaxOperations /\ asked' = asked + 1
  /\ \E operation \in Operations : operations' = Append(operations, operation)
  /\ UNCHANGED <<phase, restarting, state, client, fired, process, orphaned, toServer, toClient,
                 serverVars, requests, pulls, crashes>>

\* An operation ends, be it with an error: the next one may begin.
Ended == operations' = Tail(operations) /\ phase' = "idle"

SendToServer(m) == toServer' = Append(toServer, m)

\* Mutant: a start does not look whether there is a client already.
BeginsStartAnyway == TRUE

BeginsStart == state = "Stopped"

\* stopImpl is a no-op unless started; it asks the client to stop.
BeginStop ==
  /\ phase = "idle" /\ operations # <<>>
  /\ \/ Head(operations) = "stop"
     \/ Head(operations) = "restart" /\ state = "Started"
  /\ IF state = "Stopped"
     THEN Ended /\ UNCHANGED <<toServer, restarting>>
     ELSE /\ phase' = "stopping"
          /\ restarting' = (Head(operations) = "restart")
          /\ toServer' = IF process = "running" THEN Append(toServer, "shutdown") ELSE toServer
          /\ UNCHANGED operations
  /\ UNCHANGED <<state, client, fired, process, orphaned, toClient, serverVars, requests, asked,
                 pulls, crashes>>

\* startImpl is a no-op if started; it looks for the folder and the binary first.
BeginStart ==
  /\ phase = "idle" /\ operations # <<>>
  /\ \/ Head(operations) = "start"
     \/ Head(operations) = "restart" /\ state = "Stopped"
  /\ IF BeginsStart
     THEN phase' = "resolving" /\ UNCHANGED operations
     ELSE Ended
  /\ UNCHANGED <<restarting, state, client, fired, process, orphaned, toServer, toClient, serverVars,
                 requests, asked, pulls, crashes>>

NoBinary ==
  /\ phase = "resolving" /\ Ended
  /\ UNCHANGED <<restarting, state, client, fired, process, orphaned, toServer, toClient, serverVars,
                 requests, asked, pulls, crashes>>

\* A new process knows nothing of what was sent to the last one.
Spawned(messages) ==
  /\ process' = "running" /\ toServer' = messages /\ toClient' = <<>>
  /\ events' = <<>> /\ mainLoop' = "ready"

Connect ==
  /\ phase = "resolving" /\ phase' = "connecting"
  /\ Spawned(<<"initialize">>)
  /\ orphaned' = (orphaned \/ process = "running")
  /\ UNCHANGED <<operations, restarting, state, client, fired, requests, asked, pulls, crashes>>

\* What became of the requests when the process or the client is gone.
Rejected == [r \in Requests |-> IF requests[r] = "waiting" THEN "rejected" ELSE requests[r]]

ConnectFails ==
  /\ phase = "connecting" /\ process = "crashed"
  /\ process' = "none" /\ Ended
  /\ UNCHANGED <<orphaned, restarting, state, client, fired, toServer, toClient, serverVars, requests,
                 asked, pulls, crashes>>

\* Mutant: the operation has ended before its last step.
StartedTwice ==
  /\ phase = "connecting" /\ toClient # <<>> /\ Head(toClient) = "initialized"
  /\ toClient' = Tail(toClient)
  /\ SendToServer("initialized")
  /\ state' = "Started" /\ client' = TRUE /\ fired' = "Started"
  /\ operations' = Tail(operations) /\ UNCHANGED phase
  /\ UNCHANGED <<restarting, process, orphaned, serverVars, requests, asked, pulls, crashes>>

\* Only now, when nothing can fail any more, is the state updated.
Started ==
  /\ phase = "connecting" /\ toClient # <<>> /\ Head(toClient) = "initialized"
  /\ toClient' = Tail(toClient)
  /\ SendToServer("initialized")
  /\ state' = "Started" /\ client' = TRUE /\ fired' = "Started"
  /\ Ended
  /\ UNCHANGED <<restarting, process, orphaned, serverVars, requests, asked, pulls, crashes>>

\* Mutant: an error of the client leaves the state as it is.
StoppedUnlessFailed(failed) ==
  /\ state' = IF failed THEN state ELSE "Stopped"
  /\ client' = FALSE /\ fired' = "Stopped"

\* The finally block: stopped, whether the client failed to stop or not.
Stopped(failed) == state' = "Stopped" /\ client' = FALSE /\ fired' = "Stopped"

\* The client has stopped: the process exits, what is still waiting is rejected.
Stop ==
  /\ phase = "stopping"
  /\ \/ toClient # <<>> /\ Head(toClient) = "shutdown"
     \/ process = "crashed"
  /\ \E failed \in BOOLEAN :
       /\ Stopped(failed)
       /\ failed => process = "crashed"
       /\ IF restarting /\ ~failed THEN phase' = "resolving" /\ UNCHANGED operations ELSE Ended
  /\ process' = "none" /\ toServer' = <<>> /\ toClient' = <<>>
  /\ events' = <<>> /\ mainLoop' = "ended"
  /\ requests' = Rejected
  /\ UNCHANGED <<orphaned, restarting, asked, pulls, crashes>>

-----------------------------------------------------------------------------
(* VS Code's language client *)

\* Requests and notifications are sent while the client runs.
Running == state = "Started" /\ phase # "stopping" /\ process = "running"

\* The editor is answered later, or the request is rejected at once.
RequestFormatting ==
  /\ Running
  /\ \E r \in Requests :
       /\ requests[r] = "unsent" /\ requests' = [requests EXCEPT ![r] = "waiting"]
       /\ SendToServer(r)
  /\ UNCHANGED <<extensionVars, process, orphaned, toClient, serverVars, asked, pulls, crashes>>

\* A document is opened, or the configuration changes.
Notify ==
  /\ Running /\ pulls < MaxPulls /\ pulls' = pulls + 1
  /\ SendToServer("pull")
  /\ UNCHANGED <<extensionVars, process, orphaned, toClient, serverVars, requests, asked, crashes>>

\* The client answers from its configuration; the middleware looks for the language's.
Configure == SendToServer("answer")

\* The answers of the server, and its requests, which are answered in turn.
Receive ==
  /\ process = "running" /\ toClient # <<>> /\ toClient' = Tail(toClient)
  /\ LET m == Head(toClient)
     IN  \/ m \in Requests /\ requests' = [requests EXCEPT ![m] = "answered"]
            /\ UNCHANGED toServer
         \/ m = "ask" /\ Configure /\ UNCHANGED requests
         \/ m = "initialized" /\ phase # "connecting" /\ SendToServer("initialized")
            /\ UNCHANGED requests
  /\ UNCHANGED <<extensionVars, process, orphaned, serverVars, asked, pulls, crashes>>

\* While no operation starts or stops it, the client starts a crashed process anew.
Revive ==
  /\ process = "crashed" /\ state = "Started" /\ phase # "stopping"
  /\ Spawned(<<"initialize">>)
  /\ UNCHANGED <<orphaned, extensionVars, requests, asked, pulls, crashes>>

Crash ==
  /\ process = "running" /\ crashes < MaxCrashes /\ crashes' = crashes + 1
  /\ process' = "crashed" /\ requests' = Rejected
  /\ toServer' = <<>> /\ toClient' = <<>> /\ events' = <<>> /\ mainLoop' = "ended"
  /\ UNCHANGED <<orphaned, extensionVars, asked, pulls>>

-----------------------------------------------------------------------------
(* The server *)

InFlight == Cardinality({i \in DOMAIN events : events[i] \in Requests \cup {"shutdown"}})

\* Mutant: answers of the client wait in the queue of events as well.
ReadBehindEvents ==
  /\ process = "running" /\ toServer # <<>>
  /\ toServer' = Tail(toServer)
  /\ events' = Append(events, Head(toServer))
  /\ UNCHANGED <<extensionVars, process, orphaned, toClient, mainLoop, requests, asked, pulls, crashes>>

\* Backend: what the client sends is passed on to the main loop; the answer to a
\* request of the server goes to the handler that awaits it.
Read ==
  /\ process = "running" /\ toServer # <<>>
  /\ toServer' = Tail(toServer)
  /\ LET m == Head(toServer)
     IN  IF m = "answer"
         THEN mainLoop' = "ready" /\ UNCHANGED events
         ELSE InFlight < Capacity /\ events' = Append(events, m) /\ UNCHANGED mainLoop
  /\ UNCHANGED <<extensionVars, process, orphaned, toClient, requests, asked, pulls, crashes>>

Respond(m) == toClient' = Append(toClient, m)

\* handle_initialized registers capabilities, did_open and did_change_configuration
\* pull the configuration: the handler, and the loop, wait for the client.
HandleNotification(m) ==
  /\ m \in {"initialized", "pull"}
  /\ Respond("ask") /\ mainLoop' = "awaiting"

HandleRequest(m) ==
  \/ m = "initialize" /\ Respond("initialized") /\ UNCHANGED mainLoop
  \/ m \in Requests /\ Respond(m) /\ UNCHANGED mainLoop
  \/ m = "shutdown" /\ Respond("shutdown") /\ mainLoop' = "ended"

\* Mutant: a shutdown is handled before what waits.
NextEventIsShutdown ==
  IF \E i \in DOMAIN events : events[i] = "shutdown" THEN "shutdown" ELSE Head(events)

NextEvent == Head(events)

MainLoop ==
  /\ process = "running" /\ mainLoop = "ready" /\ events # <<>>
  /\ events' = Tail(events)
  /\ HandleNotification(NextEvent) \/ HandleRequest(NextEvent)
  /\ UNCHANGED <<extensionVars, process, orphaned, toServer, requests, asked, pulls, crashes>>

-----------------------------------------------------------------------------
SessionInit ==
  /\ operations = <<"start">> /\ phase = "idle" /\ restarting = FALSE
  /\ state = "Stopped" /\ client = FALSE /\ fired = "Stopped"
  /\ process = "none" /\ orphaned = FALSE /\ toServer = <<>> /\ toClient = <<>>
  /\ events = <<>> /\ mainLoop = "ended"
  /\ requests = [r \in Requests |-> "unsent"]
  /\ asked = 0 /\ pulls = 0 /\ crashes = 0

Resolve == NoBinary \/ Connect

SessionNext ==
  \/ Enqueue \/ BeginStop \/ BeginStart \/ Resolve \/ ConnectFails \/ Started \/ Stop
  \/ RequestFormatting \/ Notify \/ Receive \/ Revive \/ Crash
  \/ Read \/ MainLoop

\* The tasks of the server and of the client are scheduled, and promises settle; the
\* user need not do anything, and nothing need crash.
SessionFairness ==
  /\ WF_sessionVars(BeginStop) /\ WF_sessionVars(BeginStart) /\ WF_sessionVars(Resolve)
  /\ WF_sessionVars(ConnectFails) /\ WF_sessionVars(Started) /\ WF_sessionVars(Stop)
  /\ WF_sessionVars(Receive) /\ WF_sessionVars(Revive)
  /\ WF_sessionVars(Read) /\ WF_sessionVars(MainLoop)

SessionSpec == SessionInit /\ [][SessionNext]_sessionVars /\ SessionFairness

-----------------------------------------------------------------------------
(* Properties *)

SessionTypeOK ==
  /\ operations \in Seq(Operations) /\ (phase # "idle" => operations # <<>>)
  /\ phase \in {"idle", "resolving", "connecting", "stopping"}
  /\ state \in {"Started", "Stopped"} /\ fired \in {"Started", "Stopped"}
  /\ client \in BOOLEAN /\ orphaned \in BOOLEAN /\ restarting \in BOOLEAN
  /\ process \in {"none", "running", "crashed"}
  /\ mainLoop \in {"ready", "awaiting", "ended"}
  /\ requests \in [Requests -> {"unsent", "waiting", "answered", "rejected"}]

\* The state, the client and what the subscribers were told agree, whichever await of
\* an operation failed.
StateAgreesWithClient == (state = "Started") = client /\ fired = state

\* There is never a server process that nobody would stop: one is there only for the
\* client of a started state or for the operation under way.
NoOrphans ==
  ~orphaned /\ (process # "none" => state = "Started" \/ phase = "connecting")

\* The main loop ends only after it has answered every request of the client: none is
\* left in its queue, whose end would panic the task that waits for the answer.
AnsweredBeforeShutdown ==
  process = "running" /\ mainLoop = "ended" =>
    \A i \in DOMAIN events : events[i] \notin Requests

\* Every request is answered, or rejected because the server is gone, although the main
\* loop waits for the client in some handlers.
RequestsAreAnswered == \A r \in Requests : requests[r] = "waiting" ~> requests[r] # "waiting"

\* Every operation of the extension comes to its end, with an error or without.
OperationsEnd == operations # <<>> ~> operations = <<>>

=============================================================================
