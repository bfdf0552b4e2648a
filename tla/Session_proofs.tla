--------------------------- MODULE Session_proofs ---------------------------
(***************************************************************************)
(* Theorems of Session: what holds in every session, whatever the user     *)
(* asks for, however often, and wherever the server process crashes.       *)
(***************************************************************************)
EXTENDS Session, SequenceTheorems, TLAPS

Messages == Requests \cup Signals

-----------------------------------------------------------------------------
(* The inductive invariant *)

QueuesTyped == toServer \in Seq(Messages) /\ toClient \in Seq(Messages) /\ events \in Seq(Messages)

TypeInv == SessionTypeOK /\ QueuesTyped

\* Which state and process there are at each await of an operation.
PhaseInv ==
  /\ phase = "resolving"  => state = "Stopped" /\ process = "none"
  /\ phase = "connecting" => state = "Stopped"
  /\ phase = "stopping"   => state = "Started"

ExtensionInv == StateAgreesWithClient /\ NoOrphans /\ PhaseInv

EndsIn(q) == \E i \in DOMAIN q : q[i] = "shutdown"

WithoutRequests(q) == \A i \in DOMAIN q : q[i] \notin Requests

\* No request is behind a shutdown.
ShutdownIsLast(q) ==
  \A i, j \in DOMAIN q : i < j /\ q[i] = "shutdown" => q[j] \notin Requests

MainLoopEnded == process = "running" /\ mainLoop = "ended"

\* From the shutdown that the client sends while it stops, no request follows, however
\* far the shutdown has come.
QueueInv ==
  /\ ShutdownIsLast(toServer) /\ ShutdownIsLast(events)
  /\ EndsIn(events) => WithoutRequests(toServer)
  /\ MainLoopEnded => WithoutRequests(events) /\ WithoutRequests(toServer)
  /\ EndsIn(toServer) \/ EndsIn(events) \/ MainLoopEnded => phase = "stopping"

SessionInv == TypeInv /\ ExtensionInv /\ QueueInv

-----------------------------------------------------------------------------
(* Queues *)

LEMMA AppendTyped ==
  ASSUME NEW S, NEW q \in Seq(S), NEW m \in S
  PROVE  /\ Append(q, m) \in Seq(S) /\ Append(q, m) # <<>>
         /\ Len(Append(q, m)) = Len(q) + 1
         /\ \A i \in 1 .. Len(q) : Append(q, m)[i] = q[i]
         /\ Append(q, m)[Len(q) + 1] = m
  BY AppendProperties

LEMMA TailTyped ==
  ASSUME NEW S, NEW q \in Seq(S), q # <<>>
  PROVE  /\ Tail(q) \in Seq(S) /\ Len(Tail(q)) = Len(q) - 1
         /\ \A i \in 1 .. Len(q) - 1 : Tail(q)[i] = q[i + 1]
         /\ Head(q) \in S /\ Head(q) = q[1] /\ Len(q) \in Nat \ {0}
  BY HeadTailProperties, EmptySeq

-----------------------------------------------------------------------------
(* Types *)

LEMMA EndedTyped ==
  ASSUME TypeInv, operations # <<>>, Ended
  PROVE  operations' \in Seq(Operations) /\ phase' = "idle"
  BY TailTyped DEF TypeInv, SessionTypeOK, Ended

LEMMA SendTyped ==
  ASSUME TypeInv, NEW m \in Messages, SendToServer(m)
  PROVE  toServer' \in Seq(Messages)
  BY AppendTyped DEF TypeInv, QueuesTyped, SendToServer

LEMMA OperationsTyped ==
  ASSUME TypeInv, Enqueue \/ BeginStop \/ BeginStart \/ NoBinary
  PROVE  TypeInv'
<1>1. CASE Enqueue
  <2>1. PICK operation \in Operations : operations' = Append(operations, operation)
    BY <1>1 DEF Enqueue
  <2>2. operations' \in Seq(Operations) /\ operations' # <<>>
    BY <2>1, AppendTyped DEF TypeInv, SessionTypeOK
  <2>3. QED
    BY <1>1, <2>2 DEF Enqueue, TypeInv, SessionTypeOK, QueuesTyped, serverVars
<1>2. CASE BeginStop
  <2>1. CASE state = "Stopped"
    <3>1. operations' \in Seq(Operations) /\ phase' = "idle"
      BY <1>2, <2>1, EndedTyped DEF BeginStop
    <3>2. QED
      BY <1>2, <2>1, <3>1 DEF BeginStop, TypeInv, SessionTypeOK, QueuesTyped, serverVars
  <2>2. CASE state # "Stopped"
    <3>1. toServer' \in Seq(Messages)
      <4>1. "shutdown" \in Messages
        BY DEF Messages, Signals
      <4>2. QED
        BY <1>2, <2>2, <4>1, AppendTyped DEF BeginStop, TypeInv, QueuesTyped
    <3>2. /\ phase' = "stopping" /\ operations' = operations /\ operations # <<>>
          /\ restarting' \in BOOLEAN
      BY <1>2, <2>2 DEF BeginStop
    <3>3. QED
      BY <1>2, <3>1, <3>2 DEF BeginStop, TypeInv, SessionTypeOK, QueuesTyped, serverVars
  <2>3. QED
    BY <2>1, <2>2
<1>3. CASE BeginStart
  <2>1. CASE BeginsStart
    BY <1>3, <2>1 DEF BeginStart, TypeInv, SessionTypeOK, QueuesTyped, serverVars
  <2>2. CASE ~BeginsStart
    <3>1. operations' \in Seq(Operations) /\ phase' = "idle"
      BY <1>3, <2>2, EndedTyped DEF BeginStart
    <3>2. QED
      BY <1>3, <3>1 DEF BeginStart, TypeInv, SessionTypeOK, QueuesTyped, serverVars
  <2>3. QED
    BY <2>1, <2>2
<1>4. CASE NoBinary
  <2>1. operations' \in Seq(Operations) /\ phase' = "idle"
    BY <1>4, EndedTyped DEF NoBinary, TypeInv, SessionTypeOK
  <2>2. QED
    BY <1>4, <2>1 DEF NoBinary, TypeInv, SessionTypeOK, QueuesTyped, serverVars
<1>5. QED
  BY <1>1, <1>2, <1>3, <1>4

LEMMA ProcessTyped ==
  ASSUME TypeInv, Connect \/ ConnectFails \/ Started \/ Stop \/ Revive \/ Crash
  PROVE  TypeInv'
<1>0. <<>> \in Seq(Messages) /\ <<"initialize">> \in Seq(Messages) /\ "initialized" \in Messages
  BY DEF Messages, Signals
<1>r. Rejected \in [Requests -> {"unsent", "waiting", "answered", "rejected"}]
  BY DEF TypeInv, SessionTypeOK, Rejected
<1>1. CASE Connect
  BY <1>0, <1>1 DEF Connect, Spawned, TypeInv, SessionTypeOK, QueuesTyped
<1>2. CASE ConnectFails
  <2>1. operations' \in Seq(Operations) /\ phase' = "idle"
    BY <1>2, EndedTyped DEF ConnectFails, TypeInv, SessionTypeOK
  <2>2. QED
    BY <1>2, <2>1 DEF ConnectFails, TypeInv, SessionTypeOK, QueuesTyped, serverVars
<1>3. CASE Started
  <2>1. operations' \in Seq(Operations) /\ phase' = "idle"
    BY <1>3, EndedTyped DEF Started, TypeInv, SessionTypeOK
  <2>2. toServer' \in Seq(Messages) /\ toClient' \in Seq(Messages)
    BY <1>0, <1>3, SendTyped, TailTyped DEF Started, TypeInv, QueuesTyped
  <2>3. QED
    BY <1>3, <2>1, <2>2 DEF Started, TypeInv, SessionTypeOK, QueuesTyped, serverVars
<1>4. CASE Stop
  <2>1. operations # <<>>
    BY <1>4 DEF Stop, TypeInv, SessionTypeOK
  <2>2. /\ operations' \in Seq(Operations) /\ phase' \in {"idle", "resolving"}
        /\ phase' # "idle" => operations' # <<>>
        /\ state' = "Stopped" /\ client' = FALSE /\ fired' = "Stopped"
    BY <1>4, <2>1, EndedTyped DEF Stop, Stopped, TypeInv, SessionTypeOK
  <2>3. QED
    BY <1>0, <1>r, <1>4, <2>2 DEF Stop, TypeInv, SessionTypeOK, QueuesTyped
<1>5. CASE Revive
  BY <1>0, <1>5 DEF Revive, Spawned, TypeInv, SessionTypeOK, QueuesTyped, extensionVars
<1>6. CASE Crash
  BY <1>0, <1>r, <1>6 DEF Crash, TypeInv, SessionTypeOK, QueuesTyped, extensionVars
<1>7. QED
  BY <1>1, <1>2, <1>3, <1>4, <1>5, <1>6

LEMMA MessagesTyped ==
  ASSUME TypeInv, RequestFormatting \/ Notify \/ Receive \/ Read \/ MainLoop
  PROVE  TypeInv'
<1>0. Signals \subseteq Messages /\ Requests \subseteq Messages
  BY DEF Messages
<1>1. CASE RequestFormatting
  <2>1. PICK r \in Requests : requests' = [requests EXCEPT ![r] = "waiting"] /\ SendToServer(r)
    BY <1>1 DEF RequestFormatting
  <2>2. toServer' \in Seq(Messages)
    BY <1>0, <2>1, SendTyped
  <2>3. QED
    BY <1>1, <2>1, <2>2
    DEF RequestFormatting, TypeInv, SessionTypeOK, QueuesTyped, extensionVars, serverVars
<1>2. CASE Notify
  <2>1. toServer' \in Seq(Messages)
    BY <1>0, <1>2, SendTyped DEF Notify, Signals
  <2>2. QED
    BY <1>2, <2>1 DEF Notify, TypeInv, SessionTypeOK, QueuesTyped, extensionVars, serverVars
<1>3. CASE Receive
  <2>1. toClient' \in Seq(Messages)
    BY <1>3, TailTyped DEF Receive, TypeInv, QueuesTyped
  <2>2. toServer' \in Seq(Messages)
    BY <1>0, <1>3, SendTyped DEF Receive, Configure, TypeInv, QueuesTyped, Signals
  <2>3. requests' \in [Requests -> {"unsent", "waiting", "answered", "rejected"}]
    BY <1>3 DEF Receive, TypeInv, SessionTypeOK
  <2>4. QED
    BY <1>3, <2>1, <2>2, <2>3
    DEF Receive, TypeInv, SessionTypeOK, QueuesTyped, extensionVars, serverVars
<1>4. CASE Read
  <2>1. toServer' \in Seq(Messages) /\ Head(toServer) \in Messages
    BY <1>4, TailTyped DEF Read, TypeInv, QueuesTyped
  <2>2. /\ events' \in Seq(Messages)
        /\ mainLoop' \in {mainLoop, "ready"}
    BY <1>4, <2>1, AppendTyped DEF Read, TypeInv, QueuesTyped
  <2>3. QED
    BY <1>4, <2>1, <2>2 DEF Read, TypeInv, SessionTypeOK, QueuesTyped, extensionVars
<1>5. CASE MainLoop
  <2>1. events' \in Seq(Messages) /\ NextEvent \in Messages
    BY <1>5, TailTyped DEF MainLoop, NextEvent, TypeInv, QueuesTyped
  <2>2. /\ toClient' \in Seq(Messages)
        /\ mainLoop' \in {mainLoop, "awaiting", "ended"}
    <3>1. toClient \in Seq(Messages) /\ Signals \subseteq Messages /\ Requests \subseteq Messages
      BY <1>0 DEF TypeInv, QueuesTyped
    <3>2. CASE HandleNotification(NextEvent)
      BY <3>1, <3>2, AppendTyped DEF HandleNotification, Respond, Signals
    <3>3. CASE HandleRequest(NextEvent)
      BY <3>1, <3>3, AppendTyped DEF HandleRequest, Respond, Signals
    <3>4. QED
      BY <1>5, <3>2, <3>3 DEF MainLoop
  <2>3. QED
    BY <1>5, <2>1, <2>2 DEF MainLoop, TypeInv, SessionTypeOK, QueuesTyped, extensionVars
<1>6. QED
  BY <1>1, <1>2, <1>3, <1>4, <1>5

LEMMA TypeInvStep == ASSUME TypeInv, SessionNext PROVE TypeInv'
  BY OperationsTyped, ProcessTyped, MessagesTyped DEF SessionNext, Resolve

LEMMA TypeInvInitially == ASSUME SessionInit PROVE TypeInv
<1>1. <<"start">> \in Seq(Operations) /\ <<>> \in Seq(Messages)
  BY DEF Operations
<1>2. QED
  BY <1>1 DEF SessionInit, TypeInv, SessionTypeOK, QueuesTyped

-----------------------------------------------------------------------------
(* The extension *)

LEMMA ExtensionInvStep ==
  ASSUME TypeInv, ExtensionInv, SessionNext
  PROVE  ExtensionInv'
<1>t. /\ client \in BOOLEAN /\ state \in {"Started", "Stopped"} /\ orphaned = FALSE
      /\ phase \in {"idle", "resolving", "connecting", "stopping"}
  BY DEF TypeInv, SessionTypeOK, ExtensionInv, NoOrphans
<1> USE DEF ExtensionInv, StateAgreesWithClient, NoOrphans, PhaseInv
<1>1. CASE Enqueue
  BY <1>1 DEF Enqueue
<1>2. CASE BeginStop
  BY <1>t, <1>2 DEF BeginStop, Ended
<1>3. CASE BeginStart
  BY <1>t, <1>3 DEF BeginStart, BeginsStart, Ended
<1>4. CASE NoBinary
  BY <1>4 DEF NoBinary, Ended
<1>5. CASE Connect
  BY <1>t, <1>5 DEF Connect, Spawned
<1>6. CASE ConnectFails
  BY <1>t, <1>6 DEF ConnectFails, Ended
<1>7. CASE Started
  BY <1>t, <1>7 DEF Started, Ended
<1>8. CASE Stop
  <2>1. /\ state' = "Stopped" /\ client' = FALSE /\ fired' = "Stopped" /\ process' = "none"
        /\ phase' \in {"idle", "resolving"} /\ orphaned' = orphaned
    BY <1>8 DEF Stop, Stopped, Ended
  <2>2. QED
    BY <1>t, <2>1
<1>9. CASE RequestFormatting \/ Notify \/ Receive \/ Read \/ MainLoop
  BY <1>9 DEF RequestFormatting, Notify, Receive, Read, MainLoop, extensionVars
<1>10. CASE Revive
  BY <1>10 DEF Revive, extensionVars
<1>11. CASE Crash
  BY <1>11 DEF Crash, extensionVars
<1>12. QED
  BY <1>1, <1>2, <1>3, <1>4, <1>5, <1>6, <1>7, <1>8, <1>9, <1>10, <1>11 DEF SessionNext, Resolve

-----------------------------------------------------------------------------
(* The shutdown and the requests before it *)

LEMMA SignalsAreNoRequests == ASSUME NEW m \in Signals PROVE m \notin Requests
  BY RequestsAssumption

LEMMA NothingQueued ==
  /\ ShutdownIsLast(<<>>) /\ WithoutRequests(<<>>) /\ ~EndsIn(<<>>)
  /\ ShutdownIsLast(<<"initialize">>) /\ WithoutRequests(<<"initialize">>)
  /\ ~EndsIn(<<"initialize">>)
  BY SignalsAreNoRequests DEF ShutdownIsLast, WithoutRequests, EndsIn, Signals

\* What a message that is appended changes.
LEMMA Appended ==
  ASSUME NEW q \in Seq(Messages), NEW m \in Messages
  PROVE  /\ ShutdownIsLast(q) /\ (EndsIn(q) => m \notin Requests) => ShutdownIsLast(Append(q, m))
         /\ EndsIn(Append(q, m)) => EndsIn(q) \/ m = "shutdown"
         /\ WithoutRequests(q) /\ m \notin Requests => WithoutRequests(Append(q, m))
<1>1. DOMAIN q = 1 .. Len(q) /\ Len(q) \in Nat
  OBVIOUS
<1>2. DOMAIN Append(q, m) = 1 .. Len(q) + 1
  BY AppendTyped
<1>3. \A i \in DOMAIN Append(q, m) :
        \/ i \in DOMAIN q /\ Append(q, m)[i] = q[i]
        \/ i = Len(q) + 1 /\ Append(q, m)[i] = m
  BY <1>1, <1>2, AppendTyped
<1>4. ShutdownIsLast(q) /\ (EndsIn(q) => m \notin Requests) => ShutdownIsLast(Append(q, m))
  <2>1. SUFFICES ASSUME ShutdownIsLast(q), EndsIn(q) => m \notin Requests,
                        NEW i \in DOMAIN Append(q, m), NEW j \in DOMAIN Append(q, m),
                        i < j, Append(q, m)[i] = "shutdown"
                 PROVE  Append(q, m)[j] \notin Requests
    BY DEF ShutdownIsLast
  <2>2. i \in DOMAIN q /\ q[i] = "shutdown"
    BY <1>1, <1>2, <1>3, <2>1
  <2>3. CASE j \in DOMAIN q
    BY <1>1, <1>3, <2>1, <2>2, <2>3 DEF ShutdownIsLast
  <2>4. CASE j \notin DOMAIN q
    BY <1>3, <2>1, <2>2, <2>4 DEF EndsIn
  <2>5. QED
    BY <2>3, <2>4
<1>5. QED
  BY <1>3, <1>4 DEF EndsIn, WithoutRequests

\* What is left when the first message is taken.
LEMMA Taken ==
  ASSUME NEW q \in Seq(Messages), q # <<>>
  PROVE  /\ ShutdownIsLast(q) => ShutdownIsLast(Tail(q))
         /\ ShutdownIsLast(q) /\ Head(q) = "shutdown" => WithoutRequests(Tail(q))
         /\ Head(q) = "shutdown" => EndsIn(q)
         /\ EndsIn(Tail(q)) => EndsIn(q)
         /\ WithoutRequests(q) => WithoutRequests(Tail(q)) /\ Head(q) \notin Requests
<1>1. DOMAIN q = 1 .. Len(q) /\ Len(q) \in Nat \ {0} /\ Head(q) = q[1] /\ 1 \in DOMAIN q
  BY TailTyped
<1>2. DOMAIN Tail(q) = 1 .. Len(q) - 1
  BY TailTyped
<1>3. \A i \in DOMAIN Tail(q) :
        i \in Nat /\ 1 < i + 1 /\ i + 1 \in DOMAIN q /\ Tail(q)[i] = q[i + 1]
  BY <1>1, <1>2, TailTyped
<1>4. ShutdownIsLast(q) => ShutdownIsLast(Tail(q))
  <2>1. SUFFICES ASSUME ShutdownIsLast(q), NEW i \in DOMAIN Tail(q), NEW j \in DOMAIN Tail(q),
                        i < j, Tail(q)[i] = "shutdown"
                 PROVE  Tail(q)[j] \notin Requests
    BY DEF ShutdownIsLast
  <2>2. i + 1 < j + 1
    BY <1>3, <2>1
  <2>3. QED
    BY <1>3, <2>1, <2>2 DEF ShutdownIsLast
<1>5. ShutdownIsLast(q) /\ Head(q) = "shutdown" => WithoutRequests(Tail(q))
  BY <1>1, <1>3 DEF ShutdownIsLast, WithoutRequests
<1>6. QED
  BY <1>1, <1>3, <1>4, <1>5 DEF EndsIn, WithoutRequests

LEMMA OperationsKeepOrder ==
  ASSUME TypeInv, QueueInv, Enqueue \/ BeginStop \/ BeginStart \/ NoBinary
  PROVE  QueueInv'
<1>1. CASE Enqueue
  BY <1>1 DEF Enqueue, QueueInv, MainLoopEnded, ShutdownIsLast, EndsIn, WithoutRequests, serverVars
<1>2. CASE BeginStop
  <2>1. CASE toServer' = toServer
    BY <1>2, <2>1
    DEF BeginStop, Ended, QueueInv, MainLoopEnded, ShutdownIsLast, EndsIn, WithoutRequests, serverVars
  <2>2. CASE toServer' # toServer
    <3>1. /\ toServer' = Append(toServer, "shutdown") /\ phase' = "stopping" /\ phase = "idle"
          /\ UNCHANGED <<events, mainLoop, process>>
      BY <1>2, <2>2 DEF BeginStop, Ended, serverVars
    <3>2. "shutdown" \in Messages /\ "shutdown" \notin Requests /\ toServer \in Seq(Messages)
      BY SignalsAreNoRequests DEF Messages, Signals, TypeInv, QueuesTyped
    <3>3. QED
      BY <3>1, <3>2, Appended DEF QueueInv, MainLoopEnded
  <2>3. QED
    BY <2>1, <2>2
<1>3. CASE BeginStart
  BY <1>3 DEF BeginStart, Ended, QueueInv, MainLoopEnded, serverVars
<1>4. CASE NoBinary
  BY <1>4 DEF NoBinary, Ended, QueueInv, MainLoopEnded, serverVars
<1>5. QED
  BY <1>1, <1>2, <1>3, <1>4

LEMMA ProcessKeepsOrder ==
  ASSUME TypeInv, QueueInv, Connect \/ ConnectFails \/ Started \/ Stop \/ Revive \/ Crash
  PROVE  QueueInv'
<1>1. CASE Connect \/ Revive
  <2>1. /\ toServer' = <<"initialize">> /\ events' = <<>> /\ mainLoop' = "ready"
    BY <1>1 DEF Connect, Revive, Spawned
  <2>2. QED
    BY <2>1, NothingQueued DEF QueueInv, MainLoopEnded
<1>2. CASE Stop \/ Crash
  <2>1. toServer' = <<>> /\ events' = <<>> /\ process' # "running"
    BY <1>2 DEF Stop, Crash
  <2>2. QED
    BY <2>1, NothingQueued DEF QueueInv, MainLoopEnded
<1>3. CASE ConnectFails
  BY <1>3 DEF ConnectFails, Ended, QueueInv, MainLoopEnded, serverVars
<1>4. CASE Started
  <2>1. /\ toServer' = Append(toServer, "initialized") /\ phase = "connecting"
        /\ UNCHANGED <<events, mainLoop, process>>
    BY <1>4 DEF Started, SendToServer, serverVars
  <2>2. "initialized" \in Messages /\ "initialized" \notin Requests /\ toServer \in Seq(Messages)
    BY SignalsAreNoRequests DEF Messages, Signals, TypeInv, QueuesTyped
  <2>3. QED
    BY <2>1, <2>2, Appended DEF QueueInv, MainLoopEnded
<1>5. QED
  BY <1>1, <1>2, <1>3, <1>4

LEMMA MessagesKeepOrder ==
  ASSUME TypeInv, QueueInv, RequestFormatting \/ Notify \/ Receive \/ Read \/ MainLoop
  PROVE  QueueInv'
<1>0. toServer \in Seq(Messages) /\ events \in Seq(Messages)
  BY DEF TypeInv, QueuesTyped
<1>1. CASE RequestFormatting
  <2>1. PICK r \in Requests : toServer' = Append(toServer, r)
    BY <1>1 DEF RequestFormatting, SendToServer
  <2>2. /\ phase # "stopping" /\ r \in Messages /\ r # "shutdown"
        /\ UNCHANGED <<events, mainLoop, process, phase>>
    BY <1>1, SignalsAreNoRequests
    DEF RequestFormatting, Running, extensionVars, serverVars, Messages, Signals
  <2>3. QED
    BY <1>0, <2>1, <2>2, Appended DEF QueueInv, MainLoopEnded
<1>2. CASE Notify \/ Receive
  <2>1. UNCHANGED <<events, mainLoop, process, phase>>
    BY <1>2 DEF Notify, Receive, extensionVars, serverVars
  <2>2. CASE toServer' = toServer
    BY <2>1, <2>2 DEF QueueInv, MainLoopEnded
  <2>3. CASE toServer' # toServer
    <3>1. PICK m \in Signals \ {"shutdown"} : toServer' = Append(toServer, m)
      BY <1>2, <2>3 DEF Notify, Receive, Configure, SendToServer, Signals
    <3>2. m \in Messages /\ m \notin Requests /\ m # "shutdown"
      BY SignalsAreNoRequests DEF Messages
    <3>3. QED
      BY <1>0, <2>1, <3>1, <3>2, Appended DEF QueueInv, MainLoopEnded
  <2>4. QED
    BY <2>2, <2>3
<1>3. CASE Read
  <2>1. /\ toServer # <<>> /\ toServer' = Tail(toServer) /\ Head(toServer) \in Messages
        /\ UNCHANGED <<process, phase>>
    BY <1>0, <1>3, TailTyped DEF Read, extensionVars
  <2>2. CASE Head(toServer) = "answer"
    BY <1>0, <1>3, <2>1, <2>2, Taken DEF Read, QueueInv, MainLoopEnded
  <2>3. CASE Head(toServer) # "answer"
    <3>1. events' = Append(events, Head(toServer)) /\ mainLoop' = mainLoop
      BY <1>3, <2>3 DEF Read
    <3>2. QED
      BY <1>0, <2>1, <3>1, Appended, Taken DEF QueueInv, MainLoopEnded
  <2>4. QED
    BY <2>2, <2>3
<1>4. CASE MainLoop
  <2>1. /\ events # <<>> /\ events' = Tail(events) /\ mainLoop = "ready"
        /\ UNCHANGED <<toServer, process, phase>>
        /\ mainLoop' = "ended" => Head(events) = "shutdown"
    BY <1>4 DEF MainLoop, NextEvent, HandleNotification, HandleRequest, extensionVars
  <2>2. QED
    BY <1>0, <2>1, Taken DEF QueueInv, MainLoopEnded
<1>5. QED
  BY <1>1, <1>2, <1>3, <1>4

-----------------------------------------------------------------------------
(* Every session *)

LEMMA SessionInvInitially == ASSUME SessionInit PROVE SessionInv
<1>1. ExtensionInv
  BY DEF SessionInit, ExtensionInv, StateAgreesWithClient, NoOrphans, PhaseInv
<1>2. QueueInv
  BY NothingQueued DEF SessionInit, QueueInv, MainLoopEnded
<1>3. QED
  BY <1>1, <1>2, TypeInvInitially DEF SessionInv

LEMMA SessionInvStep == ASSUME SessionInv, [SessionNext]_sessionVars PROVE SessionInv'
<1>1. CASE SessionNext
  <2>1. QueueInv'
    BY <1>1, OperationsKeepOrder, ProcessKeepsOrder, MessagesKeepOrder
    DEF SessionInv, SessionNext, Resolve
  <2>2. QED
    BY <1>1, <2>1, TypeInvStep, ExtensionInvStep DEF SessionInv
<1>2. CASE UNCHANGED sessionVars
  BY <1>2
  DEF SessionInv, TypeInv, SessionTypeOK, QueuesTyped, ExtensionInv, StateAgreesWithClient,
      NoOrphans, PhaseInv, QueueInv, MainLoopEnded, sessionVars, extensionVars, serverVars
<1>3. QED
  BY <1>1, <1>2

\* The invariant that the others follow from holds in every session of the extension
\* (lsp.ts) with the server (main_loop.rs).
THEOREM SessionInvariant == SessionSpec => []SessionInv
  BY SessionInvInitially, SessionInvStep, PTL DEF SessionSpec

\* While the extension (lsp.ts) awaits anything, the operation it does is still at the head
\* of its queue; every request is unsent, waiting, answered or rejected.
THEOREM SessionTypeCorrect == SessionSpec => []SessionTypeOK
<1>1. SessionInv => SessionTypeOK
  BY DEF SessionInv, TypeInv
<1>2. QED
  BY <1>1, SessionInvariant, PTL

\* Whatever await of start, stop or restart fails (lsp.ts), the state, the client and what
\* the subscribers were told agree.
THEOREM StateFollowsClient == SessionSpec => []StateAgreesWithClient
<1>1. SessionInv => StateAgreesWithClient
  BY DEF SessionInv, ExtensionInv
<1>2. QED
  BY <1>1, SessionInvariant, PTL

\* No sequence of operations and crashes leaves a server process behind that nobody stops.
THEOREM NoServerIsOrphaned == SessionSpec => []NoOrphans
<1>1. SessionInv => NoOrphans
  BY DEF SessionInv, ExtensionInv
<1>2. QED
  BY <1>1, SessionInvariant, PTL

\* However many requests wait when the client stops: the main loop (main_loop.rs) has
\* answered them all when it ends.
THEOREM RequestsBeforeShutdown == SessionSpec => []AnsweredBeforeShutdown
<1>1. SessionInv => AnsweredBeforeShutdown
  BY DEF SessionInv, QueueInv, MainLoopEnded, WithoutRequests, AnsweredBeforeShutdown
<1>2. QED
  BY <1>1, SessionInvariant, PTL

=============================================================================
