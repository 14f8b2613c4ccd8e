----------------------------- MODULE LiveServer -----------------------------
(***************************************************************************)
(* The live view from the camera to the browser: LiveView.cpp answers a    *)
(* request with the next picture of its queue, LiveViewController.cpp      *)
(* stops it when nobody asks, and the FastCGI front ends                   *)
(* (frontend/fcgi) ask on behalf of the browsers, each with a socket it    *)
(* throws away when an answer does not come in time.                       *)
(*                                                                         *)
(* A request sent on a socket that was thrown away is "stale": the server  *)
(* may still read it and spends a picture on it, but its answer is lost.   *)
(* A ZeroMQ REQ or REP socket used out of turn throws.  The pictures are   *)
(* counted, not told apart; the life of the controller itself, with its    *)
(* commands and threads, is in Antifurto.                                  *)
(***************************************************************************)
EXTENDS Naturals, Sequences

CONSTANTS Client,       \* the front ends
          NoMessage,
          Capacity,     \* of LiveView's queue
          Retries,      \* attempts of a front end
          Timeout,      \* inactivityTimeout, in ticks
          MaxInbox,     \* bound: requests that wait at the server
          MaxFailures   \* bound: pictures that cannot be encoded, signals

Message == [client : Client, live : BOOLEAN]

ASSUME LiveServerAssumption ==
  /\ NoMessage \notin Message
  /\ {Capacity, Retries} \subseteq Nat \ {0}
  /\ {Timeout, MaxInbox, MaxFailures} \subseteq Nat

VARIABLES
  server,       \* the LiveView: "down", "up", or "stopping" once stop() was called
  running,      \* running_
  done,         \* done_ of its queue
  queued,       \* pictures in the queue
  worker,       \* where its worker is in LiveView::write
  due,          \* the request its socket must answer before it can receive
  inbox,        \* requests that wait at its socket
  failures,
  wire,         \* clients whose request has not reached a server
  answered,     \* clients whose answer has reached their socket
  asked,        \* clients whose socket expects an answer
  pc,           \* where each client is
  retriesLeft,
  sinceWritten, \* ticks since lastPictureWrittenTime_, at most Timeout + 1
  idle          \* history: ticks since the worker took a picture, likewise

queueVars == <<queued, sinceWritten, idle>>
lifeVars == <<server, running, done>>
workerVars == <<worker, due, inbox, failures>>
clientVars == <<wire, answered, asked, pc, retriesLeft>>
vars == <<lifeVars, queueVars, workerVars, clientVars>>

Live(c) == [client |-> c, live |-> TRUE]

TypeOK ==
  /\ server \in {"down", "up", "stopping"}
  /\ running \in BOOLEAN /\ done \in BOOLEAN
  /\ queued \in 0 .. Capacity
  /\ worker \in {"idle", "receive", "send", "left"}
  /\ due \in Message \cup {NoMessage}
  /\ inbox \in Seq(Message)
  /\ failures \in 0 .. MaxFailures
  /\ {wire, answered, asked} \subseteq SUBSET Client
  /\ pc \in [Client -> {"idle", "waiting", "threw"}]
  /\ retriesLeft \in [Client -> 0 .. Retries]
  /\ {sinceWritten, idle} \subseteq 0 .. Timeout + 1

Init ==
  /\ server = "down" /\ running = FALSE /\ done = FALSE
  /\ queued = 0 /\ worker = "left" /\ due = NoMessage /\ inbox = <<>> /\ failures = 0
  /\ wire = {} /\ answered = {} /\ asked = {}
  /\ pc = [c \in Client |-> "idle"]
  /\ retriesLeft = [c \in Client |-> 0]
  /\ sinceWritten = Timeout + 1 /\ idle = 0
-----------------------------------------------------------------------------
\* LiveViewController::start with a new LiveView; when its address is in use
\* the constructor throws and there is still none.
Start ==
  /\ server = "down"
  /\ server' = "up" /\ running' = TRUE /\ done' = FALSE
  /\ queued' = 0 /\ worker' = "idle" /\ idle' = 0
  /\ UNCHANGED <<due, inbox, failures, clientVars, sinceWritten>>

\* Bug: the time is taken when the view starts only.
AddPicture_Bug ==
  /\ server = "up"
  /\ \/ /\ queued < Capacity
        /\ queued' = queued + 1
        /\ UNCHANGED <<server, sinceWritten>>
     \/ /\ queued = Capacity /\ sinceWritten > Timeout
        /\ server' = "stopping"
        /\ UNCHANGED <<queued, sinceWritten>>
  /\ UNCHANGED <<running, done, workerVars, clientVars, idle>>

\* Bug: the time is taken of a picture that is dropped, too.
AddPicture_Dropped ==
  /\ server = "up"
  /\ IF queued < Capacity
       THEN queued' = queued + 1 /\ sinceWritten' = 0 /\ UNCHANGED server
       ELSE /\ sinceWritten' = 0 /\ UNCHANGED queued
            /\ server' = IF sinceWritten > Timeout THEN "stopping" ELSE server
  /\ UNCHANGED <<running, done, workerVars, clientVars, idle>>

\* LiveViewController::addPicture: a picture that is dropped before the
\* timeout changes nothing.
AddPicture ==
  /\ server = "up"
  /\ \/ /\ queued < Capacity
        /\ queued' = queued + 1
        /\ sinceWritten' = 0
        /\ UNCHANGED server
     \/ /\ queued = Capacity /\ sinceWritten > Timeout
        /\ server' = "stopping"
        /\ UNCHANGED <<queued, sinceWritten>>
  /\ UNCHANGED <<running, done, workerVars, clientVars, idle>>

\* stop() by a command.
Stop ==
  /\ server = "up"
  /\ server' = "stopping"
  /\ UNCHANGED <<running, done, queueVars, workerVars, clientVars>>

\* The destructor of the LiveView, and of its queue, which joins the worker.
LowerRunning ==
  /\ server = "stopping" /\ running
  /\ running' = FALSE
  /\ UNCHANGED <<server, done, queueVars, workerVars, clientVars>>

RaiseDone ==
  /\ server = "stopping" /\ ~running /\ ~done
  /\ done' = TRUE
  /\ UNCHANGED <<server, running, queueVars, workerVars, clientVars>>

\* The socket is closed with whatever it had still to read or to answer.
CloseSocket ==
  /\ server = "stopping" /\ done /\ worker = "left"
  /\ server' = "down"
  /\ inbox' = <<>> /\ due' = NoMessage /\ queued' = 0
  /\ UNCHANGED <<running, done, worker, failures, clientVars, sinceWritten, idle>>

Destroying == LowerRunning \/ RaiseDone \/ CloseSocket
-----------------------------------------------------------------------------
\* The worker takes a picture for LiveView::write, which drops it when the
\* view is no longer running.
TakePicture ==
  /\ worker = "idle" /\ ~done /\ queued > 0
  /\ queued' = queued - 1
  /\ idle' = 0
  /\ worker' = IF running THEN "receive" ELSE "idle"
  /\ UNCHANGED <<lifeVars, sinceWritten, due, inbox, failures, clientVars>>

\* It cannot be encoded, or a signal interrupts recv: it is dropped.
PictureFails ==
  /\ worker = "receive" /\ failures < MaxFailures
  /\ failures' = failures + 1
  /\ worker' = "idle"
  /\ UNCHANGED <<lifeVars, queueVars, due, inbox, clientVars>>

\* Bug: running_ is not tested when recv times out.
Receive_Bug ==
  /\ worker = "receive" /\ inbox # <<>>
  /\ due' = Head(inbox) /\ inbox' = Tail(inbox)
  /\ worker' = IF running THEN "send" ELSE "idle"
  /\ UNCHANGED <<lifeVars, queueVars, failures, clientVars>>

\* recv: a request, or the timeout that makes it look at running_ again.
Receive ==
  /\ worker = "receive"
  /\ \/ /\ inbox # <<>>
        /\ due' = Head(inbox) /\ inbox' = Tail(inbox)
     \/ /\ inbox = <<>> /\ ~running
        /\ UNCHANGED <<due, inbox>>
  /\ worker' = IF running THEN "send" ELSE "idle"
  /\ UNCHANGED <<lifeVars, queueVars, failures, clientVars>>

\* send: the answer reaches the client if its socket is still that of the
\* request; a send that times out is given up when the view stops.
Send ==
  /\ worker = "send"
  /\ worker' = "idle"
  /\ \/ /\ due' = NoMessage
        /\ answered' = IF due.live THEN answered \cup {due.client} ELSE answered
     \/ /\ ~running
        /\ UNCHANGED <<due, answered>>
  /\ UNCHANGED <<lifeVars, queueVars, inbox, failures, wire, asked, pc, retriesLeft>>

Leave ==
  /\ worker = "idle" /\ done
  /\ worker' = "left"
  /\ UNCHANGED <<lifeVars, queueVars, due, inbox, failures, clientVars>>

Working == TakePicture \/ Receive \/ Send \/ Leave
-----------------------------------------------------------------------------
\* send on a REQ socket, which throws while it expects an answer.
SendRequest(c, expecting) ==
  IF c \in expecting
    THEN pc' = [pc EXCEPT ![c] = "threw"] /\ UNCHANGED <<wire, asked>>
    ELSE /\ pc' = [pc EXCEPT ![c] = "waiting"]
         /\ wire' = wire \cup {c}
         /\ asked' = expecting \cup {c}

\* The main loop of the front end accepts a request of a browser.
Accept(c) ==
  /\ pc[c] = "idle"
  /\ SendRequest(c, asked)
  /\ retriesLeft' = [retriesLeft EXCEPT ![c] = Retries - 1]
  /\ UNCHANGED <<lifeVars, queueVars, workerVars, answered>>

\* ZeroMQ: the request reaches the server, if one is there.
Deliver(c) ==
  /\ server # "down" /\ c \in wire /\ Len(inbox) < MaxInbox
  /\ wire' = wire \ {c}
  /\ inbox' = Append(inbox, Live(c))
  /\ UNCHANGED <<lifeVars, queueVars, worker, due, failures, answered, asked, pc, retriesLeft>>

\* The answer is sent to the browser with 200 OK.
Answer(c) ==
  /\ pc[c] = "waiting" /\ c \in answered
  /\ answered' = answered \ {c}
  /\ asked' = asked \ {c}
  /\ pc' = [pc EXCEPT ![c] = "idle"]
  /\ UNCHANGED <<lifeVars, queueVars, workerVars, wire, retriesLeft>>

Stale(c, m) == IF m.client = c THEN [m EXCEPT !.live = FALSE] ELSE m

\* openSocket: what the old socket had sent stays with a server it has
\* reached or is on its way to, else it is dropped.
OpenSocket(c) ==
  /\ \E late \in IF c \in wire /\ server # "down" /\ Len(inbox) < MaxInbox
                   THEN {<<>>, <<[client |-> c, live |-> FALSE]>>} ELSE {<<>>} :
       inbox' = [i \in DOMAIN inbox |-> Stale(c, inbox[i])] \o late
  /\ due' = IF due = NoMessage THEN due ELSE Stale(c, due)
  /\ UNCHANGED <<worker, failures>>

\* Bug: the socket is not opened anew after the last attempt.
TimedOut_Bug(c) ==
  /\ pc[c] = "waiting" /\ c \notin answered
  /\ IF retriesLeft[c] = 0
       THEN /\ pc' = [pc EXCEPT ![c] = "idle"]
            /\ UNCHANGED <<workerVars, wire, asked, retriesLeft>>
       ELSE /\ OpenSocket(c)
            /\ retriesLeft' = [retriesLeft EXCEPT ![c] = @ - 1]
            /\ SendRequest(c, asked \ {c})
  /\ UNCHANGED <<lifeVars, queueVars, answered>>

\* The poll times out: with a new socket, another attempt or 503.
TimedOut(c) ==
  /\ pc[c] = "waiting" /\ c \notin answered
  /\ OpenSocket(c)
  /\ IF retriesLeft[c] = 0
       THEN /\ pc' = [pc EXCEPT ![c] = "idle"]
            /\ wire' = wire \ {c} /\ asked' = asked \ {c}
            /\ UNCHANGED retriesLeft
       ELSE /\ retriesLeft' = [retriesLeft EXCEPT ![c] = @ - 1]
            /\ SendRequest(c, asked \ {c})
  /\ UNCHANGED <<lifeVars, queueVars, answered>>

Next1(n) == IF n > Timeout THEN n ELSE n + 1

Tick ==
  /\ sinceWritten' = Next1(sinceWritten) /\ idle' = Next1(idle)
  /\ UNCHANGED <<lifeVars, queued, workerVars, clientVars>>

Next ==
  \/ Start \/ AddPicture \/ Stop \/ Destroying
  \/ Working \/ PictureFails
  \/ \E c \in Client : Accept(c) \/ Deliver(c) \/ Answer(c) \/ TimedOut(c)
  \/ Tick

Spec == Init /\ [][Next]_vars

\* The threads of the server and of the clients run, time passes, and the
\* camera takes pictures as long as somebody is registered.
FairSpec ==
  /\ Spec
  /\ WF_vars(AddPicture) /\ WF_vars(Tick)
  /\ WF_vars(Destroying) /\ WF_vars(Working)
  /\ \A c \in Client : WF_vars(Answer(c) \/ TimedOut(c))
-----------------------------------------------------------------------------
\* Where the last request of c is, or its answer.
Outstanding(c) ==
  {<<"inbox", i>> : i \in {n \in DOMAIN inbox : inbox[n] = Live(c)}}
  \cup {p \in {<<"due", 0>>} : due = Live(c)}
  \cup {p \in {<<"wire", 0>>} : c \in wire}
  \cup {p \in {<<"answered", 0>>} : c \in answered}

\* Requests and answers alternate on both sides, across timeouts, retries and
\* restarts of the server: no socket is used out of turn, and a front end
\* gets the answer of its last request or none (the lazy pirate pattern of
\* ZmqLazyPirateClient::request, LiveView::write).
RequestsAlternate ==
  /\ \A c \in Client :
       /\ pc[c] # "threw"
       /\ c \in asked => pc[c] = "waiting"
       /\ Outstanding(c) # {} => c \in asked
       /\ \A x, y \in Outstanding(c) : x = y
  /\ worker = "receive" => due = NoMessage

\* The view stops for inactivity only if the worker has taken no picture for
\* longer than the timeout, although the time is that of the last picture the
\* queue has accepted, before this start perhaps (LiveViewController::addPicture).
StopsIfIdle ==
  [][AddPicture /\ server' = "stopping" => idle > Timeout]_vars

\* When the browsers have gone away the live view stops by itself.
InactiveStops ==
  (<>[] \A c \in Client : pc[c] = "idle") => []<>(server # "up")

\* A stop is not held up by requests that do not come: the worker leaves recv
\* and send, and the destructor of the view returns.
StopReturns == (server = "stopping") ~> (server = "down")
=============================================================================
