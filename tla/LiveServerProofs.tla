-------------------------- MODULE LiveServerProofs --------------------------
(***************************************************************************)
(* Proofs about the live view server, for any number of front ends and any *)
(* capacity, number of retries and inactivity timeout.                     *)
(***************************************************************************)
EXTENDS LiveServer, TLAPS

-----------------------------------------------------------------------------
(***************************************************************************)
(* Inactivity.  A full queue was last written to before the worker last    *)
(* took a picture or after it: either way the time of the last write is    *)
(* not older than that of the last picture taken.                          *)
(***************************************************************************)
TimesType ==
  /\ queued \in 0 .. Capacity
  /\ sinceWritten \in 0 .. Timeout + 1
  /\ idle \in 0 .. Timeout + 1

FullInv == queued = Capacity => sinceWritten <= idle

TimesInv == TimesType /\ FullInv

LEMMA TimesInitial == Init => TimesInv
BY LiveServerAssumption DEF Init, TimesInv, TimesType, FullInv

\* Every step keeps the invariant: what fills the queue takes the time.
LEMMA TimesStep == TimesInv /\ [Next]_vars => TimesInv'
<1> SUFFICES ASSUME TimesInv, [Next]_vars PROVE TimesInv'
  OBVIOUS
<1> USE LiveServerAssumption DEF TimesInv, TimesType, FullInv
<1>1. CASE Start
  BY <1>1 DEF Start
<1>2. CASE AddPicture
  BY <1>2 DEF AddPicture
<1>3. CASE Stop
  BY <1>3 DEF Stop, queueVars
<1>4. CASE Destroying
  BY <1>4 DEF Destroying, LowerRunning, RaiseDone, CloseSocket, queueVars
<1>5. CASE Working
  BY <1>5 DEF Working, TakePicture, Receive, Send, Leave, queueVars
<1>6. CASE PictureFails
  BY <1>6 DEF PictureFails, queueVars
<1>7. ASSUME NEW c \in Client, Accept(c) \/ Deliver(c) \/ Answer(c) \/ TimedOut(c)
      PROVE  TimesInv'
  BY <1>7 DEF Accept, Deliver, Answer, TimedOut, queueVars
<1>8. CASE Tick
  BY <1>8 DEF Tick, Next1
<1>9. CASE UNCHANGED vars
  BY <1>9 DEF vars, queueVars
<1> QED
  BY <1>1, <1>2, <1>3, <1>4, <1>5, <1>6, <1>7, <1>8, <1>9 DEF Next

\* The times are types and the full queue is no older than the last picture
\* taken, in every reachable state (LiveViewController::addPicture).
THEOREM TimesCorrect == Spec => []TimesInv
BY TimesInitial, TimesStep, PTL DEF Spec

\* The view stops for inactivity only if the worker has taken no picture for
\* longer than the timeout (LiveViewController::addPicture).
THEOREM InactivityIsReal == Spec => StopsIfIdle
<1>1. TimesInv /\ [Next]_vars =>
        [AddPicture /\ server' = "stopping" => idle > Timeout]_vars
  <2> SUFFICES ASSUME TimesInv, AddPicture, server' = "stopping"
               PROVE  idle > Timeout
    OBVIOUS
  <2> QED
    BY LiveServerAssumption DEF AddPicture, TimesInv, TimesType, FullInv
<1> QED
  BY <1>1, TimesCorrect, PTL DEF Spec, StopsIfIdle

-----------------------------------------------------------------------------
(***************************************************************************)
(* Requests and answers.                                                   *)
(***************************************************************************)
\* What is to be known of messages.
LEMMA LiveMessages ==
  ASSUME NEW c \in Client
  PROVE  /\ Live(c) \in Message
         /\ Live(c) # NoMessage
         /\ \A d \in Client : Live(d) = Live(c) => d = c
<1>1. Live(c) \in Message
  BY DEF Live, Message
<1>2. ASSUME NEW d \in Client, Live(d) = Live(c) PROVE d = c
  <2>1. Live(d).client = Live(c).client
    BY <1>2
  <2> QED
    BY <2>1 DEF Live
<1> QED
  BY <1>1, <1>2, LiveServerAssumption

LEMMA MessageIsLive ==
  ASSUME NEW msg \in Message, msg.live
  PROVE  msg.client \in Client /\ msg = Live(msg.client)
BY DEF Live, Message

LEMMA StaleMessages ==
  ASSUME NEW c \in Client, NEW msg \in Message
  PROVE  /\ Stale(c, msg) \in Message
         /\ Stale(c, msg) # Live(c)
         /\ \A d \in Client : Stale(c, msg) = Live(d) => msg = Live(d)
<1>1. CASE msg.client # c
  BY <1>1 DEF Stale, Live
<1>2. CASE msg.client = c
  <2>1. Stale(c, msg) = [client |-> c, live |-> FALSE]
    BY <1>2 DEF Stale, Message
  <2>2. \A d \in Client : Stale(c, msg) # Live(d)
    <3> SUFFICES ASSUME NEW d \in Client, Stale(c, msg) = Live(d) PROVE FALSE
      OBVIOUS
    <3>1. Stale(c, msg).live = Live(d).live
      OBVIOUS
    <3> QED
      BY <2>1, <3>1 DEF Live
  <2> QED
    BY <2>1, <2>2 DEF Message
<1> QED
  BY <1>1, <1>2

\* What the messages and the clients' places are.
MessageType ==
  /\ inbox \in Seq(Message)
  /\ worker \in {"idle", "receive", "send", "left"}
  /\ pc \in [Client -> {"idle", "waiting", "threw"}]
  /\ due \in Message \cup {NoMessage}
  /\ worker = "send" => due \in Message

\* A message the socket must still answer: only a view that stops leaves one
\* behind, and the next view has a new socket.
ServerInv ==
  /\ server = "down" => worker = "left" /\ due = NoMessage /\ inbox = <<>>
  /\ due # NoMessage => worker # "receive" /\ (running => worker = "send")

InInbox(c) == \E i \in DOMAIN inbox : inbox[i] = Live(c)

\* The last request of c is in one place, or its answer is, or neither.
OnePlace(c) ==
  /\ c \in wire => c \notin answered /\ due # Live(c) /\ ~InInbox(c)
  /\ c \in answered => due # Live(c) /\ ~InInbox(c)
  /\ due = Live(c) => ~InInbox(c)
  /\ \A i, j \in DOMAIN inbox : inbox[i] = Live(c) /\ inbox[j] = Live(c) => i = j
  /\ c \in wire \/ c \in answered \/ due = Live(c) \/ InInbox(c) => c \in asked

ClientInv ==
  \A c \in Client :
    /\ pc[c] # "threw"
    /\ c \in asked <=> pc[c] = "waiting"
    /\ OnePlace(c)

RequestInv == MessageType /\ ServerInv /\ ClientInv

LEMMA RequestInitial == Init => RequestInv
<1> SUFFICES ASSUME Init PROVE RequestInv
  OBVIOUS
<1>1. MessageType /\ ServerInv
  BY DEF Init, MessageType, ServerInv
<1>2. ASSUME NEW c \in Client
      PROVE  pc[c] = "idle" /\ c \notin asked /\ OnePlace(c)
  <2>1. due # Live(c) /\ ~InInbox(c) /\ DOMAIN inbox = {}
    BY LiveMessages DEF Init, InInbox
  <2> QED
    BY <2>1 DEF Init, OnePlace
<1> QED
  BY <1>1, <1>2 DEF RequestInv, ClientInv

\* A step that leaves the requests where they are keeps OnePlace.
LEMMA PlacesUntouched ==
  ASSUME UNCHANGED <<inbox, due, wire, answered, asked>>, NEW c \in Client, OnePlace(c)
  PROVE  OnePlace(c)'
BY DEF OnePlace, InInbox

\* A step of the server or its clock that moves no message.
LEMMA RequestsUntouched ==
  ASSUME RequestInv, UNCHANGED <<inbox, due, clientVars>>,
         worker' \in {"idle", "receive", "send", "left"},
         worker' = "send" => worker = "send",
         ServerInv'
  PROVE  RequestInv'
<1>1. MessageType'
  BY DEF RequestInv, MessageType, clientVars
<1>2. ClientInv'
  BY PlacesUntouched DEF RequestInv, ClientInv, clientVars
<1> QED
  BY <1>1, <1>2 DEF RequestInv

\* The view is started and stopped, and pictures come and go.
LEMMA RequestLife ==
  ASSUME RequestInv,
         \/ Start \/ AddPicture \/ Stop \/ LowerRunning \/ RaiseDone
         \/ TakePicture \/ PictureFails \/ Leave \/ Tick \/ UNCHANGED vars
  PROVE  RequestInv'
<1>1. UNCHANGED <<inbox, due, clientVars>>
  BY DEF Start, AddPicture, Stop, LowerRunning, RaiseDone, TakePicture, PictureFails,
         Leave, Tick, vars, workerVars
<1>2. /\ worker' \in {"idle", "receive", "send", "left"}
      /\ worker' = "send" => worker = "send"
      /\ ServerInv'
  BY DEF RequestInv, MessageType, ServerInv, Start, AddPicture, Stop, LowerRunning,
         RaiseDone, TakePicture, PictureFails, Leave, Tick, vars, workerVars, lifeVars
<1> QED
  BY <1>1, <1>2, RequestsUntouched

\* The socket is closed: what was in one place at most is in one at most.
LEMMA RequestClose ==
  ASSUME RequestInv, CloseSocket
  PROVE  RequestInv'
<1> USE DEF CloseSocket, RequestInv, MessageType, ServerInv
<1>1. MessageType' /\ ServerInv'
  BY DEF clientVars
<1>2. ASSUME NEW c \in Client PROVE OnePlace(c)'
  <2>1. due' # Live(c) /\ ~InInbox(c)' /\ DOMAIN inbox' = {}
    BY LiveMessages DEF InInbox
  <2> QED
    BY <2>1 DEF OnePlace, ClientInv, clientVars
<1> QED
  BY <1>1, <1>2 DEF ClientInv, clientVars

\* The first message is taken out of the inbox.
LEMMA FirstTaken ==
  ASSUME inbox \in Seq(Message), inbox # <<>>, inbox' = Tail(inbox)
  PROVE  /\ inbox' \in Seq(Message) /\ Head(inbox) \in Message /\ Head(inbox) = inbox[1]
         /\ \A i \in DOMAIN inbox' : i + 1 \in DOMAIN inbox /\ inbox'[i] = inbox[i + 1]
         /\ 1 \in DOMAIN inbox /\ DOMAIN inbox' \subseteq Nat \ {0}
<1>1. Len(inbox) \in Nat \ {0} /\ DOMAIN inbox = 1 .. Len(inbox)
  OBVIOUS
<1>2. inbox' \in Seq(Message) /\ Len(inbox') = Len(inbox) - 1
  OBVIOUS
<1>3. DOMAIN inbox' = 1 .. Len(inbox) - 1
  BY <1>2
<1>4. \A i \in 1 .. Len(inbox) - 1 : inbox'[i] = inbox[i + 1]
  OBVIOUS
<1> QED
  BY <1>1, <1>2, <1>3, <1>4

\* recv moves a request from the inbox into the hand of the worker.
LEMMA RequestReceived ==
  ASSUME RequestInv, Receive
  PROVE  RequestInv'
<1>1. CASE inbox = <<>> /\ ~running /\ UNCHANGED <<due, inbox>>
  <2>1. ServerInv' /\ worker' = "idle"
    BY <1>1 DEF RequestInv, ServerInv, Receive, lifeVars
  <2> QED
    BY <1>1, <2>1, RequestsUntouched DEF Receive
<1>2. CASE inbox # <<>> /\ due' = Head(inbox) /\ inbox' = Tail(inbox)
  <2>1. /\ inbox' \in Seq(Message) /\ due' \in Message /\ due' = inbox[1]
        /\ \A i \in DOMAIN inbox' : i + 1 \in DOMAIN inbox /\ inbox'[i] = inbox[i + 1]
        /\ 1 \in DOMAIN inbox
        /\ \A i \in DOMAIN inbox' : i \in Nat \ {0}
    BY <1>2, FirstTaken DEF RequestInv, MessageType
  <2>2. due = NoMessage
    BY DEF RequestInv, ServerInv, Receive
  <2>3. MessageType'
    BY <2>1 DEF RequestInv, MessageType, Receive, clientVars
  <2>4. ServerInv'
    BY DEF RequestInv, ServerInv, Receive, lifeVars
  <2>5. ASSUME NEW c \in Client, OnePlace(c) PROVE OnePlace(c)'
    <3>1. InInbox(c)' => InInbox(c)
      BY <2>1 DEF InInbox
    <3>2. due' = Live(c) => InInbox(c)
      BY <2>1 DEF InInbox
    <3>3. due' = Live(c) => ~InInbox(c)'
      <4> SUFFICES ASSUME due' = Live(c), NEW i \in DOMAIN inbox', inbox'[i] = Live(c)
                   PROVE  FALSE
        BY DEF InInbox
      <4>1. i \in Nat \ {0}
        BY <2>1
      <4>2. inbox[1] = Live(c) /\ inbox[i + 1] = Live(c) /\ i + 1 \in DOMAIN inbox
        BY <2>1
      <4> QED
        BY <4>1, <4>2, <2>1, <2>5 DEF OnePlace
    <3>4. \A i, j \in DOMAIN inbox' : inbox'[i] = Live(c) /\ inbox'[j] = Live(c) => i = j
      <4> SUFFICES ASSUME NEW i \in DOMAIN inbox', NEW j \in DOMAIN inbox',
                          inbox'[i] = Live(c), inbox'[j] = Live(c)
                   PROVE  i = j
        OBVIOUS
      <4>1. i + 1 = j + 1
        BY <2>1, <2>5 DEF OnePlace
      <4> QED
        BY <4>1, <2>1
    <3> QED
      BY <2>5, <3>1, <3>2, <3>3, <3>4 DEF OnePlace, Receive, clientVars
  <2> QED
    BY <2>3, <2>4, <2>5 DEF RequestInv, ClientInv, Receive, clientVars
<1> QED
  BY <1>1, <1>2 DEF Receive

\* send moves the answer to the client of a live request.
LEMMA RequestAnswered ==
  ASSUME RequestInv, Send
  PROVE  RequestInv'
<1>1. due \in Message
  BY DEF RequestInv, MessageType, Send
<1>2. CASE ~running /\ UNCHANGED <<due, answered>>
  <2>1. ServerInv' /\ worker' = "idle"
    BY <1>2 DEF RequestInv, ServerInv, Send, lifeVars
  <2> QED
    BY <1>2, <2>1, RequestsUntouched DEF Send, clientVars
<1>3. CASE /\ due' = NoMessage
           /\ answered' = IF due.live THEN answered \cup {due.client} ELSE answered
  <2>1. MessageType' /\ ServerInv'
    BY <1>3 DEF RequestInv, MessageType, ServerInv, Send, lifeVars
  <2>2. ASSUME NEW c \in Client, OnePlace(c) PROVE OnePlace(c)'
    <3>1. due' # Live(c)
      BY <1>3, LiveMessages
    <3>2. InInbox(c)' = InInbox(c)
      BY DEF InInbox, Send
    <3>3. c \in answered' => c \in answered \/ due = Live(c)
      BY <1>1, <1>3, MessageIsLive
    <3> QED
      BY <2>2, <3>1, <3>2, <3>3 DEF OnePlace, Send
  <2> QED
    BY <2>1, <2>2 DEF RequestInv, ClientInv, Send
<1> QED
  BY <1>2, <1>3 DEF Send

\* A new request of a client that has none goes out on the wire.
LEMMA RequestAccepted ==
  ASSUME RequestInv, NEW c \in Client, Accept(c)
  PROVE  RequestInv'
<1>1. /\ pc[c] = "idle" /\ c \notin asked
      /\ pc' = [pc EXCEPT ![c] = "waiting"]
      /\ wire' = wire \cup {c} /\ asked' = asked \cup {c}
      /\ UNCHANGED <<server, running, worker, due, inbox, answered>>
  BY DEF RequestInv, ClientInv, Accept, SendRequest, lifeVars, workerVars
<1>2. MessageType' /\ ServerInv'
  BY <1>1 DEF RequestInv, MessageType, ServerInv
<1>3. ASSUME NEW d \in Client
      PROVE  pc'[d] # "threw" /\ (d \in asked' <=> pc'[d] = "waiting") /\ OnePlace(d)'
  BY <1>1 DEF RequestInv, MessageType, ClientInv, OnePlace, InInbox
<1> QED
  BY <1>2, <1>3 DEF RequestInv, ClientInv

\* A request is delivered: from the wire to the end of the inbox.
LEMMA RequestDelivered ==
  ASSUME RequestInv, NEW c \in Client, Deliver(c)
  PROVE  RequestInv'
<1>1. /\ inbox' \in Seq(Message)
      /\ DOMAIN inbox \subseteq DOMAIN inbox' /\ Len(inbox) + 1 \notin DOMAIN inbox
      /\ \A i \in DOMAIN inbox : inbox'[i] = inbox[i]
      /\ inbox'[Len(inbox) + 1] = Live(c)
      /\ \A i \in DOMAIN inbox' : i \in DOMAIN inbox \/ i = Len(inbox) + 1
  <2>1. inbox \in Seq(Message) /\ Live(c) \in Message /\ inbox' = Append(inbox, Live(c))
    BY LiveMessages DEF RequestInv, MessageType, Deliver
  <2>2. /\ Len(inbox) \in Nat /\ DOMAIN inbox = 1 .. Len(inbox)
        /\ DOMAIN inbox' = 1 .. Len(inbox) + 1
    BY <2>1
  <2>3. inbox' \in Seq(Message) /\ \A i \in 1 .. Len(inbox) : inbox'[i] = inbox[i]
    BY <2>1
  <2>4. inbox'[Len(inbox) + 1] = Live(c)
    BY <2>1
  <2> QED
    BY <2>2, <2>3, <2>4
<1>2. MessageType' /\ ServerInv'
  BY <1>1 DEF RequestInv, MessageType, ServerInv, Deliver, lifeVars
<1>3. ASSUME NEW d \in Client, OnePlace(d) PROVE OnePlace(d)'
  <2>1. CASE d = c
    <3>1. ~InInbox(c) /\ due' # Live(c) /\ c \notin wire' /\ c \notin answered' /\ c \in asked'
      BY <1>3, <2>1 DEF OnePlace, Deliver
    <3> QED
      BY <1>1, <2>1, <3>1 DEF OnePlace, InInbox
  <2>2. CASE d # c
    <3>1. Live(c) # Live(d)
      BY <2>2, LiveMessages
    <3>2. InInbox(d)' => InInbox(d)
      BY <1>1, <3>1 DEF InInbox
    <3> QED
      BY <1>1, <1>3, <2>2, <3>1, <3>2 DEF OnePlace, Deliver
  <2> QED
    BY <2>1, <2>2
<1> QED
  BY <1>2, <1>3 DEF RequestInv, ClientInv, Deliver

\* The client takes its answer.
LEMMA RequestCompleted ==
  ASSUME RequestInv, NEW c \in Client, Answer(c)
  PROVE  RequestInv'
<1>1. MessageType' /\ ServerInv'
  BY DEF RequestInv, MessageType, ServerInv, Answer, lifeVars, workerVars
<1>2. ASSUME NEW d \in Client
      PROVE  pc'[d] # "threw" /\ (d \in asked' <=> pc'[d] = "waiting") /\ OnePlace(d)'
  BY DEF RequestInv, MessageType, ClientInv, OnePlace, InInbox, Answer, workerVars
<1> QED
  BY <1>1, <1>2 DEF RequestInv, ClientInv

\* A new socket: no live request of c is left at the server, and those of the
\* others stay where they are.
LEMMA SocketOpened ==
  ASSUME RequestInv, NEW c \in Client, OpenSocket(c)
  PROVE  /\ inbox' \in Seq(Message) /\ (due \in Message => due' \in Message)
         /\ due = NoMessage => due' = NoMessage
         /\ server = "down" => inbox' = inbox
         /\ due' # Live(c) /\ ~InInbox(c)'
         /\ \A d \in Client \ {c} :
              /\ due' = Live(d) => due = Live(d)
              /\ \A i \in DOMAIN inbox' : inbox'[i] = Live(d) =>
                   i \in DOMAIN inbox /\ inbox[i] = Live(d)
<1> DEFINE seen == [i \in DOMAIN inbox |-> Stale(c, inbox[i])]
<1>1. PICK late \in {<<>>, <<[client |-> c, live |-> FALSE]>>} :
        /\ inbox' = seen \o late
        /\ server = "down" => late = <<>>
  BY DEF OpenSocket
<1>2. inbox \in Seq(Message)
  BY DEF RequestInv, MessageType
<1>3. /\ seen \in Seq(Message) /\ Len(seen) = Len(inbox) /\ DOMAIN seen = DOMAIN inbox
      /\ \A i \in DOMAIN inbox : seen[i] = Stale(c, inbox[i]) /\ inbox[i] \in Message
  <2>1. \A i \in DOMAIN inbox : inbox[i] \in Message
    BY <1>2
  <2>2. \A i \in DOMAIN inbox : Stale(c, inbox[i]) \in Message
    BY <2>1, StaleMessages
  <2>3. DOMAIN inbox = 1 .. Len(inbox) /\ Len(inbox) \in Nat
    BY <1>2
  <2>4. seen \in [1 .. Len(inbox) -> Message]
    BY <2>2, <2>3
  <2> QED
    BY <2>1, <2>3, <2>4
<1> HIDE DEF seen
<1>4. DEFINE dead == [client |-> c, live |-> FALSE]
<1>5. dead \in Message /\ \A d \in Client : dead # Live(d)
  <2>1. dead \in Message /\ dead.live = FALSE
    BY DEF Message
  <2>2. \A d \in Client : Live(d).live = TRUE
    BY DEF Live
  <2> QED
    BY <2>1, <2>2
<1> HIDE DEF dead
<1>6. late \in Seq(Message) /\ \A i \in DOMAIN late : late[i] = dead
  <2>1. CASE late = <<>>
    BY <2>1
  <2>2. CASE late = <<dead>>
    BY <2>2, <1>5
  <2> QED
    BY <1>1, <2>1, <2>2 DEF dead
<1>7. /\ inbox' \in Seq(Message)
      /\ \A i \in DOMAIN inbox' :
           \/ i \in DOMAIN inbox /\ inbox'[i] = seen[i]
           \/ inbox'[i] = dead
  <2>1. inbox' \in Seq(Message) /\ DOMAIN inbox' = 1 .. Len(seen) + Len(late)
    BY <1>1, <1>3, <1>6
  <2>2. ASSUME NEW i \in DOMAIN inbox', i \notin DOMAIN inbox
        PROVE  inbox'[i] = dead
    <3>1. i - Len(seen) \in DOMAIN late /\ inbox'[i] = late[i - Len(seen)]
      BY <1>1, <1>3, <1>6, <2>1, <2>2
    <3> QED
      BY <1>6, <3>1
  <2>3. \A i \in DOMAIN inbox : i \in DOMAIN inbox' => inbox'[i] = seen[i]
    BY <1>1, <1>3, <1>6
  <2> QED
    BY <2>1, <2>2, <2>3
<1>8. server = "down" => inbox = <<>> /\ inbox' = inbox
  <2> SUFFICES ASSUME server = "down" PROVE inbox = <<>> /\ inbox' = inbox
    OBVIOUS
  <2>1. inbox = <<>> /\ late = <<>>
    BY <1>1 DEF RequestInv, ServerInv
  <2>2. seen = <<>>
    BY <2>1, <1>3
  <2> QED
    BY <1>1, <2>1, <2>2
<1>9. /\ due \in Message => due' \in Message
      /\ due = NoMessage => due' = NoMessage
      /\ due' # Live(c)
      /\ \A d \in Client : due' = Live(d) => due = Live(d)
  <2>1. CASE due = NoMessage
    <3>1. due' = NoMessage /\ due \notin Message
      BY <2>1, LiveServerAssumption DEF OpenSocket
    <3> QED
      BY <2>1, <3>1, LiveMessages
  <2>2. CASE due # NoMessage
    <3>1. due \in Message /\ due' = Stale(c, due)
      BY <2>2 DEF OpenSocket, RequestInv, MessageType
    <3> QED
      BY <2>2, <3>1, StaleMessages
  <2> QED
    BY <2>1, <2>2
<1>10. ~InInbox(c)'
  BY <1>3, <1>5, <1>7, StaleMessages DEF InInbox
<1>11. ASSUME NEW d \in Client, NEW i \in DOMAIN inbox', inbox'[i] = Live(d)
       PROVE  i \in DOMAIN inbox /\ inbox[i] = Live(d)
  BY <1>3, <1>5, <1>7, <1>11, StaleMessages
<1> QED
  BY <1>7, <1>8, <1>9, <1>10, <1>11

\* The poll times out: the client gives up or asks again, on a new socket.
LEMMA RequestTimedOut ==
  ASSUME RequestInv, NEW c \in Client, TimedOut(c)
  PROVE  RequestInv'
<1>1. /\ pc[c] = "waiting" /\ c \notin answered
      /\ UNCHANGED <<server, running, worker, answered>>
      /\ \/ /\ pc' = [pc EXCEPT ![c] = "idle"]
            /\ wire' = wire \ {c} /\ asked' = asked \ {c}
         \/ /\ pc' = [pc EXCEPT ![c] = "waiting"]
            /\ wire' = wire \cup {c} /\ asked' = asked \cup {c}
  <2>1. OpenSocket(c)
    BY DEF TimedOut
  <2> QED
    BY <2>1 DEF TimedOut, SendRequest, OpenSocket, lifeVars
<1>2. /\ inbox' \in Seq(Message) /\ (due \in Message => due' \in Message)
      /\ due = NoMessage => due' = NoMessage
      /\ server = "down" => inbox' = inbox
      /\ due' # Live(c) /\ ~InInbox(c)'
      /\ \A d \in Client \ {c} :
           /\ due' = Live(d) => due = Live(d)
           /\ \A i \in DOMAIN inbox' : inbox'[i] = Live(d) =>
                i \in DOMAIN inbox /\ inbox[i] = Live(d)
  BY SocketOpened DEF TimedOut
<1>3. MessageType' /\ ServerInv'
  BY <1>1, <1>2 DEF RequestInv, MessageType, ServerInv
<1>4. OnePlace(c)'
  BY <1>1, <1>2 DEF OnePlace, InInbox
<1>5. ASSUME NEW d \in Client \ {c}, OnePlace(d) PROVE OnePlace(d)'
  <2>1. InInbox(d)' => InInbox(d)
    BY <1>2 DEF InInbox
  <2>2. due' = Live(d) => due = Live(d)
    BY <1>2
  <2>3. \A i, j \in DOMAIN inbox' : inbox'[i] = Live(d) /\ inbox'[j] = Live(d) => i = j
    BY <1>2, <1>5 DEF OnePlace
  <2>4. /\ d \in wire' <=> d \in wire
        /\ d \in answered' <=> d \in answered
        /\ d \in asked' <=> d \in asked
    BY <1>1
  <2> QED
    BY <1>5, <2>1, <2>2, <2>3, <2>4 DEF OnePlace
<1>6. ASSUME NEW d \in Client
      PROVE  pc'[d] # "threw" /\ (d \in asked' <=> pc'[d] = "waiting")
  BY <1>1 DEF RequestInv, MessageType, ClientInv
<1> QED
  BY <1>3, <1>4, <1>5, <1>6 DEF RequestInv, ClientInv

LEMMA RequestStep == RequestInv /\ [Next]_vars => RequestInv'
<1> SUFFICES ASSUME RequestInv, [Next]_vars PROVE RequestInv'
  OBVIOUS
<1>1. ASSUME NEW c \in Client, Accept(c) \/ Deliver(c) \/ Answer(c) \/ TimedOut(c)
      PROVE  RequestInv'
  BY <1>1, RequestAccepted, RequestDelivered, RequestCompleted, RequestTimedOut
<1> QED
  BY <1>1, RequestLife, RequestClose, RequestReceived, RequestAnswered
     DEF Next, Destroying, Working

\* The invariant about requests holds in every reachable state.
THEOREM RequestsCorrect == Spec => []RequestInv
BY RequestInitial, RequestStep, PTL DEF Spec

\* Requests and answers alternate: no socket is used out of turn, and a front
\* end gets the answer of its last request or none (ZmqLazyPirateClient::request,
\* LiveView::write).
THEOREM Alternating == Spec => []RequestsAlternate
<1>1. RequestInv => RequestsAlternate
  <2> SUFFICES ASSUME RequestInv PROVE RequestsAlternate
    OBVIOUS
  <2>1. worker = "receive" => due = NoMessage
    BY DEF RequestInv, ServerInv
  <2>2. ASSUME NEW c \in Client
        PROVE  /\ pc[c] # "threw"
               /\ c \in asked => pc[c] = "waiting"
               /\ Outstanding(c) # {} => c \in asked
               /\ \A x, y \in Outstanding(c) : x = y
    <3>1. OnePlace(c) /\ pc[c] # "threw" /\ (c \in asked => pc[c] = "waiting")
      BY DEF RequestInv, ClientInv
    <3>2. \A x \in Outstanding(c) :
            \/ \E i \in DOMAIN inbox : inbox[i] = Live(c) /\ x = <<"inbox", i>>
            \/ due = Live(c) /\ x = <<"due", 0>>
            \/ c \in wire /\ x = <<"wire", 0>>
            \/ c \in answered /\ x = <<"answered", 0>>
      BY DEF Outstanding
    <3>3. Outstanding(c) # {} => c \in asked
      BY <3>1, <3>2 DEF OnePlace, InInbox
    <3>4. \A x, y \in Outstanding(c) : x = y
      BY <3>1, <3>2 DEF OnePlace, InInbox
    <3> QED
      BY <3>1, <3>3, <3>4
  <2> QED
    BY <2>1, <2>2 DEF RequestsAlternate
<1> QED
  BY <1>1, RequestsCorrect, PTL
=============================================================================
