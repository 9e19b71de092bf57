------------------------------ MODULE Reception ------------------------------
(***************************************************************************)
(* Measurements that arrive by TCP: TCPInboundHandler of src/tcp.go, and   *)
(* AppReqPushPayload of src/appreq.go, of which each goroutine looks up    *)
(* its devices in the cache of module Sheet.                               *)
(*                                                                         *)
(* One loop accepts a connection, reads its request and closes it before   *)
(* it accepts the next.  Reads have no deadline.  A request consists of    *)
(* four parts: the format, the number of messages, their lengths, and the  *)
(* messages.  A client sends some or all of them and then closes the       *)
(* connection, or leaves it open and is silent.                            *)
(*                                                                         *)
(* A message is abstracted to its device.                                  *)
(***************************************************************************)
EXTENDS Sheet

CONSTANTS
    Requests,    \* the requests that the clients may send, as functions of Process
    Nobody

\* A client is identified with the goroutine that processes its request.
Conn == Process

Parts == 4

Request ==
    [array : BOOLEAN, messages : Seq(Device), stops : 0 .. Parts, closes : BOOLEAN]

ASSUME ReceptionAssumption ==
    /\ Requests \subseteq [Conn -> Request]
    /\ Nobody \notin Conn

VARIABLES
    request,     \* chosen once: what each client sends
    state,       \* of each connection: "away", "open" or "closed"
    sent,        \* how many parts its client has sent
    backlog,     \* connections that have not been accepted
    loop,        \* the connection that was accepted
    got,         \* how many parts of it have been read
    received,    \* connections of which the payload is being processed
    next         \* the number of messages of each that have been taken

tcp == <<request, state, sent, backlog, loop, got, received, next>>
vars == <<sheetVars, tcp>>

Init ==
    /\ SheetInit
    /\ request \in Requests
    /\ state = [c \in Conn |-> "away"]
    /\ sent = [c \in Conn |-> 0]
    /\ backlog = <<>>
    /\ loop = Nobody
    /\ got = 0
    /\ received = {}
    /\ next = [c \in Conn |-> 0]

-----------------------------------------------------------------------------
\* The clients.
Connect(c) ==
    /\ state[c] = "away"
    /\ state' = [state EXCEPT ![c] = "open"]
    /\ backlog' = Append(backlog, c)
    /\ UNCHANGED <<sheetVars, request, sent, loop, got, received, next>>

Send(c) ==
    /\ state[c] = "open"
    /\ sent[c] < request[c].stops
    /\ sent' = [sent EXCEPT ![c] = @ + 1]
    /\ UNCHANGED <<sheetVars, request, state, backlog, loop, got, received, next>>

-----------------------------------------------------------------------------
(* TCPInboundHandler.                                                       *)

Accept ==
    /\ loop = Nobody
    /\ backlog # <<>>
    /\ loop' = Head(backlog)
    /\ backlog' = Tail(backlog)
    /\ got' = 0
    /\ UNCHANGED <<sheetVars, request, state, sent, received, next>>

Close(c) ==
    /\ state' = [state EXCEPT ![c] = "closed"]
    /\ loop' = Nobody
    /\ got' = 0
    /\ UNCHANGED <<sheetVars, request, sent, backlog, next>>

\* The parts that have been read are those of a request, as far as one can tell.
Acceptable(c) ==
    /\ got >= 1 => request[c].array
    /\ got >= 2 => request[c].messages # <<>>

Read(c) ==
    /\ loop = c
    /\ Acceptable(c)
    /\ got < sent[c]
    /\ got' = got + 1
    /\ UNCHANGED <<sheetVars, request, state, sent, backlog, loop, received, next>>

\* The client has closed the connection, and all that it sent has been read.
AtEnd(c) == got = request[c].stops /\ request[c].closes

\* Bug: a request that ends early is processed as far as it came.
ReadAtLeast(c) ==
    /\ loop = c
    /\ Acceptable(c) /\ got < Parts /\ AtEnd(c)
    /\ received' = IF got >= 2 THEN received \cup {c} ELSE received
    /\ Close(c)

ReadFails(c) ==
    /\ loop = c
    /\ Acceptable(c) /\ got < Parts /\ AtEnd(c)
    /\ UNCHANGED received
    /\ Close(c)

\* A request of another format is ignored, but for some more bytes to be printed.
Ignore(c) ==
    /\ loop = c
    /\ got >= 1 /\ ~request[c].array
    /\ got < sent[c] \/ AtEnd(c)
    /\ UNCHANGED received
    /\ Close(c)

RefuseNone(c) ==
    /\ loop = c
    /\ got >= 2 /\ request[c].array /\ request[c].messages = <<>>
    /\ UNCHANGED received
    /\ Close(c)

\* "go AppReqPushPayload"
Push(c) ==
    /\ loop = c
    /\ Acceptable(c) /\ got = Parts
    /\ received' = received \cup {c}
    /\ Close(c)

TCPInboundHandler ==
    \/ Accept
    \/ \E c \in Conn : Read(c) \/ ReadFails(c) \/ Ignore(c) \/ RefuseNone(c) \/ Push(c)

-----------------------------------------------------------------------------
\* AppReqPushPayload processes one message after the other.
AppReqProcess(c) ==
    /\ c \in received
    /\ next[c] < Len(request[c].messages)
    /\ Ask(c, request[c].messages[next[c] + 1])
    /\ next' = [next EXCEPT ![c] = @ + 1]
    /\ UNCHANGED <<request, state, sent, backlog, loop, got, received>>

SheetDeviceInfo(c) == LookUp(c) /\ UNCHANGED tcp

Environment ==
    \/ (Edit \/ Invalidate \/ Expire) /\ UNCHANGED tcp
    \/ \E c \in Conn : Connect(c) \/ Send(c)

Next ==
    \/ Environment
    \/ TCPInboundHandler
    \/ \E c \in Conn : AppReqProcess(c) \/ SheetDeviceInfo(c)

Spec == Init /\ [][Next]_vars

\* The loop and the goroutines go on, and clients send what they want to send.  A
\* request of the sheet is answered, fails or hangs.
FairSpec ==
    /\ Spec
    /\ WF_vars(TCPInboundHandler)
    /\ \A c \in Conn : WF_vars(Send(c)) /\ WF_vars(AppReqProcess(c) \/ SheetDeviceInfo(c))

-----------------------------------------------------------------------------
ReceptionTypeOK ==
    /\ SheetTypeOK
    /\ request \in Requests
    /\ state \in [Conn -> {"away", "open", "closed"}]
    /\ sent \in [Conn -> 0 .. Parts]
    /\ backlog \in Seq(Conn)
    /\ loop \in Conn \cup {Nobody}
    /\ got \in 0 .. Parts
    /\ received \subseteq Conn
    /\ next \in [Conn -> Nat]

Whole(c) ==
    request[c].array /\ request[c].messages # <<>> /\ request[c].stops = Parts

\* The messages have been passed on.
Processed(c) == c \in received /\ next[c] = Len(request[c].messages) /\ pc[c] = "idle"

\* The loop waits, for ever, for a client that is silent: neither its close nor a
\* byte that the loop would read will come.
Stuck ==
    /\ loop # Nobody
    /\ ~request[loop].closes
    /\ got = request[loop].stops
    /\ got < Parts

\* A connection is closed in the end, and all messages are passed on if its request
\* was whole, and none if it was not; unless the loop is stuck with a client that is
\* silent, or its own request of the sheet hangs.  That of another does not matter,
\* nor that the sheet cannot be read, nor what else is sent.
EveryConnectionEnds ==
    \A c \in Conn : state[c] = "open" ~>
        \/ Stuck
        \/ state[c] = "closed" /\ IF Whole(c) THEN Processed(c) \/ pc[c] = "hung"
                                              ELSE c \notin received
=============================================================================
