------------------------------ MODULE IpcClient -------------------------------
(***************************************************************************)
(* The IPC client core of src/src/ipc/client.c: the connection handshake *)
(* (ggipc_connect_by_name) and the unary call (ggipc_call), run by        *)
(* several threads over one or more connections.                          *)
(*                                                                         *)
(* Every send and every receive borrows the single static payload_array,  *)
(* guarded by payload_array_mtx, which is shared by ALL connections.  A   *)
(* call holds the mutex while it encodes and writes (send_message), drops *)
(* it, then takes it again and blocks in get_message until a whole frame *)
(* has been read.  Nothing correlates a reply with its request: the      *)
(* reply is whatever frame is next on the socket.                          *)
(*                                                                         *)
(* The server end of each connection is the environment: it answers each *)
(* request in order, and, where Faults allow, sends a frame on another   *)
(* stream, a frame larger than the receive buffer, a rejecting CONNECT_ACK *)
(* or hangs up.  Frames are abstracted to their kind and the request they *)
(* answer; headers, JSON payloads and CRCs are not modelled.              *)
(***************************************************************************)
EXTENDS Integers, Sequences, FiniteSets, TLC

CONSTANTS
    Callers,      \* threads calling the IPC API
    NoCaller,     \* owner of payload_array_mtx when nobody holds it
    Conns,        \* connections (socket fds to the server)
    CallerConn,   \* CallerConn[t]: the connection thread t uses
    MaxCalls,     \* bound: connects and calls each thread makes
    MaxQueue,     \* bound: frames waiting on one connection
    Faults        \* server misbehaviours explored (see ServerKinds)

ASSUME CallerConn \in [Callers -> Conns] /\ NoCaller \notin Callers
ASSUME Faults \subseteq {"foreign", "big", "reject", "hangup"}

VARIABLES
    mtx,          \* payload_array_mtx: its owner or NoCaller
    pc,           \* where each thread is
    opn,          \* opn[t]: the current operation, "connect" or "call"
    calls,        \* calls[t]: operations thread t has started
    conn,         \* conn[c]: "none", "handshake" (connect in progress), "up"
    hup,          \* hup[c]: the server has closed connection c
    toServer,     \* toServer[c]: requests written and not yet answered
    toClient,     \* toClient[c]: frames the server wrote, not yet read
    result        \* result[t]: code of t's last return, frame it consumed

vars == <<mtx, pc, opn, calls, conn, hup, toServer, toClient, result>>

\* A request is named by its caller and its sequence number.
ReqIds == Callers \X (1..MaxCalls)
NoReq == <<>>

\* CONNECT_ACK variants, in the order ggipc_connect_by_name checks them.
AckKinds == {"ack_ok", "ack_noaccept", "ack_badtype", "ack_long",
             "ack_nosvcuid"}
\* "msg"/"err": APPLICATION_MESSAGE / APPLICATION_ERROR on stream 1;
\* "foreign": a frame on another stream; "big": data_len > the buffer;
\* "body": the unread remainder of a frame, left at the head of the stream.
FrameKinds == AckKinds \cup {"msg", "err", "foreign", "big", "body"}
Frame(k, r) == [kind |-> k, for |-> r]

Codes == {"OK", "FAILURE", "INVALID", "NOMEM", "NOCONN", "PARSE", "REMOTE"}
NoResult == [code |-> "none", frame |-> Frame("none", NoReq)]

\* The replies the server may write to request r.
ServerKinds(r) ==
    IF r.op = "connect"
      THEN {"ack_ok"} \cup (IF "reject" \in Faults THEN AckKinds ELSE {})
      ELSE {"msg", "err"} \cup (IF "big" \in Faults THEN {"big"} ELSE {})

\* The code a handshake returns for the CONNECT_ACK it read.
AckCode(k) ==
    CASE k = "ack_ok"       -> "OK"
      [] k = "ack_badtype"  -> "INVALID"     \* svcuid header not a string
      [] k = "ack_long"     -> "NOMEM"       \* svcuid longer than buffer
      [] OTHER              -> "FAILURE"     \* not an ack, not accepted,
                                             \* or svcuid missing

\* The code ggipc_call returns for the frame it read.
CallCode(k) ==
    CASE k = "msg"     -> "OK"
      [] k = "err"     -> "REMOTE"
      [] OTHER         -> "FAILURE"          \* other stream, or not an
                                             \* APPLICATION_MESSAGE
Me(t) == CallerConn[t]

\* Thread t's return: the scope guards drop the mutex, the result is kept.
Finish(t, code, f) ==
    /\ pc' = [pc EXCEPT ![t] = "idle"]
    /\ result' = [result EXCEPT ![t] = [code |-> code, frame |-> f]]

(***************************************************************************)
(* ggipc_connect_by_name: ggl_connect yields a fresh socket to the        *)
(* server.  The connection is in "handshake" until the ACK is checked.    *)
(***************************************************************************)
Connect(t) ==
    /\ pc[t] = "idle" /\ calls[t] < MaxCalls
    /\ conn[Me(t)] = "none"
    /\ conn' = [conn EXCEPT ![Me(t)] = "handshake"]
    /\ hup' = [hup EXCEPT ![Me(t)] = FALSE]
    /\ toServer' = [toServer EXCEPT ![Me(t)] = <<>>]
    /\ toClient' = [toClient EXCEPT ![Me(t)] = <<>>]
    /\ pc' = [pc EXCEPT ![t] = "send"]
    /\ opn' = [opn EXCEPT ![t] = "connect"]
    /\ calls' = [calls EXCEPT ![t] = @ + 1]
    /\ UNCHANGED <<mtx, result>>

\* ggipc_call on a connection whose handshake succeeded.
Call(t) ==
    /\ pc[t] = "idle" /\ calls[t] < MaxCalls
    /\ conn[Me(t)] = "up"
    /\ pc' = [pc EXCEPT ![t] = "send"]
    /\ opn' = [opn EXCEPT ![t] = "call"]
    /\ calls' = [calls EXCEPT ![t] = @ + 1]
    /\ UNCHANGED <<mtx, conn, hup, toServer, toClient, result>>

\* mutant: a write loop that restarts an interrupted write from offset 0,
\* so the server sees the request twice
SendTwice(t) ==
    LET c == Me(t)
        r == [op |-> opn[t], id |-> <<t, calls[t]>>]
    IN
    /\ pc[t] = "send"
    /\ mtx = NoCaller
    /\ IF hup[c]
         THEN /\ Finish(t, "NOCONN", Frame("none", NoReq))
              /\ conn' = IF opn[t] = "connect"
                           THEN [conn EXCEPT ![c] = "none"] ELSE conn
              /\ UNCHANGED toServer
         ELSE /\ toServer' = [toServer EXCEPT ![c] = @ \o <<r, r>>]
              /\ pc' = [pc EXCEPT ![t] = "recv_lock"]
              /\ UNCHANGED <<conn, result>>
    /\ UNCHANGED <<mtx, opn, calls, hup, toClient>>

(***************************************************************************)
(* send_message: lock payload_array_mtx, encode, ggl_socket_write the     *)
(* whole frame, unlock.  A write to a connection the server closed fails; *)
(* a failed handshake closes its socket (GGL_CLEANUP_ID cleanup_close).   *)
(***************************************************************************)
Send(t) ==
    LET c == Me(t) IN
    /\ pc[t] = "send"
    /\ mtx = NoCaller
    /\ IF hup[c]
         THEN /\ Finish(t, "NOCONN", Frame("none", NoReq))
              /\ conn' = IF opn[t] = "connect"
                           THEN [conn EXCEPT ![c] = "none"] ELSE conn
              /\ UNCHANGED toServer
         ELSE /\ toServer' = [toServer EXCEPT ![c] =
                                 Append(@, [op |-> opn[t], id |-> <<t, calls[t]>>])]
              /\ pc' = [pc EXCEPT ![t] = "recv_lock"]
              /\ UNCHANGED <<conn, result>>
    /\ UNCHANGED <<mtx, opn, calls, hup, toClient>>

\* GGL_MTX_SCOPE_GUARD(&payload_array_mtx) before get_message.
RecvLock(t) ==
    /\ pc[t] = "recv_lock"
    /\ mtx = NoCaller
    /\ mtx' = t
    /\ pc' = [pc EXCEPT ![t] = "recv"]
    /\ UNCHANGED <<opn, calls, conn, hup, toServer, toClient, result>>

(***************************************************************************)
(* get_message and the checks after it, under the mutex.  It blocks until *)
(* the 12-byte prelude is there.  A frame too large for payload_array     *)
(* returns NOMEM without reading its body, which stays on the socket; a  *)
(* prelude read out of such a body fails to decode.  Otherwise the whole *)
(* frame is consumed and judged by its type and stream id.  A handshake  *)
(* that fails closes its socket.                                           *)
(***************************************************************************)
RecvCode(t, q) ==
    CASE q = <<>>               -> "NOCONN"    \* read error: peer closed
      [] Head(q).kind = "big"   -> "NOMEM"
      [] Head(q).kind = "body"  -> "PARSE"
      [] opn[t] = "connect"     -> AckCode(Head(q).kind)
      [] OTHER                  -> CallCode(Head(q).kind)

\* What is left on the socket after get_message read from q.
Unread(q) ==
    CASE q = <<>>               -> q
      [] Head(q).kind = "big"   -> <<Frame("body", NoReq)>> \o Tail(q)
      [] Head(q).kind = "body"  -> q
      [] OTHER                  -> Tail(q)

FrameRead(q) == IF q = <<>> THEN Frame("none", NoReq) ELSE Head(q)

\* The return: unlock, and a handshake keeps or closes its socket.
RecvReturn(t, q) ==
    LET c == Me(t) IN
    /\ Finish(t, RecvCode(t, q), FrameRead(q))
    /\ mtx' = NoCaller
    /\ conn' = IF opn[t] = "connect"
                 THEN [conn EXCEPT ![c] =
                         IF RecvCode(t, q) = "OK" THEN "up" ELSE "none"]
                 ELSE conn

\* mutant: get_message that retries a prelude it cannot decode, for ever
ReceiveRetriesGarbage(t) ==
    LET q == toClient[Me(t)] IN
    /\ pc[t] = "recv"
    /\ q # <<>> \/ hup[Me(t)]
    /\ IF q # <<>> /\ Head(q).kind = "body"
         THEN UNCHANGED vars
         ELSE /\ toClient' = [toClient EXCEPT ![Me(t)] = Unread(q)]
              /\ RecvReturn(t, q)
              /\ UNCHANGED <<opn, calls, hup, toServer>>

Receive(t) ==
    LET q == toClient[Me(t)] IN
    /\ pc[t] = "recv"
    /\ q # <<>> \/ hup[Me(t)]
    /\ toClient' = [toClient EXCEPT ![Me(t)] = Unread(q)]
    /\ RecvReturn(t, q)
    /\ UNCHANGED <<opn, calls, hup, toServer>>

(***************************************************************************)
(* The server end of connection c.                                         *)
(***************************************************************************)
Serving(c) == conn[c] \in {"handshake", "up"} /\ ~hup[c]

\* It answers the oldest unanswered request.
ServerReply(c) ==
    /\ Serving(c)
    /\ toServer[c] # <<>> /\ Len(toClient[c]) < MaxQueue
    /\ \E k \in ServerKinds(Head(toServer[c])) :
         toClient' = [toClient EXCEPT ![c] =
                         Append(@, Frame(k, Head(toServer[c]).id))]
    /\ toServer' = [toServer EXCEPT ![c] = Tail(@)]
    /\ UNCHANGED <<mtx, pc, opn, calls, conn, hup, result>>

\* It sends a frame on another stream (e.g. a subscription event).
ServerPush(c) ==
    /\ "foreign" \in Faults
    /\ conn[c] = "up" /\ ~hup[c] /\ Len(toClient[c]) < MaxQueue
    /\ toClient' = [toClient EXCEPT ![c] = Append(@, Frame("foreign", NoReq))]
    /\ UNCHANGED <<mtx, pc, opn, calls, conn, hup, toServer, result>>

\* It closes the connection; frames already written can still be read.
ServerHangup(c) ==
    /\ "hangup" \in Faults
    /\ Serving(c)
    /\ hup' = [hup EXCEPT ![c] = TRUE]
    /\ UNCHANGED <<mtx, pc, opn, calls, conn, toServer, toClient, result>>

Init ==
    /\ mtx = NoCaller
    /\ pc = [t \in Callers |-> "idle"]
    /\ opn = [t \in Callers |-> "call"]
    /\ calls = [t \in Callers |-> 0]
    /\ conn = [c \in Conns |-> "none"]
    /\ hup = [c \in Conns |-> FALSE]
    /\ toServer = [c \in Conns |-> <<>>]
    /\ toClient = [c \in Conns |-> <<>>]
    /\ result = [t \in Callers |-> NoResult]

\* Every thread has made all its calls and returned: the program ends.
Done ==
    /\ \A t \in Callers : pc[t] = "idle" /\ calls[t] = MaxCalls
    /\ UNCHANGED vars

Next ==
    \/ \E t \in Callers :
         Connect(t) \/ Call(t) \/ Send(t) \/ RecvLock(t) \/ Receive(t)
    \/ \E c \in Conns : ServerReply(c) \/ ServerPush(c) \/ ServerHangup(c)
    \/ Done

\* A thread inside a call keeps running (it is never descheduled for
\* good); the server answers every request.  Pushes and hang-ups are not
\* assumed to happen.
Fairness ==
    /\ \A t \in Callers : WF_vars(Send(t) \/ RecvLock(t) \/ Receive(t))
    /\ \A c \in Conns : WF_vars(ServerReply(c))

Spec == Init /\ [][Next]_vars /\ Fairness

-----------------------------------------------------------------------------
Requests == [op : {"connect", "call"}, id : ReqIds]

TypeOK ==
    /\ mtx \in Callers \cup {NoCaller}
    /\ pc \in [Callers -> {"idle", "send", "recv_lock", "recv"}]
    /\ opn \in [Callers -> {"connect", "call"}]
    /\ calls \in [Callers -> 0..MaxCalls]
    /\ conn \in [Conns -> {"none", "handshake", "up"}]
    /\ hup \in [Conns -> BOOLEAN]
    /\ toServer \in [Conns -> Seq(Requests)]
    /\ toClient \in [Conns -> Seq([kind : FrameKinds, for : ReqIds \cup {NoReq}])]
    /\ result \in [Callers -> [code : Codes \cup {"none"},
                               frame : [kind : FrameKinds \cup {"none"},
                                        for : ReqIds \cup {NoReq}]]]

(***************************************************************************)
(* A successful return is the answer to the caller's own request: when a  *)
(* thread's last ggipc_call or handshake returned OK, the frame it         *)
(* consumed was written by the server in reply to that very request, and  *)
(* not to an earlier request of its own or to another thread's.            *)
(***************************************************************************)
ResponseMatchesRequest ==
    \A t \in Callers :
        pc[t] = "idle" /\ result[t].code = "OK" =>
            result[t].frame.for = <<t, calls[t]>>

(***************************************************************************)
(* A connection in use is never in the middle of a frame: every read of   *)
(* get_message on a connected socket starts at a frame boundary (spec     *)
(* 4.5: an oversize frame leaves the connection Disconnected).            *)
(***************************************************************************)
StreamInSync ==
    \A c \in Conns :
        conn[c] = "up" => \A i \in 1..Len(toClient[c]) :
                              toClient[c][i].kind # "body"

(***************************************************************************)
(* Every connect and every call returns: no thread stays blocked in       *)
(* send_message or get_message, or waiting for payload_array_mtx, given   *)
(* that the server answers each request.                                   *)
(***************************************************************************)
CallsReturn == \A t \in Callers : pc[t] # "idle" ~> pc[t] = "idle"

====
