---------------------------- MODULE ClientProxy -----------------------------
(***************************************************************************)
(* proximaSEClientProxy (sdk/go/client_proxy.go) over its transport        *)
(* (sdk/go/clients.go): Write and GetDocumentByKey, called by several      *)
(* goroutines that share one proxy, against an engine and a network that   *)
(* may lose a request or a reply.                                          *)
(*                                                                         *)
(* A gRPC call runs under a 10 s deadline (buildContext); when it fires    *)
(* the call returns DeadlineExceeded while its request may still reach the *)
(* engine.  An HTTP call uses http.DefaultClient, which has no deadline,   *)
(* and may also fail to decode a response body (getMessageFromIO).  Either *)
(* transport may fail outright (connection errors) at any time.            *)
(*                                                                         *)
(* The engine is the environment: it applies a write (status 0) or rejects *)
(* it with one of EngineCodes, and answers a GetDocumentByKey with the     *)
(* document if it holds the key.  Whether a write is built (the            *)
(* WriteRequest module checks buildPBWriteRequest) is an input of the call.*)
(***************************************************************************)
EXTENDS ProxyStatus, SequencesExt

CONSTANTS
    Clients,           \* goroutines sharing the proxy
    Keys,              \* primary keys
    MaxCalls,          \* calls each goroutine makes
    Protocols,         \* ConnectionProtocols NewProximaSearchClient may be given
    EngineCodes,       \* non-zero status codes the engine answers with
    ClientVersion,     \* the SDK's VERSION, as a sequence of characters
    ServerVersions     \* versions the engine may report

\* The engine's error codes are the negative ErrorCodes of const.go.
ASSUME Protocols \subseteq {"grpc", "http"} /\ \A x \in EngineCodes : x < 0

VARIABLES
    conn,      \* NewProximaSearchClient: its outcome and the server it met
    pc,        \* [Clients -> {"idle", "waiting", "returned"}]
    op,        \* [Clients -> the current call: kind, key, built, id]
    result,    \* [Clients -> what the current call returned]
    calls,     \* [Clients -> number of calls made]
    net,       \* requests on their way to the engine
    replies,   \* responses on their way back
    applied,   \* ids of writes the engine applied
    docs,      \* keys the engine holds a document for
    answer     \* [Clients -> <<status code>> of the response the current
               \*  call decoded, or <<>>]: history, for properties only

vars == <<conn, pc, op, result, calls, net, replies, applied, docs, answer>>

NoOp == [kind |-> "none", key |-> "none", valid |-> FALSE, id |-> <<>>]

\* buildContext gives every gRPC call a deadline; HTTP calls have none.
HasDeadline == conn.protocol = "grpc"

\* The error a transport failure surfaces as: a gRPC status error, or a
\* plain Go error from net/http or protojson.
TransportErrorCode == IF conn.protocol = "grpc" THEN DeadlineExceeded ELSE NotAStatus

\* Fault-injection variant of Compatible: the arguments of HasPrefix swapped.
CompatibleSwapped(client, server) == IsPrefix(server, client)

\* Version.Compatible: strings.HasPrefix(ver.Server, ver.Client).
Compatible(client, server) == IsPrefix(client, server)

\* GetVersion: gRPC turns a failed GetVersion RPC into ("", nil); HTTP
\* returns the error of http.Get or of decoding the body.
GetVersion(protocol, answered, sv) ==
    CASE answered -> [ok |-> TRUE, v |-> sv]
      [] protocol = "grpc" -> [ok |-> TRUE, v |-> <<>>]
      [] OTHER -> [ok |-> FALSE, v |-> <<>>]

\* NewProximaSearchClient: newProximaSEPBClient (a blocking gRPC dial with a
\* 10 s timeout; nothing to dial for HTTP), GetVersion, then Compatible.
Construct(protocol, dialOk, answered, sv) ==
    LET ver == GetVersion(protocol, answered, sv)
    IN  CASE protocol = "grpc" /\ ~dialOk -> "error"
          [] ~ver.ok -> "error"
          [] Compatible(ClientVersion, ver.v) -> "client"
          [] OTHER -> "incompatible"

Init ==
    /\ conn = [state |-> "none", protocol |-> "none", server |-> <<>>, answered |-> FALSE]
    /\ pc = [c \in Clients |-> "idle"]
    /\ op = [c \in Clients |-> NoOp]
    /\ result = [c \in Clients |-> NoResult]
    /\ calls = [c \in Clients |-> 0]
    /\ net = {}
    /\ replies = {}
    /\ applied = {}
    /\ docs = {}
    /\ answer = [c \in Clients |-> <<>>]

\* The program constructs the client once; its goroutines call only a
\* client that was constructed.
NewProximaSearchClient(protocol, dialOk, answered, sv) ==
    /\ conn.state = "none"
    /\ conn' = [state |-> Construct(protocol, dialOk, answered, sv), protocol |-> protocol,
                server |-> sv, answered |-> answered]
    /\ UNCHANGED <<pc, op, result, calls, net, replies, applied, docs, answer>>

\* A goroutine calls Write (built or not) or GetDocumentByKey.  A write that
\* buildPBWriteRequest rejects returns Unknown without reaching the transport.
Call(c, kind, key, valid) ==
    LET id == <<c, calls[c] + 1>>
    IN  /\ conn.state = "client"
        /\ pc[c] = "idle"
        /\ calls[c] < MaxCalls
        /\ calls' = [calls EXCEPT ![c] = @ + 1]
        /\ op' = [op EXCEPT ![c] = [kind |-> kind, key |-> key, valid |-> valid, id |-> id]]
        /\ IF valid
           THEN /\ pc' = [pc EXCEPT ![c] = "waiting"]
                /\ net' = net \cup {[id |-> id, kind |-> kind, key |-> key]}
                /\ UNCHANGED result
           ELSE /\ pc' = [pc EXCEPT ![c] = "returned"]
                /\ result' = [result EXCEPT ![c] = Errored(Unknown)]
                /\ UNCHANGED net
        /\ UNCHANGED <<conn, replies, applied, docs, answer>>

Reply(id, code, doc) == [id |-> id, status |-> code, doc |-> doc]

\* The engine applies a write or rejects it, and answers with a Status.
EngineWrite(m) ==
    /\ m \in net /\ m.kind = "Write"
    /\ \E code \in {Success} \cup EngineCodes :
          /\ net' = net \ {m}
          /\ replies' = replies \cup {Reply(m.id, code, FALSE)}
          /\ applied' = IF code = Success THEN applied \cup {m.id} ELSE applied
          /\ docs' = IF code = Success THEN docs \cup {m.key} ELSE docs
    /\ UNCHANGED <<conn, pc, op, result, calls, answer>>

\* The engine answers a GetDocumentRequest.
EngineGetDoc(m) ==
    /\ m \in net /\ m.kind = "GetDoc"
    /\ \E code \in {Success} \cup EngineCodes :
          /\ net' = net \ {m}
          /\ replies' = replies \cup {Reply(m.id, code, code = Success /\ m.key \in docs)}
    /\ UNCHANGED <<conn, pc, op, result, calls, applied, docs, answer>>

LoseRequest(m) ==
    /\ m \in net
    /\ net' = net \ {m}
    /\ UNCHANGED <<conn, pc, op, result, calls, replies, applied, docs, answer>>

LoseReply(r) ==
    /\ r \in replies
    /\ replies' = replies \ {r}
    /\ UNCHANGED <<conn, pc, op, result, calls, net, applied, docs, answer>>

Outcome(o, r) == IF o.kind = "Write" THEN WriteResult(FALSE, r.status) ELSE GetDocResult(r)

\* The transport hands the response of the waiting call to the proxy method.
Receive(c, r) ==
    /\ pc[c] = "waiting"
    /\ r \in replies /\ r.id = op[c].id
    /\ replies' = replies \ {r}
    /\ pc' = [pc EXCEPT ![c] = "returned"]
    /\ result' = [result EXCEPT ![c] = Outcome(op[c], r)]
    /\ answer' = [answer EXCEPT ![c] = <<r.status>>]
    /\ UNCHANGED <<conn, op, calls, net, applied, docs>>

TransportFailed(c) ==
    /\ pc' = [pc EXCEPT ![c] = "returned"]
    /\ result' = [result EXCEPT ![c] =
                    IF op[c].kind = "Write" THEN WriteResult(TRUE, 0)
                    ELSE Errored(TransportErrorCode)]
    /\ UNCHANGED <<conn, op, calls, net, applied, docs, answer>>

\* HTTP: the response arrives but its body does not decode.
ReceiveUndecodable(c, r) ==
    /\ conn.protocol = "http"
    /\ pc[c] = "waiting"
    /\ r \in replies /\ r.id = op[c].id
    /\ replies' = replies \ {r}
    /\ TransportFailed(c)

\* The gRPC deadline of a waiting call fires; its request and any late
\* response stay where they are.
Deadline(c) ==
    /\ HasDeadline
    /\ pc[c] = "waiting"
    /\ TransportFailed(c)
    /\ UNCHANGED replies

\* A connection error ends a waiting call, on either transport.
ConnectionError(c) ==
    /\ pc[c] = "waiting"
    /\ TransportFailed(c)
    /\ UNCHANGED replies

\* The method returns to its caller, which may call again.
Return(c) ==
    /\ pc[c] = "returned"
    /\ pc' = [pc EXCEPT ![c] = "idle"]
    /\ result' = [result EXCEPT ![c] = NoResult]
    /\ answer' = [answer EXCEPT ![c] = <<>>]
    /\ UNCHANGED <<conn, op, calls, net, replies, applied, docs>>

\* Construction failed, or every goroutine has made its calls and the
\* network is quiet.
Done ==
    /\ \/ conn.state \in {"error", "incompatible"}
       \/ /\ \A c \in Clients : pc[c] = "idle" /\ calls[c] = MaxCalls
          /\ net = {} /\ replies = {}
    /\ UNCHANGED vars

Next ==
    \/ \E protocol \in Protocols, dialOk, answered \in BOOLEAN, sv \in ServerVersions :
          NewProximaSearchClient(protocol, dialOk, answered, sv)
    \/ \E c \in Clients, kind \in {"Write", "GetDoc"}, key \in Keys :
          \E valid \in IF kind = "Write" THEN BOOLEAN ELSE {TRUE} : Call(c, kind, key, valid)
    \/ \E m \in net : EngineWrite(m) \/ EngineGetDoc(m) \/ LoseRequest(m)
    \/ \E r \in replies : LoseReply(r)
    \/ \E c \in Clients, r \in replies : Receive(c, r) \/ ReceiveUndecodable(c, r)
    \/ \E c \in Clients : Deadline(c) \/ ConnectionError(c) \/ Return(c)
    \/ Done

Spec == Init /\ [][Next]_vars

\* The engine eventually answers what reaches it, a goroutine blocked in a
\* call takes a response that is there, and a gRPC deadline fires.
Fairness ==
    /\ \A c \in Clients : WF_vars(\E r \in replies : Receive(c, r))
    /\ WF_vars(\E m \in net : EngineWrite(m) \/ EngineGetDoc(m))
    /\ \A c \in Clients : WF_vars(Deadline(c))

FairSpec == Spec /\ Fairness

-----------------------------------------------------------------------------
(* Properties.                                                             *)

Ids == Clients \X (1..MaxCalls)
Codes == {Unknown, RetryLater, DeadlineExceeded, NotAStatus} \cup EngineCodes

(***************************************************************************)
(* Every state is one the proxy can be in, and Write sorts every failure   *)
(* into the two codes spec section 7 names: RetryLater when the engine     *)
(* said so, Unknown otherwise; no engine code or transport code leaks out  *)
(* of Write, whichever path (build, transport, status) failed.             *)
(***************************************************************************)
TypeOK ==
    /\ pc \in [Clients -> {"idle", "waiting", "returned"}]
    /\ calls \in [Clients -> 0..MaxCalls]
    /\ applied \subseteq Ids /\ docs \subseteq Keys
    /\ answer \in [Clients -> {<<>>} \cup {<<x>> : x \in {Success} \cup EngineCodes}]
    /\ \A c \in Clients :
          /\ result[c] \in {NoResult, OK, DocResult} \cup {Errored(x) : x \in Codes}
          /\ op[c].kind = "Write" /\ result[c].st = "error" =>
                result[c].code \in {RetryLater, Unknown}

\* The writes the abstract client has in flight are the write requests on
\* the network; everything else maps to itself.
InflightWrites == {[id |-> m.id, key |-> m.key] : m \in {m \in net : m.kind = "Write"}}

SC     == INSTANCE SearchClient WITH inflight <- InflightWrites, StrictErrors <- FALSE
Strict == INSTANCE SearchClient WITH inflight <- InflightWrites, StrictErrors <- TRUE

(***************************************************************************)
(* The proxy implements the SearchClient promise: Write reports success    *)
(* only for a write the engine applied, RetryLater only for one that will  *)
(* never take effect, GetDocumentByKey returns a document only for a key   *)
(* the engine holds, and no call panics, whatever the network loses and    *)
(* whenever the deadline fires.                                            *)
(***************************************************************************)
SearchClientSpec == SC!Spec

(***************************************************************************)
(* The stricter promise that a Write which returns an error had no effect  *)
(* (interfaces.go: Write returns "error not nil for failed"), so that the  *)
(* caller may safely write again.                                          *)
(***************************************************************************)
StrictSearchClientSpec == Strict!Spec

(***************************************************************************)
(* Every call a goroutine makes eventually returns to it, whatever the      *)
(* network loses.                                                          *)
(***************************************************************************)
CallsReturn == \A c \in Clients : pc[c] = "waiting" ~> pc[c] = "returned"

(***************************************************************************)
(* NewProximaSearchClient returns a client only when the engine answered   *)
(* GetVersion with a version that starts with the SDK's VERSION: a failed  *)
(* dial, a failed GetVersion and a foreign server never yield a client     *)
(* the goroutines then call.                                               *)
(***************************************************************************)
ConnectedOnlyToCompatible ==
    conn.state = "client" => conn.answered /\ IsPrefix(ClientVersion, conn.server)

(***************************************************************************)
(* The engine's retry-later signal reaches the caller intact and alone     *)
(* (spec sections 6 and 7: RetryLater is "distinguishable from all other   *)
(* non-zero codes"): when a returned call failed, WrapStatus of its error  *)
(* yields RetryLater exactly when the response the call decoded carried    *)
(* RetryLater, through Write's re-coding of the status and                 *)
(* GetDocumentByKey's wrapError alike; a build, transport or decode failure*)
(* never looks like RetryLater.                                            *)
(***************************************************************************)
RetryLaterDistinguishable ==
    \A c \in Clients :
        pc[c] = "returned" /\ result[c].st = "error" =>
            (WrapStatus(result[c]) = [ok |-> TRUE, code |-> RetryLater] <=> answer[c] = <<RetryLater>>)

=============================================================================
