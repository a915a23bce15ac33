-------------------------------- MODULE Demo --------------------------------
(***************************************************************************)
(* The demo program sdk/go/examples/demo/example.go run against an engine  *)
(* over a transport that may lose or delay what it carries.                *)
(*                                                                         *)
(* main() is one goroutine that makes its calls in order.  Every error     *)
(* ends it with log.Fatal, except the errors of the two DropCollection     *)
(* calls that clear a collection left by an earlier run (lines 82 and      *)
(* 140).  Each call is modelled from the proxy method it makes             *)
(* (client_proxy.go) over its transport method (clients.go): a gRPC call   *)
(* ends with DeadlineExceeded when buildContext's 10 s deadline fires      *)
(* while its request may still reach the engine; an HTTP call has no       *)
(* deadline and may fail to decode its body; on either transport a         *)
(* connection error may end a call whose request was already sent.         *)
(*                                                                         *)
(* The engine is the environment.  It answers each request by its store    *)
(* of collections, and by the documents of "example": ExistsCode for a     *)
(* CreateCollection of a name it holds, MissingCode for any other call on  *)
(* a name it does not hold.  Its answers are complete (CollectionCodec     *)
(* checks the decoders on partial ones); the configs, rows and features    *)
(* the demo passes are built (CollectionCodec, WriteRequest and            *)
(* QueryRequest check the builders).                                       *)
(***************************************************************************)
EXTENDS ProxyStatus, Sequences

CONSTANTS
    Protocols,     \* the -http flag: "grpc" (default) or "http"
    ExistsCode,    \* engine status: the collection exists already
    MissingCode    \* engine status: no such collection

ASSUME /\ Protocols \subseteq {"grpc", "http"}
       /\ {ExistsCode, MissingCode} \cap {Success, RetryLater} = {}
       /\ ExistsCode # MissingCode

VARIABLES
    proto,     \* the protocol main() chose
    pc,        \* "start", "call", "wait", "done" or "fatal"
    step,      \* index in Steps of the current call
    result,    \* what the current call returned
    failedBy,  \* what made the last call fail: "none", "transport",
               \* "engine" or "construct"
    net,       \* requests on their way to the engine
    replies,   \* responses on their way back
    store,     \* collections the engine holds
    docs       \* primary keys of the documents of "example"

vars == <<proto, pc, step, result, failedBy, net, replies, store, docs>>

Names == {"example", "example_with_repo"}
Keys  == {0, 2}

\* One statement of main(): the source line, the proxy method, the
\* collection, the primary keys it writes or reads, and whether an error
\* ends the program.
Stmt(line, call, name, keys, fatal) ==
    [line |-> line, call |-> call, name |-> name, keys |-> keys, fatal |-> fatal]

\* main(), lines 62-157: list, re-create "example", create, describe and
\* drop "example_with_repo".
CollectionSteps ==
    << Stmt(63,  "List",     "",                  {}, TRUE),
       Stmt(73,  "List",     "repo",              {}, TRUE),
       Stmt(82,  "Drop",     "example",           {}, FALSE),
       Stmt(104, "Create",   "example",           {}, TRUE),
       Stmt(110, "Describe", "example",           {}, TRUE),
       Stmt(140, "Drop",     "example_with_repo", {}, FALSE),
       Stmt(141, "Create",   "example_with_repo", {}, TRUE),
       Stmt(147, "Describe", "example_with_repo", {}, TRUE),
       Stmt(154, "Drop",     "example_with_repo", {}, TRUE) >>

\* Fault-injection variant of DataSteps: the error of Write not checked.
DataStepsWriteUnchecked ==
    << Stmt(190, "Write",  "example", {0, 2}, FALSE),
       Stmt(195, "Stat",   "example", {},     TRUE),
       Stmt(202, "Query",  "example", {},     TRUE),
       Stmt(209, "Query",  "example", {},     TRUE),
       Stmt(228, "GetDoc", "example", {0},    TRUE),
       Stmt(235, "Stat",   "example", {},     TRUE) >>

\* main(), lines 159-239: write rows 0 and 2 to "example", stat, query a
\* vector and a matrix, fetch document 0, stat again.
DataSteps ==
    << Stmt(190, "Write",  "example", {0, 2}, TRUE),
       Stmt(195, "Stat",   "example", {},     TRUE),
       Stmt(202, "Query",  "example", {},     TRUE),
       Stmt(209, "Query",  "example", {},     TRUE),
       Stmt(228, "GetDoc", "example", {0},    TRUE),
       Stmt(235, "Stat",   "example", {},     TRUE) >>

Steps == CollectionSteps \o DataSteps

\* buildContext gives every gRPC call a deadline; HTTP calls have none.
HasDeadline == proto = "grpc"

\* The error a failed transport call returns: a gRPC status error, or a
\* plain Go error from net/http or protojson.
TransportErrorCode == IF proto = "grpc" THEN DeadlineExceeded ELSE NotAStatus

\* buildQueryResponseFromPB copies every result's documents and never fails.
BuildQueryResponseFromPB(r) == OK

\* What the proxy method of statement s returns for the engine's response r.
Outcome(s, r) ==
    CASE s.call = "Write"  -> WriteResult(FALSE, r.status)
      [] s.call = "GetDoc" -> GetDocResult(r)
      [] s.call = "Query" /\ StatusOK(r.status) -> BuildQueryResponseFromPB(r)
      [] OTHER -> WrapError(r.status)

\* What the proxy method of statement s returns when its transport fails.
TransportOutcome(s) ==
    IF s.call = "Write" THEN WriteResult(TRUE, 0) ELSE Errored(TransportErrorCode)

\* main() after a call returned r: log.Fatal on an error it checks, else the
\* next statement, or the end of main().
Continue(r) ==
    IF r.st # "ok" /\ Steps[step].fatal
    THEN /\ pc' = "fatal" /\ UNCHANGED step
    ELSE IF step = Len(Steps)
         THEN /\ pc' = "done" /\ UNCHANGED step
         ELSE /\ pc' = "call" /\ step' = step + 1

Init ==
    /\ proto \in Protocols
    /\ pc = "start"
    /\ step = 0
    /\ result = NoResult
    /\ failedBy = "none"
    /\ net = {}
    /\ replies = {}
    \* collections and documents an earlier run may have left
    /\ store \in SUBSET Names
    /\ docs \in IF "example" \in store THEN SUBSET Keys ELSE {{}}

\* Lines 49-60: NewProximaSearchClient (ClientProxy checks how it decides);
\* an error ends the program.
Start ==
    /\ pc = "start"
    /\ \E ok \in BOOLEAN :
          /\ pc' = IF ok THEN "call" ELSE "fatal"
          /\ step' = 1
          /\ failedBy' = IF ok THEN "none" ELSE "construct"
    /\ UNCHANGED <<proto, result, net, replies, store, docs>>

\* The proxy method of the current statement sends its request.
Issue ==
    /\ pc = "call"
    /\ pc' = "wait"
    /\ net' = net \cup {[step |-> step, call |-> Steps[step].call, name |-> Steps[step].name,
                         keys |-> Steps[step].keys]}
    /\ result' = NoResult
    /\ failedBy' = "none"
    /\ UNCHANGED <<proto, step, replies, store, docs>>

Reply(m, code, doc) == [step |-> m.step, status |-> code, doc |-> doc]

\* The engine handles a request: its answer and its new store.
Handle(m) ==
    /\ m \in net
    /\ net' = net \ {m}
    /\ CASE m.call = "Create" ->
              /\ replies' = replies \cup
                   {Reply(m, IF m.name \in store THEN ExistsCode ELSE Success, FALSE)}
              /\ store' = store \cup {m.name}
              /\ docs' = IF m.name \in store \/ m.name # "example" THEN docs ELSE {}
         [] m.call = "Drop" ->
              /\ replies' = replies \cup
                   {Reply(m, IF m.name \in store THEN Success ELSE MissingCode, FALSE)}
              /\ store' = store \ {m.name}
              /\ docs' = IF m.name = "example" THEN {} ELSE docs
         [] m.call = "List" ->
              /\ replies' = replies \cup {Reply(m, Success, FALSE)}
              /\ UNCHANGED <<store, docs>>
         [] OTHER ->
              /\ replies' = replies \cup
                   {Reply(m, IF m.name \in store THEN Success ELSE MissingCode,
                          m.name \in store /\ m.keys \subseteq docs)}
              /\ docs' = IF m.call = "Write" /\ m.name \in store THEN docs \cup m.keys
                         ELSE docs
              /\ UNCHANGED store
    /\ UNCHANGED <<proto, pc, step, result, failedBy>>

LoseRequest(m) ==
    /\ m \in net
    /\ net' = net \ {m}
    /\ UNCHANGED <<proto, pc, step, result, failedBy, replies, store, docs>>

LoseReply(r) ==
    /\ r \in replies
    /\ replies' = replies \ {r}
    /\ UNCHANGED <<proto, pc, step, result, failedBy, net, store, docs>>

\* The proxy method takes the response of its call; main() goes on.
Receive(r) ==
    /\ pc = "wait"
    /\ r \in replies /\ r.step = step
    /\ replies' = replies \ {r}
    /\ result' = Outcome(Steps[step], r)
    /\ failedBy' = IF Outcome(Steps[step], r).st = "ok" THEN "none" ELSE "engine"
    /\ Continue(Outcome(Steps[step], r))
    /\ UNCHANGED <<proto, net, store, docs>>

\* The transport call fails; its request, if sent, stays where it is.
TransportFailed ==
    /\ pc = "wait"
    /\ result' = TransportOutcome(Steps[step])
    /\ failedBy' = "transport"
    /\ Continue(TransportOutcome(Steps[step]))
    /\ UNCHANGED <<proto, net, store, docs>>

\* HTTP: the response arrives but getMessageFromIO fails on its body.
ReceiveUndecodable(r) ==
    /\ proto = "http"
    /\ r \in replies /\ r.step = step
    /\ replies' = replies \ {r}
    /\ TransportFailed

\* gRPC: buildContext's deadline fires.
Deadline ==
    /\ HasDeadline
    /\ TransportFailed
    /\ UNCHANGED replies

\* Either transport: the connection fails.
ConnectionError ==
    /\ TransportFailed
    /\ UNCHANGED replies

\* main() has returned or called log.Fatal; late requests may still land.
Exited ==
    /\ pc \in {"done", "fatal"}
    /\ net = {} /\ replies = {}
    /\ UNCHANGED vars

Next ==
    \/ Start \/ Issue
    \/ \E m \in net : Handle(m) \/ LoseRequest(m)
    \/ \E r \in replies : LoseReply(r) \/ Receive(r) \/ ReceiveUndecodable(r)
    \/ Deadline \/ ConnectionError
    \/ Exited

Spec == Init /\ [][Next]_vars

-----------------------------------------------------------------------------
(* Properties.                                                             *)

Results == {NoResult, OK, DocResult} \cup
           {Errored(c) : c \in {Unknown, RetryLater, DeadlineExceeded, NotAStatus,
                                ExistsCode, MissingCode}}

(***************************************************************************)
(* Every state is one main() can be in, and the Write of line 190 fails    *)
(* only with the two codes Write sorts errors into (RetryLater, Unknown),  *)
(* whatever the engine answered.                                           *)
(***************************************************************************)
TypeOK ==
    /\ proto \in Protocols
    /\ pc \in {"start", "call", "wait", "done", "fatal"}
    /\ step \in 0..Len(Steps)
    /\ result \in Results
    /\ failedBy \in {"none", "transport", "engine", "construct"}
    /\ store \subseteq Names /\ docs \subseteq Keys
    /\ step > 0 /\ Steps[step].call = "Write" /\ result.st = "error" =>
          result.code \in {RetryLater, Unknown}

(***************************************************************************)
(* While main() runs, the only requests still on their way from an earlier *)
(* statement are DropCollection requests, whose error main() ignores at    *)
(* lines 82 and 140: every other call that failed in transport, with its   *)
(* request maybe still to land, ended the program.                         *)
(***************************************************************************)
StaleOnlyIgnoredCalls ==
    pc \in {"call", "wait"} => \A m \in net : m.step = step \/ m.call = "Drop"

(***************************************************************************)
(* main() fails only on what it cannot control: against an engine that     *)
(* answers by its store, it dies with log.Fatal only on a transport error  *)
(* or a failed construction, never on an engine status contradicting its   *)
(* own earlier calls ("Lost collection named by 'example', which created   *)
(* before", line 112).                                                     *)
(***************************************************************************)
FatalOnlyOnTransportError == pc = "fatal" => failedBy # "engine"

=============================================================================
