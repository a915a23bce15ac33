---------------------------- MODULE ProxyStatus ----------------------------
(***************************************************************************)
(* The status vocabulary of sdk/go: the client-side ErrorCodes of const.go,*)
(* Status.OK / Status.IsGrpcError of status.go, wrapError of               *)
(* client_proxy.go, and the results a proxy call hands back to its caller. *)
(* A result is a record: st is "ok", "error" or "panic" ("none" while no   *)
(* call has returned); code is the Status code of an error; doc tells      *)
(* whether GetDocumentByKey returned a document.                           *)
(***************************************************************************)
EXTENDS Integers

\* ErrorCode constants of const.go.
Success      == 0
RetryLater   == -4009
Unknown      == -1000000
Incompatible == -1000001

\* The code of an error the transport returns instead of a response; gRPC
\* status codes are positive (DeadlineExceeded is 4), which is what
\* Status.IsGrpcError tests.
DeadlineExceeded == 4

\* The code of an error that is not a *Status (errors.New, an HTTP or a
\* decode error).
NotAStatus == 0

\* Status.OK and Status.IsGrpcError.
StatusOK(code)    == code = 0
IsGrpcError(code) == code > 0

NoResult     == [st |-> "none", code |-> 0, doc |-> FALSE]
OK           == [st |-> "ok", code |-> 0, doc |-> FALSE]
DocResult    == [st |-> "ok", code |-> 0, doc |-> TRUE]
Errored(code) == [st |-> "error", code |-> code, doc |-> FALSE]
Panicked     == [st |-> "panic", code |-> 0, doc |-> FALSE]

\* Fault-injection variant of WrapError: the status is not looked at.
WrapErrorIgnoringStatus(code) == OK

\* wrapError: nil for an OK status, else the Status itself as the error.
WrapError(code) == IF StatusOK(code) THEN OK ELSE Errored(code)

\* Fault-injection variant of WriteResult: a transport error is reported as
\* RetryLater.
WriteResultTransportRetry(transportErr, code) ==
    CASE transportErr -> Errored(RetryLater)
      [] StatusOK(code) -> OK
      [] code = RetryLater -> Errored(RetryLater)
      [] OTHER -> Errored(Unknown)

\* Fault-injection variant of WriteResult: the engine's status is returned
\* as it is (return wrapError(status)).
WriteResultRawStatus(transportErr, code) ==
    CASE transportErr -> Errored(Unknown)
      [] OTHER -> WrapError(code)

\* Fault-injection variant of WriteResult: an engine RetryLater is folded
\* into Unknown.
WriteResultRetryAsUnknown(transportErr, code) ==
    CASE transportErr -> Errored(Unknown)
      [] StatusOK(code) -> OK
      [] OTHER -> Errored(Unknown)

\* proximaSEClientProxy.Write after the request is built: a transport error
\* is Unknown; a non-OK status is RetryLater if the engine said so, else
\* Unknown; an OK status is success.
WriteResult(transportErr, code) ==
    CASE transportErr -> Errored(Unknown)
      [] StatusOK(code) -> OK
      [] code = RetryLater -> Errored(RetryLater)
      [] OTHER -> Errored(Unknown)

\* proximaSEClientProxy.GetDocumentByKey on a response: a non-OK status is
\* returned; an absent document is the "Null Document" error.  (A response
\* without Status panics in wrapError; CollectionCodec checks that path.)
GetDocResult(r) ==
    CASE ~StatusOK(r.status) -> WrapError(r.status)
      [] ~r.doc -> Errored(NotAStatus)
      [] OTHER -> DocResult

\* WrapStatus, applied by a caller to the error a proxy method returned: it
\* yields the Status when the error is a *Status, and fails otherwise (a
\* plain Go error, or a gRPC status error such as DeadlineExceeded).
WrapStatus(res) ==
    IF res.code \in {NotAStatus, DeadlineExceeded}
    THEN [ok |-> FALSE, code |-> NotAStatus]
    ELSE [ok |-> TRUE, code |-> res.code]

=============================================================================
