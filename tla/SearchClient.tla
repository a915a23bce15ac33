---------------------------- MODULE SearchClient ----------------------------
(***************************************************************************)
(* What the ProximaSearchClient interface (sdk/go/interfaces.go) promises *)
(* its callers for Write and GetDocumentByKey, stated without transport:   *)
(* each client makes one call at a time; a write that was sent is in       *)
(* flight until the engine applies it or drops it; a call returns          *)
(*   - success only for a write the engine applied,                        *)
(*   - RetryLater only for a write that never takes effect (spec 7: the    *)
(*     caller may retry it),                                               *)
(*   - a document only for a key the engine holds,                         *)
(*   - any other error when the effect is unknown; with StrictErrors, an   *)
(*     error instead means the write never takes effect,                   *)
(* and a call never panics.                                                *)
(***************************************************************************)
EXTENDS ProxyStatus

CONSTANTS
    Clients,       \* goroutines sharing one client
    Keys,          \* primary keys
    MaxCalls,      \* calls each client makes
    Codes,         \* the error codes a call may return
    StrictErrors   \* TRUE: an error result means the call had no effect

VARIABLES
    pc,            \* [Clients -> {"idle", "waiting", "returned"}]
    op,            \* [Clients -> the current call]
    result,        \* [Clients -> what the current call returned]
    calls,         \* [Clients -> number of calls made]
    inflight,      \* writes sent that may still take effect: [id, key]
    applied,       \* ids of writes the engine applied
    docs           \* keys the engine holds a document for

vars == <<pc, op, result, calls, inflight, applied, docs>>

Kinds == {"Write", "GetDoc"}

NoOp == [kind |-> "none", key |-> "none", valid |-> FALSE, id |-> <<>>]

Init ==
    /\ pc = [c \in Clients |-> "idle"]
    /\ op = [c \in Clients |-> NoOp]
    /\ result = [c \in Clients |-> NoResult]
    /\ calls = [c \in Clients |-> 0]
    /\ inflight = {}
    /\ applied = {}
    /\ docs = {}

\* A call whose request is built is sent; one that is not fails at once.
Invoke(c, kind, key, valid) ==
    LET id == <<c, calls[c] + 1>>
    IN  /\ pc[c] = "idle"
        /\ calls[c] < MaxCalls
        /\ calls' = [calls EXCEPT ![c] = @ + 1]
        /\ op' = [op EXCEPT ![c] = [kind |-> kind, key |-> key, valid |-> valid, id |-> id]]
        /\ IF valid
           THEN /\ pc' = [pc EXCEPT ![c] = "waiting"]
                /\ inflight' = IF kind = "Write" THEN inflight \cup {[id |-> id, key |-> key]}
                                ELSE inflight
                /\ UNCHANGED result
           ELSE /\ pc' = [pc EXCEPT ![c] = "returned"]
                /\ \E code \in Codes : result' = [result EXCEPT ![c] = Errored(code)]
                /\ UNCHANGED inflight
        /\ UNCHANGED <<applied, docs>>

\* The engine applies a write in flight, at most once.
Apply(w) ==
    /\ w \in inflight
    /\ inflight' = inflight \ {w}
    /\ applied' = applied \cup {w.id}
    /\ docs' = docs \cup {w.key}
    /\ UNCHANGED <<pc, op, result, calls>>

\* A write in flight is rejected by the engine or lost on the way.
Drop(w) ==
    /\ w \in inflight
    /\ inflight' = inflight \ {w}
    /\ UNCHANGED <<pc, op, result, calls, applied, docs>>

\* A write that has not taken effect and never will.
Settled(id) == id \notin applied /\ \A w \in inflight : w.id # id

Allowed(o, r) ==
    /\ r.st # "panic"
    /\ o.kind = "Write" =>
          /\ r.st = "ok" => o.id \in applied
          /\ r = Errored(RetryLater) => Settled(o.id)
          /\ r.st = "error" /\ StrictErrors => Settled(o.id)
    /\ o.kind = "GetDoc" => (r.doc => o.key \in docs)

Respond(c, r) ==
    /\ pc[c] = "waiting"
    /\ Allowed(op[c], r)
    /\ pc' = [pc EXCEPT ![c] = "returned"]
    /\ result' = [result EXCEPT ![c] = r]
    /\ UNCHANGED <<op, calls, inflight, applied, docs>>

Return(c) ==
    /\ pc[c] = "returned"
    /\ pc' = [pc EXCEPT ![c] = "idle"]
    /\ result' = [result EXCEPT ![c] = NoResult]
    /\ UNCHANGED <<op, calls, inflight, applied, docs>>

Next ==
    \/ \E c \in Clients, kind \in Kinds, key \in Keys, valid \in BOOLEAN :
          Invoke(c, kind, key, valid)
    \/ \E w \in inflight : Apply(w) \/ Drop(w)
    \/ \E c \in Clients, r \in {OK, DocResult} \cup {Errored(x) : x \in Codes} : Respond(c, r)
    \/ \E c \in Clients : Return(c)

Spec == Init /\ [][Next]_vars

=============================================================================
