---------------------------- MODULE QueryRequest ----------------------------
(***************************************************************************)
(* buildPBQueryRequest (sdk/go/utils.go) and the functional query options  *)
(* of sdk/go/options.go: the request proximaSEClientProxy.Query builds     *)
(* from a feature value and a list of QueryOptions before it calls the     *)
(* transport.  A client issues one Query at a time; each call is one       *)
(* atomic step, since the builder runs synchronously with no suspension.   *)
(*                                                                         *)
(* float32 radii are kept in tenths (the default 0.5 is 5).  fmt.Sprint of *)
(* a WithParam value is abstracted to the value itself.                    *)
(***************************************************************************)
EXTENDS FeatureCodec

CONSTANTS
    Calls,         \* the (features, opts ...QueryOption) arguments a client
                   \* passes to Query, as [features, opts] records
    ParamKeys      \* keys given to WithParam

VARIABLES
    call,          \* the Query in progress: its features and options
    outcome        \* what buildPBQueryRequest returned for it

vars == <<call, outcome>>

NoCall ==
    [features |-> [shape |-> "none", outer |-> "Slice", inner |-> "Slice",
                   kind |-> "Int8", vec |-> <<>>, rows |-> <<>>],
     opts |-> <<>>]

-----------------------------------------------------------------------------
(* Query options (options.go).                                             *)

\* WithTopK(topk) etc. as the option values the closures capture.
Option(name, num, key, vkind) == [name |-> name, num |-> num, key |-> key, vkind |-> vkind]
WithTopK(n)          == Option("TopK", n, "none", "none")
WithRadius(r)        == Option("Radius", r, "none", "none")
WithLinearSearch     == Option("Linear", 0, "none", "none")
WithDebugMode        == Option("Debug", 0, "none", "none")
WithParam(k, vk, v)  == Option("Param", v, k, vk)

\* defaultOptions: topk 100, radius 0.5, linear/debug off, no params.
DefaultOptions ==
    [topk |-> 100, radius |-> 5, linear |-> FALSE, debug |-> FALSE, params |-> <<>>]

Applied(o)  == [st |-> "ok", o |-> o]
Rejected(o) == [st |-> "rejected", o |-> o]
Panicked(o) == [st |-> "panic", o |-> o]

\* Fault-injection variant of ApplyOption: WithTopK admits topk <= 10000.
ApplyOptionTopKInclusive(opt, o) ==
    CASE opt.name = "TopK" ->
            IF opt.num <= 10000 THEN Applied([o EXCEPT !.topk = opt.num]) ELSE Rejected(o)
      [] opt.name = "Radius" ->
            IF opt.num >= 0 THEN Applied([o EXCEPT !.radius = opt.num]) ELSE Rejected(o)
      [] opt.name = "Linear" -> Applied([o EXCEPT !.linear = TRUE])
      [] opt.name = "Debug"  -> Applied([o EXCEPT !.debug = TRUE])
      [] opt.name = "Param" ->
            IF opt.vkind = "Nil" THEN Panicked(o)
            ELSE IF opt.vkind \in GenericAcceptableKinds
                 THEN Applied([o EXCEPT !.params = (opt.key :> opt.num) @@ o.params])
                 ELSE Rejected(o)

\* The closure of one option applied to queryOptions.  WithParam(nil)
\* panics: reflect.TypeOf(nil) is a nil Type and .Kind() dereferences it.
ApplyOption(opt, o) ==
    CASE opt.name = "TopK" ->
            IF opt.num < 10000 THEN Applied([o EXCEPT !.topk = opt.num]) ELSE Rejected(o)
      [] opt.name = "Radius" ->
            IF opt.num >= 0 THEN Applied([o EXCEPT !.radius = opt.num]) ELSE Rejected(o)
      [] opt.name = "Linear" -> Applied([o EXCEPT !.linear = TRUE])
      [] opt.name = "Debug"  -> Applied([o EXCEPT !.debug = TRUE])
      [] opt.name = "Param" ->
            IF opt.vkind = "Nil" THEN Panicked(o)
            ELSE IF opt.vkind \in GenericAcceptableKinds
                 THEN Applied([o EXCEPT !.params = (opt.key :> opt.num) @@ o.params])
                 ELSE Rejected(o)

\* Fault-injection variant of ApplyOptions: a rejected option is skipped.
ApplyOptionsSkipRejected(opts) ==
    FoldLeft(LAMBDA acc, opt :
                IF acc.st = "panic" THEN acc
                ELSE LET r == ApplyOption(opt, acc.o)
                     IN  IF r.st = "rejected" THEN acc ELSE r,
             Applied(DefaultOptions), opts)

\* The loop of buildPBQueryRequest: options in order, the first rejection
\* returns an error and no later option is applied.
ApplyOptions(opts) ==
    FoldLeft(LAMBDA acc, opt : IF acc.st = "ok" THEN ApplyOption(opt, acc.o) ELSE acc,
             Applied(DefaultOptions), opts)

-----------------------------------------------------------------------------
(* The request.                                                            *)

NoRequest ==
    [topk |-> 0, radius |-> 0, linear |-> FALSE, debug |-> FALSE, params |-> <<>>,
     features |-> <<>>, batch |-> 0, dim |-> 0, dataType |-> "DT_UNDEFINED"]

Outcome(status, req) == [status |-> status, req |-> req]
NoOutcome == Outcome("none", NoRequest)

\* buildPBQueryRequest: options, then inference, then serializeFeature.
\* nil features panic in inferMatrixFeatureType (ValueOf(nil).Type()).
BuildPBQueryRequest(f, opts) ==
    LET a == ApplyOptions(opts)
        d == InferFeatures(f)
        s == SerializeFeature(d.batch, f)
    IN  CASE a.st = "panic"     -> Outcome("panic", NoRequest)
          [] a.st = "rejected"  -> Outcome("error", NoRequest)
          [] f.shape = "nil"    -> Outcome("panic", NoRequest)
          [] ~d.ok              -> Outcome("error", NoRequest)
          [] ~s.ok              -> Outcome("error", NoRequest)
          [] OTHER ->
               Outcome("ok", [topk |-> a.o.topk, radius |-> a.o.radius,
                              linear |-> a.o.linear, debug |-> a.o.debug,
                              params |-> a.o.params, features |-> s.bytes,
                              batch |-> d.batch, dim |-> d.dim,
                              dataType |-> d.dataType])

Init ==
    /\ call = NoCall
    /\ outcome = NoOutcome

\* A client calls Query(collection, column, features, opts...).
Query(f, opts) ==
    /\ call = NoCall
    /\ call' = [features |-> f, opts |-> opts]
    /\ outcome' = BuildPBQueryRequest(f, opts)

\* The call returns its result to the client, which may query again.
Return ==
    /\ call # NoCall
    /\ call' = NoCall
    /\ outcome' = NoOutcome

Next ==
    \/ \E a \in Calls : Query(a.features, a.opts)
    \/ Return

Spec == Init /\ [][Next]_vars

-----------------------------------------------------------------------------
(* Properties.                                                             *)

Request ==
    [topk : 0..9999, radius : Int, linear : BOOLEAN, debug : BOOLEAN,
     params : [DOMAIN outcome.req.params -> Int],
     features : Seq(0..255), batch : Nat, dim : Nat,
     dataType : {"DT_UNDEFINED"} \cup {VectorDataType[k] : k \in QueryFeatureKinds}]

\* Every state is a call and a request as the builder can produce them: in
\* particular the topk a request carries is one WithTopK let through.
TypeOK ==
    /\ call \in {NoCall} \cup Calls
    /\ outcome.status \in {"none", "ok", "error", "panic"}
    /\ DOMAIN outcome.req.params \subseteq ParamKeys
    /\ outcome.req \in Request

Built == outcome.status = "ok"

\* The elements of a feature value in row-major order.
RowMajorElems(f) == IF f.shape = "matrix" THEN FlattenSeq(f.rows) ELSE f.vec

\* Byte p of the row-major little-endian image of f: byte (p-1)%w of element
\* (p-1)\div w + 1, least significant byte first.
RECURSIVE ByteOf(_, _)
ByteOf(x, j) == IF j = 0 THEN x % 256 ELSE ByteOf(x \div 256, j - 1)

RowMajorLEBytes(f) ==
    LET e == RowMajorElems(f)
        w == FixedWidth[f.kind]
    IN  [p \in 1..(Len(e) * w) |-> ByteOf(e[(p - 1) \div w + 1], (p - 1) % w)]

(***************************************************************************)
(* The feature buffer of every request serializeFeature builds, whether it *)
(* writes the rows one by one (batch > 1) or the whole value at once, is   *)
(* the row-major little-endian image of the client's feature value.        *)
(***************************************************************************)
FeaturesPackedRowMajor ==
    Built => outcome.req.features = RowMajorLEBytes(call.features)

\* The kind -> data type table of spec section 4.1.
SpecDataType(k) ==
    CASE k = "Int8" -> "DT_VECTOR_INT8"      [] k = "Uint32" -> "DT_VECTOR_BINARY32"
      [] k = "Uint64" -> "DT_VECTOR_BINARY64" [] k = "Float32" -> "DT_VECTOR_FP32"

\* Spec section 4.1, stated over the whole input: a matrix with rows is
\* accepted when its rows are all of one length or none is empty, with the
\* longest row as dimension; a non-empty vector has batch 1.
SpecAccepts(f) ==
    /\ f.kind \in QueryFeatureKinds
    /\ \/ f.shape = "vector" /\ f.vec # <<>>
       \/ /\ f.shape = "matrix" /\ f.rows # <<>>
          /\ \/ \A i, j \in DOMAIN f.rows : Len(f.rows[i]) = Len(f.rows[j])
             \/ \A i \in DOMAIN f.rows : f.rows[i] # <<>>

SpecDimension(f) ==
    IF f.shape = "vector" THEN Len(f.vec)
    ELSE CHOOSE n \in {Len(f.rows[i]) : i \in DOMAIN f.rows} :
            \A i \in DOMAIN f.rows : Len(f.rows[i]) <= n

SpecBatch(f) == IF f.shape = "vector" THEN 1 ELSE Len(f.rows)

(***************************************************************************)
(* inferFeatures classifies as spec section 4.1 says: a request is built  *)
(* only for an input the spec accepts, and it carries the spec's data      *)
(* type, dimension and batch count for it.                                 *)
(***************************************************************************)
DescriptorAsSpecified ==
    Built => /\ SpecAccepts(call.features)
             /\ outcome.req.dataType = SpecDataType(call.features.kind)
             /\ outcome.req.dim = SpecDimension(call.features)
             /\ outcome.req.batch = SpecBatch(call.features)

\* What spec section 3 says an option may carry.
OptionAcceptable(opt) ==
    CASE opt.name = "TopK"   -> opt.num < 10000
      [] opt.name = "Radius" -> opt.num >= 0
      [] opt.name = "Param"  -> opt.vkind \in GenericAcceptableKinds
      [] OTHER               -> TRUE

\* The argument of the last option named nm in opts, or dflt if none is.
LastSetting(opts, nm, dflt) ==
    LET i == SelectLastInSeq(opts, LAMBDA o : o.name = nm)
    IN  IF i = 0 THEN dflt ELSE opts[i].num

(***************************************************************************)
(* Options are honoured as a whole: a request is built only when every     *)
(* option the client passed was acceptable, and it then carries, for each  *)
(* setting, the value of the last option that set it (or the default), and *)
(* exactly the WithParam keys given, each with its last value.             *)
(***************************************************************************)
OptionsHonoured ==
    Built =>
      LET opts == call.opts
          keys == {opts[i].key : i \in {j \in DOMAIN opts : opts[j].name = "Param"}}
      IN  /\ \A i \in DOMAIN opts : OptionAcceptable(opts[i])
          /\ outcome.req.topk = LastSetting(opts, "TopK", 100)
          /\ outcome.req.radius = LastSetting(opts, "Radius", 5)
          /\ outcome.req.linear = (\E i \in DOMAIN opts : opts[i].name = "Linear")
          /\ outcome.req.debug = (\E i \in DOMAIN opts : opts[i].name = "Debug")
          /\ DOMAIN outcome.req.params = keys
          /\ \A k \in keys :
               outcome.req.params[k] =
                 opts[SelectLastInSeq(opts, LAMBDA o : o.name = "Param" /\ o.key = k)].num

(***************************************************************************)
(* Spec section 3: the encoded buffer holds batchCount x dimension         *)
(* elements of the inferred kind, which is how the engine splits it.       *)
(***************************************************************************)
EncodedLengthMatchesDescriptor ==
    Built => Len(outcome.req.features) =
               outcome.req.batch * outcome.req.dim * FixedWidth[call.features.kind]

(***************************************************************************)
(* Spec section 8: every matrix of R >= 1 rows of one length L > 0 of a    *)
(* feature kind is accepted (batch R, dimension L), here whenever the      *)
(* options are acceptable too; the Query doc lists [][]float32 among the   *)
(* accepted inputs.                                                        *)
(***************************************************************************)
ValidMatrixAccepted ==
    LET f == call.features
    IN  /\ call # NoCall
        /\ f.shape = "matrix" /\ f.kind \in QueryFeatureKinds /\ f.rows # <<>>
        /\ \A i \in DOMAIN f.rows : Len(f.rows[i]) = Len(f.rows[1]) /\ f.rows[i] # <<>>
        /\ \A i \in DOMAIN call.opts : OptionAcceptable(call.opts[i])
        => Built

=============================================================================
