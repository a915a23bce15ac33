---------------------------- MODULE WriteRequest ----------------------------
(***************************************************************************)
(* buildPBWriteRequest (sdk/go/utils.go): the request                      *)
(* proximaSEClientProxy.Write builds from a WriteRequest before it calls   *)
(* the transport.  Every cell of every row goes through the generic value  *)
(* codec; the index column metas are then inferred from the index values   *)
(* of row 0 alone.  A client issues one Write at a time, and each call is  *)
(* one atomic step.                                                        *)
(*                                                                         *)
(* A WriteRequest is abstracted to its index column names and its rows'    *)
(* index and forward cells.  Collection name, forward column names,        *)
(* primary key, operation type, LSN context, request id and magic number   *)
(* are copied into the message verbatim and are left out.                  *)
(***************************************************************************)
EXTENDS GenericValue

CONSTANTS
    Requests       \* the WriteRequests a client passes to Write

VARIABLES
    call,          \* the WriteRequest in progress
    outcome        \* what buildPBWriteRequest returned for it

vars == <<call, outcome>>

NoCall == [names |-> <<>>, rows |-> <<>>, none |-> TRUE]

NoRequest == [metas |-> <<>>, rows |-> <<>>]

Outcome(status, req) == [status |-> status, req |-> req]
NoOutcome == Outcome("none", NoRequest)

\* IndexColumnMeta{ColumnName, DataType, Dimension}.
IndexColumnMeta(name, d) == [name |-> name, dataType |-> d.dataType, dim |-> d.dim]

\* buildPBWriteRequest: each row's index list, then its forward list, in row
\* order, and any failing list fails the call; then "No attached rows";
\* then for each index column name i, row 0 must hold an i-th index value
\* ("Mismatched values") whose features infer ("Can't infer the data type").
\* Every error makes the same status, so only whether one occurs matters.
BuildPBWriteRequest(r) ==
    LET enc  == [i \in DOMAIN r.rows |->
                   [index   |-> BuildGenericValueList(r.rows[i].index),
                    forward |-> BuildGenericValueList(r.rows[i].forward)]]
        row0 == r.rows[1]
        meta(i) == InferFeatures(row0.index[i])
    IN  CASE \E i \in DOMAIN enc : ~enc[i].index.ok \/ ~enc[i].forward.ok ->
                Outcome("error", NoRequest)
          [] r.rows = <<>> -> Outcome("error", NoRequest)
          [] \E i \in DOMAIN r.names : Len(row0.index) <= i - 1 \/ ~meta(i).ok ->
                Outcome("error", NoRequest)
          [] OTHER ->
                Outcome("ok",
                  [metas |-> [i \in DOMAIN r.names |-> IndexColumnMeta(r.names[i], meta(i))],
                   rows  |-> [i \in DOMAIN enc |->
                                [index |-> enc[i].index.vals,
                                 forward |-> enc[i].forward.vals]]])

Init ==
    /\ call = NoCall
    /\ outcome = NoOutcome

\* A client calls Write(request).
Write(r) ==
    /\ call = NoCall
    /\ call' = r
    /\ outcome' = BuildPBWriteRequest(r)

\* The call returns its result to the client, which may write again.
Return ==
    /\ call # NoCall
    /\ call' = NoCall
    /\ outcome' = NoOutcome

Next ==
    \/ \E r \in Requests : Write(r)
    \/ Return

Spec == Init /\ [][Next]_vars

-----------------------------------------------------------------------------
(* Properties.                                                             *)

Built == outcome.status = "ok"

\* The (row, column) positions of the index or forward cells of the call.
Cells(part) == UNION {{<<i, j>> : j \in DOMAIN call.rows[i][part]} : i \in DOMAIN call.rows}

\* Byte p of the row-major little-endian image of an element sequence.
RECURSIVE ByteOf(_, _)
ByteOf(x, j) == IF j = 0 THEN x % 256 ELSE ByteOf(x \div 256, j - 1)

RowMajorLEBytes(v) ==
    LET e == IF v.shape = "matrix" THEN FlattenSeq(v.rows) ELSE v.vec
        w == FixedWidth[v.kind]
    IN  [p \in 1..(Len(e) * w) |-> ByteOf(e[(p - 1) \div w + 1], (p - 1) % w)]

Absent == [shape |-> "absent", outer |-> "Slice", inner |-> "Slice",
           kind |-> "Int8", vec |-> <<>>, rows |-> <<>>]

\* What a client reads back for a value it wrote: a scalar of a listed kind
\* comes back unchanged (spec section 8), int and uint as int64 and uint64
\* (section 4.3), and whatever binary.Write packs (a fixed-size vector, or
\* an [N][M]T array) as its row-major little-endian bytes.
RoundTrip(v) ==
    CASE v.shape = "scalar" /\ v.kind \in {"String", "Bool", "Int32", "Int64", "Uint32",
                                            "Uint64", "Float32", "Float64"} -> v
      [] v.shape = "scalar" /\ v.kind = "Int"  -> GoScalar("Int64", v.vec[1])
      [] v.shape = "scalar" /\ v.kind = "Uint" -> GoScalar("Uint64", v.vec[1])
      [] /\ v.shape = "vector" \/ (v.shape = "matrix" /\ v.inner = "Array")
         /\ v.kind \in DOMAIN FixedWidth -> GoBytes(RowMajorLEBytes(v))
      [] OTHER -> Absent

\* A single GenericValue as buildDocumentFromPB decodes it.
DecodeCell(w) ==
    LET d == BuildDocumentFromPB(<<[key |-> "c", value |-> w]>>)
    IN  IF "c" \in DOMAIN d THEN d["c"] ELSE Absent

(***************************************************************************)
(* Every cell of a built write request, decoded the way buildDocumentFromPB*)
(* decodes a returned forward column, is what the client wrote: scalars    *)
(* keep their kind and value and sequences become their byte image.  A     *)
(* request is built only when every cell of every row has such an image.   *)
(***************************************************************************)
CellsRoundTrip ==
    Built =>
      \A part \in {"index", "forward"} : \A c \in Cells(part) :
         LET v == call.rows[c[1]][part][c[2]]
         IN  /\ RoundTrip(v) # Absent
             /\ DecodeCell(outcome.req.rows[c[1]][part][c[2]]) = RoundTrip(v)

\* The cells spec section 4.3 says a GenericValue carries: the listed
\* scalar kinds, and a sequence of any kind; a nested sequence of sequences,
\* like a map, a struct or nil, is "no value" and fails the write.
SpecEncodable(v) ==
    \/ v.shape = "scalar" /\ v.kind \in DOMAIN ScalarVariant
    \/ v.shape = "vector"

(***************************************************************************)
(* A write whose rows are non-empty and whose row 0 has an inferable index *)
(* value for each index column is built exactly when every one of its     *)
(* cells is one spec section 4.3 says the generic value codec encodes.     *)
(***************************************************************************)
GenericCodecAsSpecified ==
    LET r == call
    IN  (/\ r # NoCall
         /\ r.rows # <<>>
         /\ \A i \in DOMAIN r.names :
               i <= Len(r.rows[1].index) /\ InferFeatures(r.rows[1].index[i]).ok)
        => (Built <=> \A part \in {"index", "forward"} : \A c \in Cells(part) :
                         SpecEncodable(r.rows[c[1]][part][c[2]]))

=============================================================================
