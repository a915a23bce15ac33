---------------------------- MODULE GenericValue ----------------------------
(***************************************************************************)
(* The generic value codec of sdk/go/utils.go: buildPBGenericValue and     *)
(* buildGenericValueList turn the interface{} cells of a write row into    *)
(* pb.GenericValue oneofs, and buildDocumentFromPB turns the oneofs of a   *)
(* returned document back into Go values.                                  *)
(*                                                                         *)
(* Go values are the reflect abstraction of FeatureCodec.  A GenericValue  *)
(* is a record: the oneof case it holds ("none" when ValueOneof is nil),   *)
(* a scalar payload and a bytes payload.  Strings are opaque tokens.       *)
(***************************************************************************)
EXTENDS FeatureCodec

WireValue(variant, num, bytes) == [variant |-> variant, num |-> num, bytes |-> bytes]

\* A GenericValue whose ValueOneof stayed nil; buildPBGenericValue returns nil.
NoValue == WireValue("none", 0, <<>>)

\* Go values as reflect sees them: a scalar of kind k, and a []byte.
GoScalar(k, x) == [shape |-> "scalar", outer |-> "Slice", inner |-> "Slice",
                   kind |-> k, vec |-> <<x>>, rows |-> <<>>]
GoBytes(bs)    == [shape |-> "vector", outer |-> "Slice", inner |-> "Slice",
                   kind |-> "Uint8", vec |-> bs, rows |-> <<>>]

\* Fault-injection variant of ScalarVariant: int32 sent as an int64 oneof.
ScalarVariantInt32Widened ==
    ("String" :> "string") @@ ("Bool" :> "bool") @@ ("Int32" :> "int64")
    @@ ("Int64" :> "int64") @@ ("Int" :> "int64") @@ ("Uint32" :> "uint32")
    @@ ("Uint64" :> "uint64") @@ ("Uint" :> "uint64") @@ ("Float32" :> "float")
    @@ ("Float64" :> "double")

\* The scalar cases of the v.Kind() switch of buildPBGenericValue.
ScalarVariant ==
    ("String" :> "string") @@ ("Bool" :> "bool") @@ ("Int32" :> "int32")
    @@ ("Int64" :> "int64") @@ ("Int" :> "int64") @@ ("Uint32" :> "uint32")
    @@ ("Uint64" :> "uint64") @@ ("Uint" :> "uint64") @@ ("Float32" :> "float")
    @@ ("Float64" :> "double")

\* serializeSlice: one binary.Write of the whole slice or array.
SerializeSlice(v) == BinaryWrite(v)

\* buildPBGenericValue: a scalar of a listed kind keeps its payload (the
\* int32/uint32/float32 conversions are lossless on a value of that kind);
\* a slice or array is packed to bytes, and a packing error leaves the oneof
\* nil; every other kind (int8, uint8, int16, map, struct, nil) is skipped.
BuildPBGenericValue(v) ==
    CASE v.shape = "scalar" /\ v.kind \in DOMAIN ScalarVariant ->
            WireValue(ScalarVariant[v.kind], v.vec[1], <<>>)
      [] v.shape \in {"vector", "matrix"} ->
            LET s == SerializeSlice(v)
            IN  IF s.ok THEN WireValue("bytes", 0, s.bytes) ELSE NoValue
      [] OTHER -> NoValue

ListBuilt(vals) == [ok |-> TRUE, vals |-> vals]
ListFailed      == [ok |-> FALSE, vals |-> <<>>]

\* buildGenericValueList: the first value that does not serialize fails the
\* whole list ("Serialize value to pb failed"); the caller drops `out`.
BuildGenericValueList(in) ==
    LET out == [i \in DOMAIN in |-> BuildPBGenericValue(in[i])]
    IN  IF \A i \in DOMAIN out : out[i] # NoValue THEN ListBuilt(out) ELSE ListFailed

\* The Go kind buildDocumentFromPB gives each scalar oneof case.
DecodedKind ==
    ("string" :> "String") @@ ("bool" :> "Bool") @@ ("int32" :> "Int32")
    @@ ("int64" :> "Int64") @@ ("uint32" :> "Uint32") @@ ("uint64" :> "Uint64")
    @@ ("float" :> "Float32") @@ ("double" :> "Float64")

\* buildDocumentFromPB over the forward (key, value) pairs of a document:
\* bytes become a []byte, each scalar case its Go scalar; a value whose
\* oneof is nil matches no case and adds no key.  A later pair with the
\* same key overwrites an earlier one in ForwardColumns.
BuildDocumentFromPB(pairs) ==
    LET Decode(w) == IF w.variant = "bytes" THEN GoBytes(w.bytes)
                     ELSE GoScalar(DecodedKind[w.variant], w.num)
        Add(acc, p) == IF p.value.variant = "none" THEN acc
                       ELSE (p.key :> Decode(p.value)) @@ acc
    IN  FoldLeft(Add, <<>>, pairs)

=============================================================================
