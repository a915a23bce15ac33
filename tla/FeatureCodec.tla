---------------------------- MODULE FeatureCodec ----------------------------
(***************************************************************************)
(* The pure conversion layer of sdk/go/utils.go that turns a client        *)
(* feature value into the wire descriptor {dataType, dimension, batch} and *)
(* the little-endian feature buffer: the two kind tables, the type         *)
(* classifier, the matrix dimension inference and the binary packer.       *)
(*                                                                         *)
(* A Go value handed to the SDK as interface{} is abstracted to the        *)
(* reflect facts the code inspects:                                        *)
(*   shape  "nil" | "scalar" | "vector" | "matrix"                         *)
(*   outer  container kind of a vector or matrix ("Slice" | "Array")       *)
(*   inner  container kind of the rows of a matrix                         *)
(*   kind   reflect.Kind of the scalar elements                            *)
(*   vec    the elements of a scalar (one) or of a vector                  *)
(*   rows   the rows of a matrix                                           *)
(* Elements are their bit patterns, small naturals.  A Go array type fixes *)
(* its length, so the rows of an [N][M]T matrix all have length M.         *)
(***************************************************************************)
EXTENDS Integers, Sequences, SequencesExt

Containers == {"Slice", "Array"}

ScalarKinds == {"Bool", "Int", "Int8", "Int32", "Int64", "Uint", "Uint8", "Uint32",
                "Uint64", "Float32", "Float64", "String"}

\* genericAcceptableTypes: the kinds WithParam accepts (createAcceptableTypes).
GenericAcceptableKinds ==
    {"Slice", "String", "Bool", "Int", "Int32", "Int64", "Uint", "Uint32",
     "Uint64", "Float32", "Float64"}

\* queryFeatureTypes: the element kinds of a feature (createAcceptableFeatureTypes).
QueryFeatureKinds == {"Int8", "Uint32", "Uint64", "Float32"}

\* math.MaxInt32 and math.MinInt32, the seeds of inferMatrixDimension's min and max.
MaxInt32 == 2147483647
MinInt32 == -2147483647 - 1

(***************************************************************************)
(* encoding/binary: binary.Write packs a value only when it has a fixed    *)
(* size: a fixed-size scalar, or a slice/array of them, or an array of     *)
(* arrays.  int, uint and string have no fixed size, nor has a slice of    *)
(* slices or an array of slices; for those Write returns an error.         *)
(***************************************************************************)
FixedWidth == ("Bool" :> 1) @@ ("Int8" :> 1) @@ ("Uint8" :> 1) @@ ("Int32" :> 4) @@
              ("Int64" :> 8) @@ ("Uint32" :> 4) @@ ("Uint64" :> 8) @@
              ("Float32" :> 4) @@ ("Float64" :> 8)

IsFixedSize(k) == k \in DOMAIN FixedWidth

RECURSIVE LittleEndianBytes(_, _)
LittleEndianBytes(x, w) ==
    IF w = 0 THEN <<>> ELSE <<x % 256>> \o LittleEndianBytes(x \div 256, w - 1)

\* Fault-injection variant of LE: most significant byte first.
BE(x, w) == Reverse(LittleEndianBytes(x, w))

\* binary.LittleEndian encoding of one w-byte element with bit pattern x.
LE(x, w) == LittleEndianBytes(x, w)

\* The bytes binary.Write produces for a sequence of fixed-size elements.
PackElems(k, s) == FlattenSeq([i \in DOMAIN s |-> LE(s[i], FixedWidth[k])])

Packed(bytes) == [ok |-> TRUE, bytes |-> bytes]
PackFailed    == [ok |-> FALSE, bytes |-> <<>>]

\* binary.Write(buf, LittleEndian, row) for one []T or [N]T.
BinaryWriteRow(k, row) ==
    IF IsFixedSize(k) THEN Packed(PackElems(k, row)) ELSE PackFailed

\* binary.Write(buf, LittleEndian, v) for a whole value: a matrix packs only
\* when its rows are arrays ([N][M]T), never as a [][]T or [N][]T.
BinaryWrite(f) ==
    CASE f.shape \in {"scalar", "vector"} -> BinaryWriteRow(f.kind, f.vec)
      [] f.shape = "matrix" ->
            IF f.inner = "Array" /\ IsFixedSize(f.kind)
            THEN Packed(FlattenSeq([i \in DOMAIN f.rows |->
                                      PackElems(f.kind, f.rows[i])]))
            ELSE PackFailed
      [] OTHER -> PackFailed

-----------------------------------------------------------------------------
(***************************************************************************)
(* Type classifier (inferVectorFeatureType / inferMatrixFeatureType).      *)
(* Both look at the first element only: Go's static typing makes every     *)
(* element of a slice or array share its type.                             *)
(***************************************************************************)

\* reflect kind of ft.Index(0): a row container for a matrix.
ElemKind(f) == IF f.shape = "matrix" THEN f.inner ELSE f.kind

OuterLen(f) == IF f.shape = "matrix" THEN Len(f.rows) ELSE Len(f.vec)

\* isSliceOrArray(ft.Type()) && ft.Len() > 0 && acceptableFeatureTypes(ft.Index(0).Type())
InferVectorFeatureType(f) ==
    /\ f.shape \in {"vector", "matrix"}
    /\ OuterLen(f) > 0
    /\ ElemKind(f) \in QueryFeatureKinds

\* outer and first row are non-empty sequences of an accepted feature kind
InferMatrixFeatureType(f) ==
    /\ f.shape = "matrix"
    /\ Len(f.rows) > 0
    /\ Len(f.rows[1]) > 0
    /\ f.kind \in QueryFeatureKinds

\* Fault-injection variant of DimensionAccepted: tests the longest row.
DimensionAcceptedOnMax(lo, hi) == lo = hi \/ hi > 0

\* `min == max || min > 0` of inferMatrixDimension.
DimensionAccepted(lo, hi) == lo = hi \/ lo > 0

\* inferMatrixDimension: min/max row length seeded with MaxInt32/MinInt32.
InferMatrixDimension(rows) ==
    LET lens == [i \in DOMAIN rows |-> Len(rows[i])]
        lo   == FoldLeft(LAMBDA a, c : IF c < a THEN c ELSE a, MaxInt32, lens)
        hi   == FoldLeft(LAMBDA a, c : IF c > a THEN c ELSE a, MinInt32, lens)
    IN  IF DimensionAccepted(lo, hi)
        THEN [ok |-> TRUE, batch |-> Len(rows), dim |-> hi]
        ELSE [ok |-> FALSE, batch |-> 0, dim |-> 0]

\* The kind -> wire data type switch of inferFeatures.
VectorDataType == ("Int8" :> "DT_VECTOR_INT8") @@ ("Uint32" :> "DT_VECTOR_BINARY32")
               @@ ("Uint64" :> "DT_VECTOR_BINARY64") @@ ("Float32" :> "DT_VECTOR_FP32")

Descriptor(dt, dim, batch) == [ok |-> TRUE, dataType |-> dt, dim |-> dim, batch |-> batch]
NoDescriptor == [ok |-> FALSE, dataType |-> "DT_UNDEFINED", dim |-> 0, batch |-> 0]

\* inferFeatures: a matrix whose dimension check fails does not fall back
\* to the vector branch (else-if), it fails.
InferFeatures(f) ==
    IF InferMatrixFeatureType(f)
    THEN LET d == InferMatrixDimension(f.rows)
         IN  IF d.ok THEN Descriptor(VectorDataType[f.kind], d.dim, d.batch)
                     ELSE NoDescriptor
    ELSE IF InferVectorFeatureType(f)
         THEN Descriptor(VectorDataType[f.kind], Len(f.vec), 1)
         ELSE NoDescriptor

\* serializeFeature: with batch > 1 each row is written in turn, else the
\* whole features value is handed to one binary.Write.
SerializeFeature(batch, f) ==
    IF batch > 1
    THEN LET parts == [i \in 1..batch |-> BinaryWriteRow(f.kind, f.rows[i])]
         IN  IF \A i \in 1..batch : parts[i].ok
             THEN Packed(FlattenSeq([i \in 1..batch |-> parts[i].bytes]))
             ELSE PackFailed
    ELSE BinaryWrite(f)

=============================================================================
