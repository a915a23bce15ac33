--------------------------- MODULE MC_WriteRequest ---------------------------
(* Bounded instances of WriteRequest for TLC.                              *)
EXTENDS WriteRequest

GoVector(c, k, vec) == [shape |-> "vector", outer |-> c, inner |-> "Slice",
                        kind |-> k, vec |-> vec, rows |-> <<>>]
GoMatrix(inner, k, rows) == [shape |-> "matrix", outer |-> "Slice", inner |-> inner,
                             kind |-> k, vec |-> <<>>, rows |-> rows]
GoNil == [shape |-> "nil", outer |-> "Slice", inner |-> "Slice",
          kind |-> "Int8", vec |-> <<>>, rows |-> <<>>]
GoMap == [shape |-> "other", outer |-> "Slice", inner |-> "Slice",
          kind |-> "Map", vec |-> <<>>, rows |-> <<>>]

\* Index cells: fp32 vectors of two lengths, an int8 vector, a one-row and a
\* two-row [N][2]float32 array, a [][]float32 slice of slices, and nil.
MCIndexValues ==
    {GoVector("Slice", "Float32", <<1, 2>>), GoVector("Array", "Float32", <<2>>),
     GoVector("Slice", "Int8", <<1, 2>>),
     GoMatrix("Array", "Float32", <<<<1, 2>>>>),
     GoMatrix("Array", "Float32", <<<<1, 2>>, <<2, 1>>>>),
     GoMatrix("Slice", "Float32", <<<<1, 2>>>>), GoNil}

\* Forward cells: scalars of listed and unlisted kinds, a map, and slices of
\* a fixed-size kind, of bytes and of int.
MCForwardValues ==
    {GoScalar("Int", 7), GoScalar("Int32", 7), GoScalar("Uint", 5),
     GoScalar("String", 3), GoScalar("Float64", 2), GoScalar("Int8", 1), GoMap,
     GoVector("Slice", "Uint64", <<1>>), GoVector("Slice", "Uint8", <<1, 2>>),
     GoVector("Slice", "Int", <<1>>)}

MCRows ==
    [index : BoundedSeq(MCIndexValues, 1)
             \cup {<<GoVector("Slice", "Float32", <<1, 2>>), GoVector("Slice", "Int8", <<1, 2>>)>>},
     forward : BoundedSeq(MCForwardValues, 1)]

\* Up to two rows under zero, one or two index column names.
MCRequests ==
    [names : {<<>>, <<"c1">>, <<"c1", "c2">>}, rows : BoundedSeq(MCRows, 2)]
=============================================================================
