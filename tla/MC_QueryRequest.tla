--------------------------- MODULE MC_QueryRequest ---------------------------
(* Bounded instances of QueryRequest for TLC.                              *)
EXTENDS QueryRequest

\* Element bit patterns: two distinct non-zero values expose byte and row order.
MCPayload == {1, 2}

MCKinds == {"Int8", "Uint32", "Uint64", "Float32", "Int32"}

MCRow == BoundedSeq(MCPayload, 2)

FeatureValue(shape, outer, inner, kind, vec, rows) ==
    [shape |-> shape, outer |-> outer, inner |-> inner, kind |-> kind, vec |-> vec, rows |-> rows]

\* nil, plain scalars, vectors and matrices of up to 2 x 2 elements; an
\* [N][M]T matrix has rows of one length.
MCFeatures ==
    {FeatureValue("nil", "Slice", "Slice", "Int8", <<>>, <<>>)}
    \cup {FeatureValue("scalar", "Slice", "Slice", k, <<1>>, <<>>) : k \in {"Int", "Float32"}}
    \cup {FeatureValue("vector", c, "Slice", k, v, <<>>) :
            c \in Containers, k \in MCKinds, v \in MCRow}
    \cup {FeatureValue("matrix", c, "Slice", k, <<>>, r) :
            c \in Containers, k \in MCKinds, r \in BoundedSeq(MCRow, 2)}
    \cup {FeatureValue("matrix", c, "Array", k, <<>>, r) :
            c \in Containers, k \in MCKinds,
            r \in {rs \in BoundedSeq(MCRow, 2) :
                     \A i, j \in DOMAIN rs : Len(rs[i]) = Len(rs[j])}}

MCParamKeys == {"k1", "k2"}

\* Few option lists, for the feature runs.
MCFeatureOptionLists == {<<>>, <<WithTopK(10), WithDebugMode>>}

\* Every option constructor, at and beyond its bounds.
MCOptions ==
    {WithTopK(10), WithTopK(9999), WithTopK(10000), WithRadius(-1), WithRadius(15),
     WithLinearSearch, WithDebugMode, WithParam("k1", "Int", 7),
     WithParam("k1", "String", 8), WithParam("k2", "Map", 9), WithParam("k2", "Nil", 0)}

MCOptionLists == BoundedSeq(MCOptions, 3)

\* A few features, for the option runs: a vector, an unsupported vector, nil.
MCOptionFeatures ==
    {FeatureValue("vector", "Slice", "Slice", "Float32", <<1, 2>>, <<>>),
     FeatureValue("vector", "Slice", "Slice", "Int32", <<1>>, <<>>),
     FeatureValue("nil", "Slice", "Slice", "Int8", <<>>, <<>>)}

Args(features, optionLists) == [features : features, opts : optionLists]

\* The feature runs: every feature value with few option lists.
MCFeatureCalls == Args(MCFeatures, MCFeatureOptionLists)

\* Both: the feature calls, and every option list with a few features.
MCCalls == MCFeatureCalls \cup Args(MCOptionFeatures, MCOptionLists)
=============================================================================
