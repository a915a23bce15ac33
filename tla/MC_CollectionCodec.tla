-------------------------- MODULE MC_CollectionCodec -------------------------
(* Bounded instances of CollectionCodec for TLC.                           *)
EXTENDS CollectionCodec

\* A column left to the defaults, with two extra parameters.
MCDefaulted == [name |-> "c1", indexType |-> 0, dataType |-> 0, dim |-> 4,
                extra |-> ("k1" :> "v1") @@ ("k2" :> "v2")]
\* A column with explicit types (graph index, int8 vectors).
MCExplicit  == [name |-> "c2", indexType |-> 1, dataType |-> 26, dim |-> 8, extra |-> <<>>]

MCRepo(type) == [present |-> TRUE, type |-> type, name |-> "r1"]

\* Two configs for "n1" (defaulted, no repository; explicit, database
\* repository r1), one for "n2" with both columns and a database
\* repository, and one for "n2" with an unknown repository type.
MCConfigs ==
    { [name |-> "n1", columns |-> <<MCDefaulted>>, repo |-> NilRepo],
      [name |-> "n1", columns |-> <<MCExplicit>>, repo |-> MCRepo(Database)],
      [name |-> "n2", columns |-> <<MCDefaulted, MCExplicit>>, repo |-> MCRepo(Database)],
      [name |-> "n2", columns |-> <<MCExplicit>>, repo |-> MCRepo(1)] }

MCRepoNames == {"r1", "r2"}

MCEngineCodes == {-1}
=============================================================================
