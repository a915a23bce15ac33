--------------------------- MODULE CollectionCodec --------------------------
(***************************************************************************)
(* The collection half of proximaSEClientProxy (sdk/go/client_proxy.go):   *)
(* CreateCollection encodes a CollectionConfig with buildPBCollectionConfig*)
(* (utils.go); DescribeCollection and ListCollections decode the engine's  *)
(* pb.CollectionInfo with buildCollectionInfoFromPB and                    *)
(* buildRepositoryConfigFromPB; StatCollection decodes pb.CollectionStats  *)
(* with buildCollectionStatFromPB.  Each method, with the engine's answer, *)
(* is one step; the transport is checked in ClientProxy.                   *)
(*                                                                         *)
(* The engine is the environment.  It keeps the pb configs it accepted,    *)
(* keyed by collection name, and echoes them; a message field the wire     *)
(* schema leaves optional may be missing from its answer when the field is *)
(* in Omittable.  Names, column names and extra parameters are tokens; the *)
(* fields copied verbatim (max docs per segment, forward columns, the      *)
(* database connection, table, user and password, uuid, magic number, LSN  *)
(* context, segment statistics) are left out.                              *)
(***************************************************************************)
EXTENDS ProxyStatus, SequencesExt

CONSTANTS
    Configs,       \* the CollectionConfigs a program passes to CreateCollection
    RepoNames,     \* repository names a ListCollections filter may name
    EngineCodes,   \* non-zero status codes the engine answers with
    Omittable,     \* subset of {"status", "config", "entity", "stats"}: the
                   \* optional messages the engine may leave unset
    MaxCalls       \* proxy calls made

ASSUME 0 \notin EngineCodes /\ Omittable \subseteq {"status", "config", "entity", "stats"}

VARIABLES
    store,         \* the engine's collections: name -> pb CollectionConfig
    created,       \* name -> the CollectionConfig whose creation succeeded
    last,          \* what the last proxy call returned
    calls          \* number of proxy calls made

vars == <<store, created, last, calls>>

\* IndexType, DataType and RepositoryType values of const.go.
IndexTypeUndefined == 0
ProximaGraphIndex  == 1
DataTypeUndefined  == 0
VectorFP32         == 23
Database           == 0

NilRepo == [present |-> FALSE, type |-> Database, name |-> "none"]

Answer(kind, name, st, code, infos) ==
    [op |-> kind, name |-> name, st |-> st, code |-> code, infos |-> infos]
NoAnswer == Answer("none", "none", "none", 0, <<>>)

\* Fault-injection variant of ApplyDefaultValue: dataTypeApplier missing
\* from columnDefaultValueAppliers.
ApplyDefaultValueIndexOnly(col) ==
    [col EXCEPT !.indexType = IF @ = IndexTypeUndefined THEN ProximaGraphIndex ELSE @]

\* applyDefaultValue: indexTypeApplier, then dataTypeApplier.
ApplyDefaultValue(col) ==
    [col EXCEPT !.indexType = IF @ = IndexTypeUndefined THEN ProximaGraphIndex ELSE @,
                !.dataType  = IF @ = DataTypeUndefined THEN VectorFP32 ELSE @]

\* The orders a range over each column's ExtraParams map may visit its keys.
ExtraOrders(cfg) ==
    {o \in [DOMAIN cfg.columns -> UNION {SetToSeqs(DOMAIN c.extra) : c \in Range(cfg.columns)}] :
        \A i \in DOMAIN cfg.columns : o[i] \in SetToSeqs(DOMAIN cfg.columns[i].extra)}

\* buildPBCollectionConfig: each column copied, its ExtraParams map appended
\* as key/value pairs in iteration order, then defaulted; a repository of
\* any type but Database fails the call ("Unknown respository type").
BuildPBCollectionConfig(cfg, order) ==
    LET column(i) ==
            LET cc == cfg.columns[i]
            IN  ApplyDefaultValue(
                  [name |-> cc.name, indexType |-> cc.indexType, dataType |-> cc.dataType,
                   dim |-> cc.dim,
                   extra |-> [j \in DOMAIN order[i] |->
                                [key |-> order[i][j], value |-> cc.extra[order[i][j]]]]])
        repo == IF cfg.repo.present
                THEN [present |-> TRUE, type |-> Database, name |-> cfg.repo.name, entity |-> TRUE]
                ELSE [present |-> FALSE, type |-> Database, name |-> "none", entity |-> FALSE]
    IN  IF cfg.repo.present /\ cfg.repo.type # Database
        THEN [ok |-> FALSE]
        ELSE [ok |-> TRUE,
              pb |-> [name |-> cfg.name, columns |-> [i \in DOMAIN cfg.columns |-> column(i)],
                      repo |-> repo]]

Decoded(val) == [st |-> "ok", val |-> val]
Panic        == [st |-> "panic"]

\* buildRepositoryConfigFromPB: nil stays nil; in.GetDatabase() is read
\* before the type check and is nil when the Database entity is unset; a
\* non-Database type is logged and dropped.
BuildRepositoryConfigFromPB(r) ==
    CASE ~r.present    -> Decoded(NilRepo)
      [] ~r.entity     -> Panic
      [] r.type # Database -> Decoded(NilRepo)
      [] OTHER         -> Decoded([present |-> TRUE, type |-> r.type, name |-> r.name])

\* buildCollectionInfoFromPB: collection.Config is dereferenced first; each
\* index column param is copied, its extra params folded into a map (a
\* later key wins); then the repository.
BuildCollectionInfoFromPB(ci) ==
    LET Put(m, kv) == (kv.key :> kv.value) @@ m
        column(p)  == [name |-> p.name, indexType |-> p.indexType, dataType |-> p.dataType,
                       dim |-> p.dim, extra |-> FoldLeft(Put, <<>>, p.extra)]
        repo == BuildRepositoryConfigFromPB(ci.config.repo)
    IN  CASE ~ci.hasConfig      -> Panic
          [] repo.st = "panic"  -> Panic
          [] OTHER ->
                Decoded([name |-> ci.config.name,
                         columns |-> [i \in DOMAIN ci.config.columns |-> column(ci.config.columns[i])],
                         repo |-> repo.val])

\* buildCollectionStatFromPB dereferences its input.
BuildCollectionStatFromPB(stats) == IF stats.present THEN Decoded(stats) ELSE Panic

\* What the engine sends back for a stored config: the CollectionInfo's
\* Config and the repository's Database entity may be missing.
EngineViews(pb) ==
    {[hasConfig |-> hc, config |-> [pb EXCEPT !.repo.entity = @ /\ ent]] :
        hc  \in IF "config" \in Omittable THEN BOOLEAN ELSE {TRUE},
        ent \in IF "entity" \in Omittable THEN BOOLEAN ELSE {TRUE}}

\* The ListCondition the filters leave: each sets RepositoryName in turn.
ListCondition(filters) == IF filters = <<>> THEN "" ELSE Last(filters)

\* The result of a method that decoded engine messages: the first panic
\* panics, else every decoded value is returned.
Decode(kind, name, ds) ==
    IF \E i \in DOMAIN ds : ds[i].st = "panic"
    THEN Answer(kind, name, "panic", 0, <<>>)
    ELSE Answer(kind, name, "ok", 0, [i \in DOMAIN ds |-> ds[i].val])

Failed(kind, name, code) == Answer(kind, name, "error", code, <<>>)

\* Whether a Describe, List or Stat response carries its Status message.
StatusSent == IF "status" \in Omittable THEN BOOLEAN ELSE {TRUE}

\* wrapError(resp.Status) reads in.Code before anything is decoded; a
\* response without Status panics there.
WithStatus(sent, answer) ==
    IF sent THEN answer ELSE Answer(answer.op, answer.name, "panic", 0, <<>>)

\* A method that returns wrapError(status).
Wrapped(kind, name, code) ==
    LET r == WrapError(code)
    IN  IF r.st = "ok" THEN Answer(kind, name, "ok", 0, <<>>) ELSE Failed(kind, name, r.code)

Init ==
    /\ store = <<>>
    /\ created = <<>>
    /\ last = NoAnswer
    /\ calls = 0

Step == calls < MaxCalls /\ calls' = calls + 1

\* CreateCollection: a config that does not encode fails before the call;
\* else the engine creates a new collection, or answers with an error.
CreateCollection(cfg, order) ==
    LET b == BuildPBCollectionConfig(cfg, order)
    IN  /\ Step
        /\ IF ~b.ok
           THEN /\ last' = Failed("create", cfg.name, NotAStatus)
                /\ UNCHANGED <<store, created>>
           ELSE \E code \in {Success} \cup EngineCodes :
                   /\ code = Success => cfg.name \notin DOMAIN store
                   /\ last' = Wrapped("create", cfg.name, code)
                   /\ IF code = Success
                      THEN /\ store' = (cfg.name :> b.pb) @@ store
                           /\ created' = (cfg.name :> cfg) @@ created
                      ELSE UNCHANGED <<store, created>>

\* DropCollection: wrapError of the engine's status.
DropCollection(name) ==
    /\ Step
    /\ \E code \in {Success} \cup EngineCodes :
          /\ code = Success => name \in DOMAIN store
          /\ last' = Wrapped("drop", name, code)
          /\ IF code = Success
             THEN /\ store' = Restrict(store, DOMAIN store \ {name})
                  /\ created' = Restrict(created, DOMAIN created \ {name})
             ELSE UNCHANGED <<store, created>>

\* DescribeCollection: a non-OK status is returned; else the collection
\* is decoded.
DescribeCollection(name) ==
    /\ Step
    /\ \/ /\ name \in DOMAIN store
          /\ \E ci \in EngineViews(store[name]), sent \in StatusSent :
                last' = WithStatus(sent, Decode("describe", name, <<BuildCollectionInfoFromPB(ci)>>))
       \/ \E code \in EngineCodes : last' = Failed("describe", name, code)
    /\ UNCHANGED <<store, created>>

\* ListCollections: the filters fill one ListCondition; the engine lists the
\* collections of that repository (all when it is empty), in any order; the
\* first one that fails to decode fails the call.
ListCollections(filters) ==
    LET cond == ListCondition(filters)
        match == {n \in DOMAIN store :
                    cond = "" \/ (store[n].repo.present /\ store[n].repo.name = cond)}
    IN  /\ Step
        /\ \/ \E names \in SetToSeqs(match) :
                \E cis \in [DOMAIN names -> UNION {EngineViews(store[n]) : n \in match}],
                  sent \in StatusSent :
                   /\ \A i \in DOMAIN names : cis[i] \in EngineViews(store[names[i]])
                   /\ last' = WithStatus(sent, Decode("list", cond,
                                     [i \in DOMAIN cis |-> BuildCollectionInfoFromPB(cis[i])]))
           \/ \E code \in EngineCodes : last' = Failed("list", cond, code)
        /\ UNCHANGED <<store, created>>

\* StatCollection: a non-OK status is returned; else the stats are decoded.
StatCollection(name) ==
    /\ Step
    /\ \/ /\ name \in DOMAIN store
          /\ \E present \in IF "stats" \in Omittable THEN BOOLEAN ELSE {TRUE},
                sent \in StatusSent :
                last' = WithStatus(sent,
                          Decode("stat", name, <<BuildCollectionStatFromPB([present |-> present])>>))
       \/ \E code \in EngineCodes : last' = Failed("stat", name, code)
    /\ UNCHANGED <<store, created>>

Names == {cfg.name : cfg \in Configs}

\* The program has made its calls.
Done == calls = MaxCalls /\ UNCHANGED vars

Next ==
    \/ \E cfg \in Configs : \E order \in ExtraOrders(cfg) : CreateCollection(cfg, order)
    \/ \E name \in Names : DropCollection(name) \/ DescribeCollection(name) \/ StatCollection(name)
    \/ \E filters \in BoundedSeq(RepoNames, 2) : ListCollections(filters)
    \/ Done

Spec == Init /\ [][Next]_vars

-----------------------------------------------------------------------------
(* Properties.                                                             *)

(***************************************************************************)
(* Every state is one the proxy can be in, and a CreateCollection that     *)
(* returns nil left the collection on the engine: the status is checked.   *)
(***************************************************************************)
TypeOK ==
    /\ calls \in 0..MaxCalls
    /\ DOMAIN created = DOMAIN store /\ DOMAIN store \subseteq Names
    /\ last.st \in {"none", "ok", "error", "panic"}
    /\ last.st = "error" => last.code \in {NotAStatus} \cup EngineCodes
    /\ last.op = "create" /\ last.st = "ok" => last.name \in DOMAIN store

\* A CollectionConfig as spec section 4.4 says the engine should hold it:
\* an undefined index type is the graph index, an undefined data type the
\* 32-bit float vector.
WithDefaults(cfg) ==
    [cfg EXCEPT !.columns =
        [i \in DOMAIN @ |->
           [@[i] EXCEPT !.indexType = IF @ = IndexTypeUndefined THEN ProximaGraphIndex ELSE @,
                        !.dataType  = IF @ = DataTypeUndefined THEN VectorFP32 ELSE @]]]

(***************************************************************************)
(* Every CollectionInfo DescribeCollection or ListCollections returns is   *)
(* the config that CreateCollection created under its name, with the       *)
(* section 4.4 defaults filled in: columns, types, dimensions, every extra *)
(* parameter and the repository survive encoding, the engine and decoding, *)
(* and a config with an unsupported repository never reaches the engine.  *)
(***************************************************************************)
DescribedAsCreated ==
    last.st = "ok" /\ last.op \in {"describe", "list"} =>
        \A i \in DOMAIN last.infos :
            /\ last.infos[i].name \in DOMAIN created
            /\ last.infos[i] = WithDefaults(created[last.infos[i].name])

(***************************************************************************)
(* No collection method panics on an answer the wire schema allows: an     *)
(* unset response Status, CollectionInfo.config, repository Database       *)
(* entity or CollectionStats is an error or an empty field, not a nil      *)
(* dereference.                                                            *)
(***************************************************************************)
NoPanic == last.st # "panic"

=============================================================================
