# TLA+ models of the Proxima BE Go SDK

This directory holds TLA+ models of the Go client SDK in `src/sdk/go`. They are checked with
TLC. The SDK turns loosely typed client values into the wire messages of the Proxima BE
vector search engine, and it decodes the engine's answers. Most of the code is pure
conversion. The hard parts are:

- the runtime type inspection that classifies a feature value;
- the binary packing of features;
- the all-or-nothing request assembly;
- the mapping of transport and server errors back to the caller.

## 1. Inventory

### Components and their state

| Component | Source | State | Operations |
|---|---|---|---|
| Kind tables | `utils.go` 36-59, 73-86 | two read-only bitmaps built once: `genericAcceptableTypes` and `queryFeatureTypes` | `acceptableValueTypes`, `acceptableFeatureTypes` |
| Type classifier and dimension inference | `utils.go` 88-175 | none (pure) | `inferVectorFeatureType`, `inferMatrixFeatureType`, `inferMatrixDimension`, `inferFeatures` |
| Binary feature encoder | `utils.go` 332-341, 473-489 | a per-call `bytes.Buffer` | `serializeFeature`, `serializeSlice` (both use `encoding/binary.Write`) |
| Query options | `options.go` 55-151 | one per-call `queryOptions` record that successive closures mutate | `defaultOptions`, `WithTopK`, `WithRadius`, `WithLinearSearch`, `WithDebugMode`, `WithParam`, `ByRepo` |
| Query request assembler | `utils.go` 491-536 | none (pure) | `buildPBQueryRequest` |
| Generic value codec | `utils.go` 343-409, 538-568 | none (pure) | `buildPBGenericValue`, `buildGenericValueList`, `buildDocumentFromPB` |
| Write request assembler | `utils.go` 411-471 | none (pure) | `buildPBWriteRequest` |
| Collection config assembler and response decoders | `utils.go` 61-71, 177-330, 570-584 | none (pure) | `applyDefaultValue`, `buildPBCollectionConfig`, `buildRepositoryConfigFromPB`, `buildCollectionInfoFromPB`, `buildCollectionStatFromPB`, `buildQueryResponseFromPB` |
| Client proxy and status mapping | `client_proxy.go`, `status.go` | the transport client it wraps | `NewProximaSearchClient`, `CreateCollection`, `DropCollection`, `DescribeCollection`, `ListCollections`, `StatCollection`, `Write`, `Query`, `GetDocumentByKey`, `wrapError`, `Status.Error` |
| Transport clients | `clients.go` | a gRPC connection, or an HTTP host | one RPC per proxy method. gRPC calls use a 10 s deadline. `GetVersion` is used at construction. |
| Version compatibility | `types.go` 39-42 | none | `Version.Compatible` (a `strings.HasPrefix` test) |
| Domain types, enums, JSON `String()` | `types.go`, `const.go`, `interfaces.go` | none | formatting only |
| Demo program | `examples/demo/example.go` | one goroutine's place in `main()` | fifteen proxy calls in a fixed order, `log.Fatal` on every error except two drops |

### How the components interact

Each public call of `proximaSEClientProxy` runs one fixed sequence of steps:

1. An assembler builds the wire message. The query assembler uses the options, the classifier
   and the encoder. The write assembler uses the generic codec and the classifier.
2. The proxy calls the transport.
3. `wrapError` maps the returned status.
4. A decoder turns the response into domain objects.

There are no callbacks, and the only shared mutable state is the kind tables, which are
read-only. Every step runs synchronously on the caller's goroutine, and concurrent calls share
only the transport connection, which is thread-safe. So the assemblers and decoders are each
one atomic step in the models. What does interleave is a call and the world around it.
Several goroutines may have calls in flight on one client. Each request and reply crosses a
network that may lose it. A gRPC deadline may fire while the engine is still about to act. The
behaviours that are hard here are:

- the input shapes the classifier must handle (arrays versus slices, ragged and empty rows,
  nil);
- the byte layout of the packed features;
- the order in which options are applied and checks fail;
- what happens when the transport fails, times out before the server acts, never answers, or
  returns a response with missing fields.

### Properties that make each component correct

- **Classifier:** a request is built only for inputs that spec section 4.1 accepts. It carries
  that section's data type, dimension and batch count. Every valid matrix is accepted. Nothing
  panics.
- **Encoder:** the buffer is the row-major, little-endian image of the input. Its length is
  batch × dimension × element size.
- **Options:** any rejected option aborts the build. Otherwise, for each setting the last
  option wins.
- **Generic codec:** encoding then decoding a scalar gives back the same value. A bytes value
  stays raw bytes. A list fails as a whole on its first bad value.
- **Write assembler:** every row's index value matches the metadata sent with it. No rows
  means a failure.
- **Config assembler and decoders:** defaults are applied. An unknown repository type is
  rejected. Absent optional wire fields become absent values and never cause a panic.
- **Client proxy:**
  - `Write` reports success only for a write the engine applied;
  - it reports `RetryLater` only for a write that will never take effect;
  - a transport error is never reported as success;
  - every call returns;
  - a client is constructed only against a compatible server.

The hazards behind these properties are listed in `PROJECT.json` under "hazards", each at the
source line where it bites.

## 2. Plan

Modules, in order of importance. All of them exist now.

1. **`FeatureCodec`** (done). Pure operators: the kind tables, the classifier, the dimension
   inference, and `binary.Write` packing.
2. **`QueryRequest`** (done). Extends `FeatureCodec` with the query options and
   `buildPBQueryRequest`. The MC module is `MC_QueryRequest`.
3. **`GenericValue`** (done). `buildPBGenericValue`, `buildGenericValueList` and
   `buildDocumentFromPB`.
4. **`WriteRequest`** (done). `buildPBWriteRequest` over requests of up to 2 rows. The MC
   module is `MC_WriteRequest`.
5. **`ProxyStatus`** (done). The status vocabulary: the `ErrorCode`s, `Status.OK`,
   `IsGrpcError` and `wrapError`.
6. **`SearchClient`** (done). The abstract promise of the `ProximaSearchClient` interface for
   `Write` and `GetDocumentByKey`.
7. **`ClientProxy`** (done). `NewProximaSearchClient`, `Write` and `GetDocumentByKey` over
   either transport, with goroutines sharing the client, a lossy network and an engine as the
   environment. It is shown to implement `SearchClient`. The MC module is `MC_ClientProxy`.
8. **`CollectionCodec`** (done). The collection methods, the config assembler and the
   response decoders, against an engine that may omit optional messages. The MC module is
   `MC_CollectionCodec`.
9. **`Demo`** (done). The demo program `main()`: every proxy method, `Query`'s response path
   included, over either transport with its faults, against an engine that answers by its
   store. The MC module is `MC_Demo`.

Left for later:

- larger instances of `ClientProxy`: three goroutines, or more calls each.

## 3. Modules, runs and what they show

### FeatureCodec

A Go value passed as `interface{}` is abstracted to the facts `reflect` gives the code:

- `shape`: nil, scalar, vector or matrix;
- `outer` / `inner`: whether the value and its rows are slices or arrays;
- `kind`: the reflect kind of the elements;
- the elements themselves, as bit patterns.

A Go array type fixes its length, so the MC module only generates `[N][M]T` matrices whose
rows all have one length.

The code's definitions map as follows:

- `InferVectorFeatureType` and `InferMatrixFeatureType` are the two classifier functions.
  Each tests exactly the code's conditions.
- `InferMatrixDimension` folds min and max over the row lengths, seeded with
  `MaxInt32`/`MinInt32`, and accepts when `DimensionAccepted` holds (`min == max || min > 0`).
- `InferFeatures` keeps the code's `else if`. A matrix that fails the dimension check does not
  fall back to the vector branch.
- `BinaryWrite` / `BinaryWriteRow` model `encoding/binary.Write`. A fixed-size value is packed
  little-endian with `LE`. Any value without a fixed size is an error: `int`, `uint`, `string`,
  a slice of slices, or an array of slices.
- `SerializeFeature` is `serializeFeature`. For batch > 1 it writes row by row. Otherwise it
  makes one `binary.Write` of the whole value.

### QueryRequest

The state is `call` (the features and options of the `Query` in progress) and `outcome` (the
status and the request `buildPBQueryRequest` returned).

- `Query(f, opts)` is the whole of `buildPBQueryRequest`. It applies the options in order
  (`ApplyOptions`, where the first rejection stops), then infers, then serializes. A `nil` value
  passed to `WithParam` panics, and so do `nil` features.
- `Return` hands the result back so that the client can call again.

Radii are kept in tenths. `fmt.Sprint` of a parameter value is abstracted to the value.

| Run | Result | What it shows |
|---|---|---|
| `query` | pass | The calls (constant `Calls`) are of two groups. The first is all 930 feature values of up to 2×2 elements over `Int8`, `Uint32`, `Uint64`, `Float32` and `Int32`, as slices or arrays, plus nil and two scalars, each with two option lists. The second is all option lists of length ≤ 3 over 11 options, each with three features. The options are `TopK` 10, 9999 and 10000; `Radius` -0.1 and 1.5; linear; debug; and params of kind int, string, map and nil. Four properties are checked. `FeaturesPackedRowMajor`: every built request's buffer is the row-major little-endian image of the input, in both serializer paths. `DescriptorAsSpecified`: a request is built only for inputs spec section 4.1 accepts, with its data type, dimension and batch. `OptionsHonoured`: a request is built only if every option was acceptable; the last setting of each option then wins, and exactly the given param keys appear. `TypeOK` bounds the topk a request carries to 0..9999. |
| `query_encoded_length` | violation of `EncodedLengthMatchesDescriptor` | `[][]int8{{1},{1,1}}` is accepted with batch 2 and dimension 2, but its buffer holds 3 bytes. Spec section 3 says it holds batch × dimension × size. |
| `query_single_row_matrix` | violation of `ValidMatrixAccepted` | `[][]int8{{1}}` infers batch 1, so `serializeFeature` passes the whole `[][]int8` to `binary.Write`. That call rejects a slice of slices, so the query fails. |

Modelling also showed that `Query` with nil features panics in `inferMatrixFeatureType`
(`utils.go:121`), and that `WithParam(k, nil)` panics when applied (`utils.go:89`). A unit test
reaches both at once, so they are kept as hazards in `PROJECT.json` and take no run.

### GenericValue

- `ScalarVariant` is the scalar part of the `v.Kind()` switch of `buildPBGenericValue`. `int`
  goes to the int64 case and `uint` to the uint64 case. `int8`, `uint8`, `int16`, maps,
  structs and nil match no case.
- A slice or array goes through `SerializeSlice`, which is the `BinaryWrite` of `FeatureCodec`.
  A packing error leaves the oneof nil, modelled as `NoValue`.
- `BuildGenericValueList` fails the whole list when any value fails. The code returns at the
  first failure and drops the partly filled list, so the outcome is the same.
- `BuildDocumentFromPB` folds the (key, value) pairs of a document into the forward column map:
  - bytes become a `[]byte`;
  - each scalar case becomes its Go scalar;
  - a nil oneof adds no key;
  - a repeated key keeps the later value.

### WriteRequest

The state is `call` (the `WriteRequest` in progress) and `outcome`. `Write(r)` is the whole of
`buildPBWriteRequest`, in the code's order:

1. each row's index list, then its forward list;
2. the empty-rows check;
3. for each index column name, the "Mismatched values" check and the inference on row 0.

Fields that are copied verbatim are left out. These are the primary key, the operation type,
the LSN context, the ids and the forward column names.

| Run | Result | What it shows |
|---|---|---|
| `write_cells` | pass | The inputs are all writes of up to 2 rows. Each row has at most one forward cell and at most one index cell, or the pair (fp32 vector, int8 vector). There are 0, 1 or 2 index column names. The index cells include vectors, `[1][2]` and `[2][2]` float32 arrays, a `[][]float32` and nil. The forward cells are scalars of `int`, `int32`, `uint`, `string`, `float64` and `int8`, a map, and `[]uint64`, `[]byte` and `[]int`. `CellsRoundTrip`: every cell, decoded as `buildDocumentFromPB` decodes it, is what was written (scalars by kind and value, sequences as their row-major little-endian bytes), and a request is built only when every cell has such an image. |
| `write_generic_codec` | violation of `GenericCodecAsSpecified` | A forward `[]int` cell fails the write, because `binary.Write` cannot pack `int`. Spec section 4.3 says a sequence of any kind is packed. Conversely, an `[N][M]T` array is packed, although the spec says a nested sequence is "no value". |

Modelling also showed that the index column metas are inferred from row 0 and never checked
against any row (`utils.go:460`; spec section 4.4 flags the gap): a single row whose index
value is a `[2][2]float32` array gets the meta `DT_VECTOR_FP32`, dimension 2, and carries 16
bytes. A unit test reaches this too, so it is a hazard without a run.

**Why the bounds are enough.** The classifier looks only at the first row and the first
element, and the dimension check looks only at the minimum and maximum row length. So 2 rows of
0 to 2 elements already contain every case:

- uniform rows;
- ragged rows with no empty row;
- ragged rows with an empty row;
- an empty first row;
- no rows at all.

Each of these occurs with slices and with arrays. Two distinct non-zero element values make any
byte-order or row-order slip visible. For writes, 2 rows are enough to place a bad cell in
row 0 or in a later row, and to place a row of another shape after row 0. Widths 1, 4 and 8 cover every feature kind. The
option-list length 3 lets a rejected option sit before, between or after accepted ones and a
panicking one.

**Fairness.** None is assumed for the builders. Their properties are safety properties, and
every builder returns synchronously.

Every property of a passing run of these modules has a mutant listed in `PROJECT.json`. Each mutant is a
plausible slip in the code, and TLC finds the property violated under it:

- big-endian packing;
- testing the longest row instead of the shortest;
- admitting `topk == 10000`;
- skipping a rejected option instead of aborting;
- sending an `int32` as the int64 oneof.

### ProxyStatus

This module holds the status vocabulary that the proxy modules share:

- the client `ErrorCode`s of `const.go`: `Success`, `RetryLater` (-4009), `Unknown` and
  `Incompatible`;
- `Status.OK` and `Status.IsGrpcError`;
- `wrapError`;
- the result mappings of `Write` (`WriteResult`) and `GetDocumentByKey` (`GetDocResult`),
  shared by `ClientProxy` and `Demo`;
- a call's result as a record: `st` is "ok", "error" or "panic", with the error `code` and
  whether a document came back;
- two transport codes: a gRPC status code (`DeadlineExceeded` = 4) and `NotAStatus` for a
  plain Go error;
- `WrapStatus`, which a caller applies to a returned error: it yields the `*Status` and fails
  on any other error, a gRPC status error included.

### SearchClient (abstract)

This module states what the `ProximaSearchClient` interface (`interfaces.go`) promises for
`Write` and `GetDocumentByKey`, with no transport. Each goroutine makes one call at a time. A
sent write is `inflight` until the engine applies it (`Apply`) or it is dropped (`Drop`). A
call returns (`Respond`) only with a result that `Allowed` admits:

- no panic;
- success only for an applied write;
- `RetryLater` only for a write that is `Settled`, meaning not applied and no longer in
  flight;
- a document only for a key the engine holds.

With `StrictErrors`, every error of a `Write` must also be `Settled`. That is the reading of
"error not nil for failed" under which a caller could safely retry.

### ClientProxy

The state is:

- `conn`: the outcome of `NewProximaSearchClient`, the protocol, and the server met;
- per goroutine, `pc` (idle, waiting or returned), `op`, `result` and `calls`;
- `net` and `replies`: sets, so delivery is unordered;
- the engine's `applied` writes and `docs`;
- `answer`, a history variable kept only for `RetryLaterDistinguishable`: the status code of
  the response the current call decoded, or `<<>>` when it decoded none. `Receive` sets it and
  `Return` clears it.

The actions are as follows:

- **`NewProximaSearchClient`.** This is `newProximaSEPBClient` followed by `GetVersion` and
  `Compatible`, in one step.
  - The gRPC dial may fail. HTTP has nothing to dial.
  - A failed gRPC `GetVersion` returns `("", nil)`. A failed HTTP one returns its error.
  - `Compatible` is `IsPrefix(ClientVersion, server)`, which is `strings.HasPrefix(server,
    client)`.
  - Goroutines call only a client that was constructed.
- **`Call`.** A `Write` whose request does not build (`WriteRequest` checks which ones build)
  returns `Unknown` at once. Any other call puts a request on `net`.
- **`EngineWrite` / `EngineGetDoc`.** The engine is the environment. It applies a write with
  status 0 or rejects it with one of `EngineCodes`, and answers a lookup from `docs`.
- **`LoseRequest` / `LoseReply`.** The network loses a message.
- **`Receive`.** The waiting goroutine takes its reply. `WriteResult` is the status mapping of
  `Write`: a transport error gives `Unknown`; status 0 gives nil; `RetryLater` is kept; any
  other status becomes `Unknown`. `GetDocResult` is `wrapError`, then the "Null Document"
  check.
- **`ReceiveUndecodable`.** HTTP only: `getMessageFromIO` fails on the body.
- **`Deadline`.** gRPC only: `buildContext`'s 10 s timeout ends a waiting call, while its
  request may still reach the engine.
- **`ConnectionError`.** On either transport, a connection error ends a waiting call.

`SearchClientSpec` is `INSTANCE SearchClient WITH inflight <- InflightWrites`, checked as a
PROPERTY. `InflightWrites` is the set of write requests still on `net`. The other variables
map to themselves, and `conn`, `net` for lookups, and `replies` are hidden. The refinement
therefore requires three things:

- every detailed step is an abstract step or a stutter;
- a write leaves the abstract `inflight` set exactly when the engine takes or loses it;
- every result meets `Allowed` at the moment it is returned.

**Fairness.** `FairSpec` is used only by `proxy_http_liveness`; the `proxy` run checks safety
and the refinement under `Spec`. `FairSpec` assumes three things:

- weak fairness of `Receive` for each goroutine, because a goroutine blocked in a call takes
  the reply that has arrived;
- weak fairness of the engine handling a request that reached it, an assumption about the
  environment;
- weak fairness of `Deadline`, because `context.WithTimeout` fires.

No fairness is assumed for losses, connection errors or undecodable bodies. These are faults
that may or may not happen.

| Run | Result | What it shows |
|---|---|---|
| `proxy` | pass | This is 335k states. Two goroutines make 2 calls each on one key, over gRPC or HTTP. Engine codes are `RetryLater` and -1. `VERSION` is "0.1", and the server reports "0.1.3" or "0.2.0". `TypeOK` holds: every error of `Write` is `RetryLater` or `Unknown`. `ConnectedOnlyToCompatible`: a client exists only if the engine answered with a version that has the client's prefix. `SearchClientSpec`: the proxy implements the abstract client, whatever is lost and whenever a deadline fires. `RetryLaterDistinguishable`: when a returned call failed, `WrapStatus` of its error yields `RetryLater` exactly when the decoded response carried `RetryLater` (spec sections 6 and 7). A build, transport or decode failure never looks like `RetryLater`, and `Write`'s re-coding never loses it. |
| `proxy_http_liveness` | violation of `CallsReturn` | Over HTTP, a lost request leaves the goroutine waiting forever. `http.DefaultClient` has no timeout (`clients.go:264`). |
| `proxy_strict_errors` | violation of `StrictSearchClientSpec` | A `Write`'s deadline fires while its request is still on the network. `Write` returns `Unknown`, and the engine then applies the write. A caller that retries on error writes twice. |

Mutants, each killed:

- `Write` returning the engine's raw status (kills `TypeOK`);
- `HasPrefix` with its arguments swapped, which accepts the "" a failed gRPC `GetVersion`
  yields (kills `ConnectedOnlyToCompatible`);
- a transport error reported as `RetryLater` (kills `SearchClientSpec`);
- `Write` folding the engine's `RetryLater` into `Unknown` (kills `RetryLaterDistinguishable`);

A failed gRPC `GetVersion` is reported as an incompatible engine rather than as the transport
error (`clients.go:76`, which spec section 9 already flags). This is listed as a hazard.
`ConnectedOnlyToCompatible` checks only that such a failure never produces a client.

### CollectionCodec

The state is:

- the engine's `store`: collection name to the pb config it accepted;
- `created`: name to the `CollectionConfig` whose creation succeeded, kept for the
  properties;
- `last`: what the last proxy call returned;
- `calls`.

Each proxy method is one step, with the engine's answer:

- **`CreateCollection`.** This is `BuildPBCollectionConfig`:
  - each column is copied;
  - its `ExtraParams` map becomes key/value pairs in any iteration order (`ExtraOrders`);
  - `applyDefaultValue` sets an undefined index type to the graph index and an undefined
    data type to FP32;
  - a repository whose type is not `Database` fails before anything is sent.

  Then comes `wrapError` of the engine's status.
- **`DropCollection`.** `wrapError` of the engine's status.
- **`DescribeCollection`.** `BuildCollectionInfoFromPB`: `Config` is dereferenced first, the
  extra pairs are folded back into a map, and then `BuildRepositoryConfigFromPB` runs. That
  function reads `GetDatabase()` before its type check.
- **`ListCollections`.** The filters fill one `ListCondition`, in which the last `ByRepo`
  wins. The engine lists the matching collections in any order. The first decode that fails
  fails the call.
- **`StatCollection`.** `BuildCollectionStatFromPB`.

The constant `Omittable` names the optional messages that the engine may leave unset: the
response Status, `CollectionInfo.config`, the repository's Database entity, and the stats.

| Run | Result | What it shows |
|---|---|---|
| `collection_roundtrip` | pass | Four calls over four configs: a defaulted column with two extra parameters and no repository, explicit types with a database repository, two columns, and an unknown repository type. The filters are lists of up to 2 repository names, and the engine code is -1. `TypeOK` includes that a create which returned nil left the collection on the engine. `DescribedAsCreated`: every info that Describe or List returns is the created config with the section 4.4 defaults. |
| `collection_nil_fields` | violation of `NoPanic` | An answer without one of the `Omittable` messages panics in the proxy. TLC's shortest trace is a `ListCollections` answer without Status (`client_proxy.go:91`). The same nil dereference is at `utils.go:238` (repository entity), `utils.go:255` (config) and `utils.go:294` (stats). |

Mutants:

- `wrapError` ignoring the status (kills `TypeOK`);
- `dataTypeApplier` missing from the appliers (kills `DescribedAsCreated`).

**Why the bounds are enough.** For `ClientProxy`:

- Two goroutines with two calls each let one goroutine's late reply or late apply overlap
  another goroutine's call, and let a goroutine call again after a deadline.
- One key is enough, because writes to it and lookups of it are what interact.
- `RetryLater` and one other code cover every branch of `Write`'s mapping.
- Two server versions, one with the client prefix and one without, with and without a
  `GetVersion` answer, cover every branch of construction.

For `CollectionCodec`:

- Four calls are enough to create, describe, list and stat, or to create, drop, re-create
  with another config, and describe.
- Two extra keys give both iteration orders.

### Demo

`Demo` models `main()` of `examples/demo/example.go` with the proxy and transport under it. The
state is:

- `proto`: the `-http` flag;
- `pc` ("start", "call", "wait", "done" or "fatal") and `step`, the statement of `Steps` being
  run;
- `result` and `failedBy`: what the current call returned, and whether the transport, the
  engine or the construction made it fail;
- `net` and `replies`: sets, so a request left behind by a failed call may land late;
- the engine's `store` of collections and the `docs` of "example". `Init` lets an earlier run
  have left either collection, which is why `main()` drops before it creates.

`Steps` is `CollectionSteps` (lines 62-157) followed by `DataSteps` (lines 159-239). Each entry
names the source line, the proxy method, the collection, the keys, and whether `main()` checks
the error. Every error is fatal except those of the drops at lines 82 and 140.

The actions are as follows:

- **`Start`.** `NewProximaSearchClient`, which yields a client or ends `main()` (`ClientProxy`
  checks how it decides).
- **`Issue`.** The current statement's proxy method sends its request.
- **`Handle`.** The engine answers by its store. `CreateCollection` of a held name gets
  `ExistsCode`, and any other call on a missing name gets `MissingCode`. A write adds its
  keys, and a drop removes the collection.
- **`Receive`.** The method maps the response (`Outcome`): `WriteResult` for `Write`,
  `GetDocResult` for `GetDocumentByKey`, `buildQueryResponseFromPB` for `Query`, and
  `wrapError` for the rest. Then `Continue` does what `main()` does next: `log.Fatal`, the
  next statement, or the end.
- **`Deadline`, `ConnectionError`, `ReceiveUndecodable`, `LoseRequest`, `LoseReply`.** These
  are the transport faults of `ClientProxy`. A failed call's request stays on `net`.

**Fairness.** None. Both runs check invariants under `Spec`. The one liveness question, whether
`main()` ends, has a trivial answer over gRPC: it would follow from weak fairness of `Deadline`, whose
guard is the premise. Over HTTP the answer is no, which `proxy_http_liveness` shows.

| Run | Result | What it shows |
|---|---|---|
| `demo` | pass | This is 5,396 states over both protocols, from every store an earlier run may have left. `TypeOK`: `Write` fails only with `RetryLater` or `Unknown`, even when a late drop removed its collection. `StaleOnlyIgnoredCalls`: while `main()` runs, the only requests of earlier statements still in flight are drops. Every other call that failed in transport ended the program. |
| `demo_ignored_drop` | violation of `FatalOnlyOnTransportError` | The engine holds "example" from an earlier run. The drop at line 82 times out while its request is in flight, and `CreateCollection` (line 104) reaches the engine first. The engine refuses it as existing, so `main()` dies at line 105 against a healthy engine. If the late drop lands after the create instead, line 112 reports "Lost collection named by 'example', which created before". |

Mutants, each killed:

- `Write` returning the engine's raw status (kills `TypeOK`);
- the error of `Write` at line 190 left unchecked (kills `StaleOnlyIgnoredCalls`).

**Why the bounds are enough.** The program is fixed, so there is no bound to choose. The
initial stores cover every combination of the two collections that an earlier run may have
left. The faults may strike any call.

## 4. Not modelled, and why

- **URL formatting and protojson:** formatting. They enter `ClientProxy` only as the outcome of
  a call, including an HTTP body that fails to decode.
- **JSON `String()` methods, `Status.Error` and the enum declarations:** formatting and data
  with no state. `WrapStatus` is modelled by what it decides: whether the error is a `*Status`.
- **How long the timer leak lasts:** `buildContext` returns a `cancel` that every gRPC method
  drops, so each call's timer lives for its full 10 s after the call returns. That every
  context is eventually released follows from the timer firing, so a model with a fair timer
  shows nothing. The real cost is how many contexts pile up at a given call rate, and that
  needs a clock, which the models do not have. The hazard is listed with a note.
- **The documents `buildQueryResponseFromPB` copies:** `Demo` models that it never fails;
  each document goes through `buildDocumentFromPB`, which `GenericValue` models.
- **Verbatim fields:** the fields the collection decoders copy unchanged, such as the
  database connection, uuid, LSN context and segment statistics.
- **The demo program's flags and logging:** `-host`, `-port` and the printed values.
- **Unit tests:** not code under test. Their expectations are used where a finding cites them.
