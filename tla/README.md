# TLA+ models of the erda admin tools' web pages

This directory holds TLA+ specifications of the browser-side parts of erda's
admin tools:

- the React app under `src/modules/tools/admin-tools/web/src`;
- the route admin page of openapi-ng,
  `src/internal/tools/openapi/openapi-ng/routes/dynamic/static/proxy.js`.

It also holds TLC configurations that model-check small instances, and TLAPS
proofs that hold for every value of the constants. `PROJECT.json` lists:

- the components;
- the runs and their mutants;
- the map from every modelled definition to the source lines it translates;
- the findings;
- the hazards;
- the theorems.

## The system and how its parts interact

Every page of the admin app is a React class component. Its handlers call the
HTTP client layer, `actions/Api.ts` (`MonitorApi`, `AdminApi`). Each call there
is `fetch(url).then(res => res.json()).then(Success).catch(Failture)`:

- `fetch` resolves for any HTTP status, so an error answer of the service
  reaches `Success`;
- only a network error, or an exception thrown inside `Success`, reaches
  `Failture`.

Each callback runs to completion on the browser's event loop. The answers of
different requests arrive in any order. That is the concurrency of this code: a
single thread, with an arbitrary interleaving of user events and response
callbacks. `proxy.js` has the same shape, with jQuery `$.getJSON` and `$.ajax`
against the `../apis` service.

| Part | Source | Module | Status |
|---|---|---|---|
| Topology view-model builder (`formatBytes`, `isBothway`, `getOption`) | `views/NodeTopo.tsx` | `TopoGraph`, `TopoBuilder` | modelled |
| Network topology page with `Envs` and `NodeTopo` calls | `views/NodeTopo.tsx`, `actions/Api.ts` | `NodeTopo` | modelled |
| Elasticsearch index page with `ESIndices` and `ESDeleteIndices` | `views/ESIndices.tsx`, `actions/Api.ts` | `ESIndices` | modelled |
| Abstract cluster input of the topology page (locked until the default arrives) | `views/NodeTopo.tsx` | `ClusterField` | abstract specification |
| Proxy route admin page | `proxy.js` | `ProxyAdmin` | modelled |
| Metric query page with `QueryMetric` | `views/MetricsQuery.tsx`, `actions/Api.ts` | `MetricsQuery` | modelled |
| Kafka push form and machine offline form | `views/KafkaPush.tsx`, `views/OfflineMachine.tsx`, `actions/Api.ts` | `AdminForms` | modelled |
| Env list, App shell | `views/Envs.tsx`, `App.tsx` | none | not modelled: one request each, nothing interleaves |
| webpack configuration | `webpack.config.js` | none | build only |

## Modules and how they correspond to the code

### `TopoGraph` (constants only, no variables)

`getOption` and its helpers, written as operators over a snapshot.

- **Snapshot:** a set of nodes (name, byte count) and a set of links.
- **`UnitIndex` / `FormatBytes`:** the division loop of `formatBytes`, with its
  real bound `i < units.length`.
- **`Sources`, `Targets` and `Polluted`:** the adjacency index `nm`.
  - `nm` is a plain object, so a host whose name is a property of
    `Object.prototype` (`ProtoKeys`) finds an inherited entry before any link
    sets one.
  - The loop then writes into that shared built-in. `Polluted` is the set of
    those writes.
- **`IsBothway` and `EdgeColor`:** the edge classification.
- **`GetOption`:** the whole builder, returning the option and the new
  pollution.
- **Reference definitions:** `RefUnitIndex`, `RefFormatBytes`, `RefColor` and
  `RefOption` state what the builder's contract prescribes.

Abstractions:

- The base is a constant (`Base`). The runs use 4 instead of 1024 so that every
  unit boundary up to EB and beyond is reachable with small numbers. The loop's
  structure does not depend on the base.
- Tooltip HTML, labels and echarts styling are left out.

### `TopoBuilder`

Successive `getOption` calls in one page realm.

- **State:** the shown option, and what earlier calls wrote into shared objects.
- **Step:** `Build(s)` is one call on any snapshot.

### `NodeTopo`

The topology page.

- **Variables:**
  - `init`;
  - `clusterName`;
  - `range` (`this.start` and `this.end`);
  - `option`;
  - `envsPending`: the Envs request is in flight;
  - `reqs` and `issued`: the topology requests in flight, and how many were
    issued;
  - `polluted`;
  - two history variables: `shown` (the request whose answer is on screen) and
    `typed`.
- **Actions:** one per handler or callback:
  - `EnvsSuccess` and `EnvsFailure` (`getDefaultCluster`);
  - `TimeChange` (`onTimeChange`);
  - `ClusterChange` (`onClusterChange`);
  - `Search` (`onSearch`);
  - `TopoSuccess` and `TopoFailure` (`loadTopo`'s callbacks).
- **`LoadTopo`** is the request part of `loadTopo`, including the early return
  of `MonitorApi.NodeTopo` on an empty cluster. It is a conjunct of the actions
  that call it, never an action of its own.
- **Initial option:** the constructor's `option` is `{}`. The model starts from
  `GetOption(EmptySnapshot, {}).option`. Both render an empty chart.

### `ClusterField` and the second refinement

`ClusterField` is the abstract specification of the cluster input of the
topology page. Its variables are `field` (the text) and `editable`. It starts
empty and locked. `Default(c)` unlocks it once and writes the default cluster
(or leaves it empty); `Type(c)` changes it only while it is unlocked. Its
`Spec` adds weak fairness on `Default`: the field is eventually unlocked.

`NodeTopo` instantiates it as
`Field == INSTANCE ClusterField WITH field <- clusterName, editable <- init`.
`EnvsSuccess` maps to `Default` of the answer, `EnvsFailure` to
`Default(Empty)`, `ClusterChange` to `Type`; every other step leaves both
alone. `ClusterFieldSpec` (the whole specification, fairness included) is a
property of the `NodeTopoPage` run; `ClusterFieldSafe` (without fairness) is
proved.

### `ESIndices`

The index page.

- **Variables:**
  - `data`, `indices`, `loading` and `selected`: the component's state and
    `this.indices`;
  - `exists`: the service's index set;
  - `loads` and `deletes`: the requests in flight;
  - `shownLoad`: a history variable.
- **`Select`:** `rowSelection.onChange` together with `getCheckboxProps`.
  - Past the cap, the handler evaluates `selectedRowKeys.list.slice`.
  - `list` is undefined on an array, so the TypeError ends the handler before
    `setState`. The selection stays, so the cap holds only through this
    exception.
  - Rows can be ticked only while `loading` is off, because antd's spinner
    covers the table.
- **`ServeDelete`:** the service deletes a list of names all or nothing.
- **`CreateIndex`:** the cluster's side, not the page's: ingestion writing
  to a time-based index recreates it after a delete. System indices are
  never deleted, so only an ordinary index reappears. With it, a list the
  page holds can miss a live index, which is why the project states no
  property that a shown list covers the cluster.

### `MetricsQuery`

The metric query page.

- **Variables:** `range`, `table` (columns and rows as one model value),
  the queries in flight, and the history variable `shown`.
- **Actions:**
  - `TimeChange` (`onTimeChange`);
  - `Search` (`onSearch` through `QueryMetric`, which sends nothing for an
    empty text);
  - `Success`: the answer's table, or `NoRows` when there is no series;
  - `Failure`: `Failture`, which also covers a TypeError thrown inside
    `Success`, clears the table.
- **Fairness:** every query's promise settles, as in `NodeTopo`.

### `AdminForms`

The Kafka push form and the machine offline form.

- **Variables:** the push form's `topics` and `payload`, the POSTs in flight,
  and the history `succeeded` of requests a "Success" toast reported on.
- **Actions:**
  - `TopicsChange` and `PayloadChange`;
  - `PushClick`: the button is `htmlType="button"`, so no form rule runs;
  - `OfflineFinish`, with `onFinish`'s early return;
  - `Success` and `Failure` of either form.
- `Serve` stands for the services.
- **Assumption:** `EnvsSuccess` sets the cluster and queries it in one
  step, as the code does when `setState` runs synchronously (a fetch
  callback outside React's batching). If the update were batched,
  `loadTopo` would read the old empty name; `DefaultClusterQueried` checks
  the control path and cannot see that batching.

### `ProxyAdmin`

The route page.

- **Variables:**
  - `picker` and `servicesPending`: the service list of `loadServices`;
  - `table`;
  - `okBox` and `errBox`: the two message boxes;
  - `routes`: the service's route set;
  - the list and write requests in flight;
  - `shownList`: a history variable.
- **Actions:** `Submit` (PUT), `DeleteClick` (DELETE), and the success and
  error callbacks of writes and lists.
- **Abstraction:** a route is a model value (method and path). A PUT of a
  route that already exists changes its backend and auth columns in the
  code; the model keeps only the route set, so that PUT leaves `routes`
  unchanged.

### Environment actions

`ServeLoad`, `ServeDelete`, `ServeList`, `ServeWrite` and `Serve` stand for the remote
services. They are not code of this repository and carry no map entry.

### Mutants

Each module defines its seeded bugs right before the definition they replace,
for example `SelectNoThrow` before `Select` and `ListAnswerIntoPicker` before
`ListAnswer`. Every property of a passing run is broken by one of them.

## Runs

| Run (cfg) | Expect | Checks | Shows |
|---|---|---|---|
| `TopoBuilderReference` | pass | `TypeOK`, `OptionMatchesReference` | ordinary host names and byte counts up to EB build the prescribed option and colours |
| `TopoBuilderHugeBytes` | violation | `OptionMatchesReference` | 4^7 bytes (1024^7 in the code) print `units[7]`, i.e. `undefined` |
| `TopoBuilderProtoNames` | violation | `OptionMatchesReference` | a host named `constructor` gets a two-way edge with no reverse link, and `Object` is written to |
| `NodeTopoPage` | pass | `TypeOK`, `TypedValueKept`, `DefaultClusterQueried`, `ClusterFieldSpec` | the late default cluster never overwrites typed input; the default is queried; the page implements `ClusterField`, so the field becomes editable |
| `NodeTopoStale` | violation | `NoStaleOverwrite` | two searches answered in reverse order leave the older graph on screen |
| `ESIndicesPage` | pass | `DeleteRequestsCapped`, `ProtectedKept` | with deletes in flight, reloads and the cluster recreating indices in any order, no DELETE exceeds the cap or is empty, and no system index is deleted |
| `ESIndicesStale` | violation | `NoStaleList` | two deletes in quick succession: the older list answer is shown last |
| `ProxyAdminPage` | pass | `TypeOK` | with list and write answers in any order, the service picker only holds service names and the route table only routes |
| `ProxyAdminStale` | violation | `NoStaleProxyList` | two reloads answered in reverse order show the older route list |
| `MetricsQueryLast` | violation | `LastQueryShown` | two queries answered in reverse order: once all answers are in, the older query's outcome stays for good |
| `AdminFormsIncomplete` | violation | `PushComplete` | clearing the tags and clicking Push sends a push with no topic, despite the form's `required` rules |
| `AdminFormsSuccess` | violation | `SuccessMeansAccepted` | a push the service refuses with a JSON error is reported as "Success" |

### Bounds

The bounds are chosen so that the interesting cases happen.

- **Topology page:** `MaxReqs = 3`. Two searches can be in flight at once, with
  the Envs answer before, between or after them.
- **Index page:** `MaxSel = 2` stands for the cap of 15. Four indices, one of
  them a system index, make the third tick cross the cap. `MaxDeletes = 2`
  allows two DELETEs in flight, including the same selection confirmed twice.
  `MaxLoads = 3` covers the initial load plus one reload per delete.
- **Metric page:** `MaxQueries = 3` and two non-empty tables, so two
  queries can be in flight with a third after them.
- **Forms:** two topics, an empty and a default payload, and `MaxPosts = 2`.
- **Route page:** two routes, one of them held initially, and one service. `MaxWrites = 2` and
  `MaxLists = 3`, so two write answers and two reloads can cross.

### Deadlock checking

The index and route runs, and the form runs, set `CHECK_DEADLOCK FALSE`.
The real page may stop:

- after a list failure, the index page's spinner stays on forever and nothing
  can be clicked;
- otherwise the run ends once the request bounds are exhausted.

### Fairness

`NodeTopo` and `MetricsQuery` state fairness (the latter for the liveness
property of its violation run). Their fairness is weak fairness on the
settlement of the Envs fetch and of each topology fetch, for two reasons:

- a fetch eventually resolves or rejects, because the browser times a
  connection out;
- the event loop then runs its callback.

`ClusterField`'s weak fairness on `Default` is what the page owes through
its fairness on the Envs fetch: every Envs callback is a `Default` step.

No fairness is assumed of the user.

## Proofs (TLAPS)

| Module | Theorems | Inductive invariant |
|---|---|---|
| `TopoGraphProofs` | lemmas `FormatBytesType`, `GetOptionType`, `UnitIndexMeetsContract`, `FormatBytesMeetsContract`, `EdgeColorMeetsContract`, `GetOptionMeetsContract` | none |
| `TopoBuilderProofs` | `BuilderTypeCorrect`, `BuilderMeetsContract` | `TypeOK`; `OptionMatchesReference` is inductive as it stands |
| `NodeTopoProofs` | `TypeCorrect`, `PageInvariant`, `TypedValueKeptHolds`, `DefaultClusterQueriedHolds`, `ClusterFieldRefinement` | `PageInv`, `FieldInv` |
| `ESIndicesProofs` | `ESInvariant`, `ESTypeCorrect`, `DeleteRequestsCappedHolds`, `ProtectedKeptHolds` | `ESInv` |
| `ProxyAdminProofs` | `ProxyTypeCorrect` | `TypeOK`, inductive as it stands |

`PageInvariant` and `ESInvariant` prove the inductive invariants `PageInv`
and `ESInv`; they are proof devices, not properties of a run. Each proof
shows that the invariant holds initially and that every step
preserves it, `CreateIndex` included. The step proof has one step per action. The named theorems then
follow by PTL.

`ClusterFieldRefinement` proves `Spec => ClusterFieldSafe`: the initial
state maps to the field's and every step maps to a field step or a stutter.
It needs `FieldInv == PageInv /\ (~init => clusterName = Empty)`: when an
Envs callback runs, `init` is still off (from `init = ~envsPending`) and the
field is still empty, which is exactly the guard of `Default`. `FieldStep`
maps each page step to `Default`, `Type` or a stutter.

`TopoGraphProofs` holds the type lemmas of the pure builder operators
(`FormatBytes` yields a string of the unit table, `GetOption` an option of
the declared shape). `NodeTopoProofs` and `TopoBuilderProofs` both use them.

`BuilderMeetsContract` proves `OptionMatchesReference` for every base, unit
count, set of names and set of snapshots, under two hypotheses: no host is
named like a property of `Object.prototype` (`ProtoKeys = {}`) and every byte
count of a snapshot is below `Base^UnitCount` (`BytesInRange`). The runs
`TopoBuilderProtoNames` and `TopoBuilderHugeBytes` violate the property with
either hypothesis dropped, so both are needed. The argument:

- `UnitIndexMeetsContract`: the loop of `formatBytes` stops at the unit the
  contract picks. The least `m` in `1..UnitCount` with `n < Base^m` exists
  (`WFMin` on the well-founded order of `Nat`); `m - 1` is the unique index
  the contract's CHOOSE can return, and the powers of the base up to `n` are
  exactly `1..m-1`, so their number is `m - 1`.
- `EdgeColorMeetsContract`: with no inherited names, `isBothway` looks only at
  the snapshot's own links, so the pollution left by earlier calls is never
  read, and the edge is two-way exactly when the reverse link exists.
- `GetOptionMeetsContract` combines them field by field. Each `getOption`
  call then re-establishes the property, whatever the previous state was.

### Why the invariants are strengthened

- **`PageInv`:**
  - It ties `init` to the end of the Envs request: `init = ~envsPending`.
  - It says the user can only have typed once `init` is set.
  - It says a non-empty cluster name has been queried (`issued > 0`).
  - `TypedValueKept` alone is not inductive: a state with input typed and the
    Envs answer still pending would break it.
- **`ESInv`:**
  - It adds that the ticked rows never include a system index and stay within
    the cap.
  - It adds that every DELETE in flight names no system index.
  - Neither `DeleteRequestsCapped` nor `ProtectedKept` is inductive without
    these conjuncts, because a DELETE takes exactly the ticked rows.

### Assumptions

The proofs rest on the named ASSUMEs of the specified modules:

- the request bounds are naturals;
- the cap is positive;
- the index set is finite;
- `Protected` is a subset of `Keys`;
- `Matches` maps filters to index sets;
- the `TopoGraph` assumptions about the base and unit count, including two
  arithmetic facts the provers do not know: the powers `Base^i` up to
  `UnitCount` are positive naturals (`PowerAssumption`) and grow with `i`
  (`PowerMonotone`). Both hold for any base above 1; proving them would take
  induction on `i`, which the installed provers cannot instantiate.

TLC evaluates all of them in the passing runs.

### What stays with TLC

- **Liveness:** the fairness part of `ClusterFieldSpec` (the field is
  eventually editable), because the prover handles neither fairness nor
  ENABLED. The safety part is proved.
- **The builder's behaviour where it breaks its contract:** the two
  violation runs of `TopoBuilder`. `OptionMatchesReference` itself is proved
  under the hypotheses that exclude them.
- **The properties checked only in violation runs.**

## Not modelled

- The environment list and the App shell send one request each. There is no
  state for an order of events to corrupt. The Env list's spinner stays on
  after a failure, which is listed as a hazard.
- A click on an entry of the proxy page's service picker only fills a text
  field of the form, and the submitted route abstracts the form.
- Display work is left out: tooltip HTML, highlighting, sorting, and column
  rendering.
- The parsing of a metric answer into columns and rows is abstracted to a
  model value.

## Plan for further work

1. Write an abstract specification of the topology page: the chart shows the
   answer to some query that was issued. Show `NodeTopo` refines it.
2. Prove the properties of the builder that do not need induction, for example
   that `EdgeColor` always yields one of the three colours.
3. Model what the route page shows after a write whose answer is lost
   (`proxy.js:79`).
