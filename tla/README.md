# TLA+ models of the edgeless telemetry and tile-viewer code

This directory holds TLA+ specifications of the JavaScript/TypeScript code under
`src/`, the TLC configurations that check them, and `PROJECT.json`, which lists
every component, run, mutant, source mapping, finding and hazard.

## 1. Inventory

The repository has two live systems and a few demo GUIs.

### KPI#13 fractal viewer (`src/kpi13/ui`)

| Component | Source | State | Operations | Interacts with |
|---|---|---|---|---|
| Tester (tile writer) | `tester/tester-mandelbrot-redis.ts` | loop indices `i`, `step`, `targetIdx`; loop-time samples | one frame: `await redis.set(i, png)` for i = 1..9 in order, then sleep 200 ms | Redis (SET) |
| Redis | external | keys `1`..`9` → hex PNG | SET, GET; keyspace notifications `__keyspace@0__:<key>` (configured `K$`) | tester, backend (`redis` and `sub` connections) |
| Live push backend | `server/redis-ws-backend.ts` | `wss.clients` | `pmessage` handler: on `set`, `await redis.get(key)`, then `send({key, image})` to every OPEN client; `connection` | Redis (pattern subscription, GET), browsers (WebSocket) |
| Web UI | `webui/src/App.tsx` | `connectionStatus`, `ws`, tiles (image, lastUpdate, previousUpdate, status), per-tile stats (last 50 interarrival times, min, max, count), logs (last 20) | `connectToWs`, `disconnectFromWs`, socket `onopen`/`onmessage`/`onerror`/`onclose`, `updateTileImage`, `updateTileStatus`, `addLog`, 100 ms refresh timer | backend (WebSocket) |

Hard behaviour: every keyspace notification starts its own async handler, and
each handler reads the key later than the SET that caused it. Redis answers
the backend's GETs in order on one connection. Clients connect and disconnect
at any time and get no replay. In the browser, every socket the UI ever
created keeps handlers that write the shared React state. A user can click
between any two browser tasks.

### Elasticsearch middleware (`src/deployment/es_middleware`)

| Component | Source | State | Operations |
|---|---|---|---|
| Aggregation engine | `controller/apiController.js` | none (Elasticsearch holds it) | `getNodeHealthAvg` (existence search, then an avg aggregation), `getNodeHealthRollingAvg` (date_histogram 1m + moving_fn window 5), `getMax/MinConsumptionNode` (max/min aggregation + top_hits owner), `getNodeHealth` (default last hour), `postGpuMetrics`/`getGpuMetrics` (default `now-1d/d`), `getDomain*`/`getNodeCapabilities` (pass-through searches), `testElasticsearchConnection` (10 retries, 5 s apart), three empty TODO handlers |
| Ingestion adapter + socket.io hub | `app.js`, `mqtt.js`, `socket.js` | MQTT client, socket.io server | MQTT `message`: `JSON.parse` and emit `counter`/`metric` on `/live`; synthetic `setInterval` generators. `initMqttSubscriber()` is commented out, so this path is dead code today |
| Routes | `routes/apiRoutes.js` | none | path → handler table, swagger comments |
| Authentication | `keycloak/*.js` | Keycloak session store; Mongo users (schema not in the repo) | `getKeycloakToken`, `validateToken` + `storeUser` upsert, `getKeycloakUser` |

Hard behaviour: HTTP requests run concurrently with each other and with the
writers of the indices. Those writers (node telemetry, retention) are outside
the repository. A handler with two awaits sees two different states of the
index. Aggregations return null when there is no data.

### DDA demo GUIs (`src/examples/dda_demo`)

- A temperature gauge fed by one gRPC-web stream.
- A 3D robot-arm HMI.
- Generated gRPC `.d.ts` type declarations.

These are GUI glue with no shared state worth a model.

### What makes each component correct

- Live path:
  - A tile never goes back to an older image.
  - Once writes stop, every connected client shows the current image.
  - Spec section 8 asks that every published event is observed by every active subscriber.
  - Spec section 3 asks for bounded queues with an explicit overflow policy.
- Web UI:
  - The displayed status is the status of the socket in use.
  - No untracked socket is left alive.
  - The statistics measure the gaps between consecutive updates.
- Aggregation engine (spec 4.3 and 7):
  - A missing average is never reported as 0, and no-data is NotFound.
  - A min/max owner is coherent with its value.
  - The rolling average follows the spec's window.
  - Default time windows are as documented.
  - Retries are bounded.
- Ingestion (spec 4.1): a malformed payload is counted and dropped, never raised.

## 2. Modules

| Module | Models | State (variables) ↔ code | Actions ↔ code |
|---|---|---|---|
| `RedisWsBackend` | tester loop, Redis, backend handler, WebSocket clients | `store`/`written`: Redis values as versions (the n-th SET of a key writes version n); `notif`: notifications in flight on `sub`; `pending`: GETs sent, not yet run; `replies`: GET results not yet handled; `cstate`, `chan`, `view`: client readyState, bytes in flight, image shown per tile; `setDuring`, `rcvd`: history. Constant `SlowClients`: browsers that may stop reading their socket | `TesterSet` (one `redis.set` of the frame loop), `ExternalDel` (another client; under `K$` no notification), `SubConnectionLost` / `SubResubscribed` (ioredis loses `sub` and re-subscribes; notifications in flight or published meanwhile are gone), `OnPmessage` (handler up to `await redis.get`), `RedisGet` (Redis runs the oldest GET; may reject), `OnGetReply` (catch / `if (!value) return` / broadcast to OPEN clients), `Connection`, `ClientClose`, `ClientReceive` (the UI's `onmessage` image update) |
| `WebUiConnection` | `connectToWs`, `disconnectFromWs`, socket handlers of `App.tsx` | `connectionStatus`, `ws`, `tileStatus` (all tiles are set alike), `sock[s]`: browser life cycle of each socket created | one action per function and per browser event: `ConnectToWs`, `ConnectToWsThrows` (the `new WebSocket` catch), `DisconnectFromWs`, `OnOpen`, `ConnectFails`, `OnError`, `Dropped`, `CloseHandshake`, `OnClose` |
| `TileStats` | `updateTileImage` statistics, the mount effect, the histogram of the stats panel | `lastUpdate`, `previousUpdate`, `interarrivalTimes` (window `StatsWindow` = 50 in code), `avgInterarrival` (an exact fraction, `Mean`), min, max, `totalUpdates`; `updates`: history | `UpdateTileImage`, `Tick` (clock). Operators: `BinSize`, `BinIndex`, `Bins` (the code's binning, `BinCount` = 10 in code), `RefBins` (the bars' title ranges) |
| `WebUi` | the whole UI of `App.tsx`: `WebUiConnection` and `TileStats` composed | the variables of both | `ConnStep` (any step of `WebUiConnection`), `Tick`, `OnMessage(s)` (an open socket's `onmessage` runs `updateTileImage`) |
| `TileMosaic` | how frames become the 3×3 mosaic: the tester's frame loop, chunks and key names, the backend's key extraction, the UI's key parsing and tile placement | `frame` (`step`), `viewOf[f]` (the view of frame f), `i` (the loop variable), `store` (Redis: key string → the image, an image being the `[frame, key]` it was rendered from), `tiles` (the image each UI tile shows). A string is a sequence of one-character strings; coordinates are exact integers | `TesterSet` (one iteration: `redis.set(i.toString(), png)`), `NextFrame` (`step++`, the next view), `Push(k)` (the backend's pmessage handler and the UI's `onmessage` for key k). Operators: `Chunk` (corners of chunk i), `ToDecimal` (`i.toString()`, RECURSIVE), `Channel`/`KeyOfChannel` (`split(':').slice(1).join(':')`), `FirstDigitRun` (`/(\d+)/`), `ParseInt`, `TileIndexOf`, `TileAccepted` |
| `TileHub` | abstract: what the live path promises a browser | `versions`, `connected` (a set of clients), `shown` | `Write`, `Connect`, `Disconnect`, `Show` (a tile moves forward to a written version while connected) |
| `NodeHealthQueries` | `getNodeHealthAvg`, `getMaxConsumptionNode`, `getMinConsumptionNode` | `docs`: the node_health_test index, one metric field (`proc_cpu_usage` stands for the four handled alike); `req[r]`: where request r is between its awaits; `resp[r]`: what it answered | `IndexDoc`, `DeleteDoc` (environment), `AvgRequest`, `AvgExistSearch`, `AvgAggSearch`, `ExtremumRequest`, `ExtremumSearch` |
| `RollingAverage` | `getNodeHealthRollingAvg` and the Elasticsearch pipeline it asks for | `docs`, `nextId`: the index; `resp`: code, the documents the search saw, `by_time.buckets` | `IndexDoc` (ingestion, late samples included), `RollingAvgSearch` (search, then 200 with the buckets or 500). Operators: `BucketKey`, `DateHistogram` (min_doc_count 0), `AvgAgg`, `UnweightedAvg` (a fold), `MovingFn` (gap_policy skip, shift 0), `ByTimeBuckets`; `SpecMovingAvg` is the spec's reference |
| `EsMiddleware` | `app.js` server start and connection check, `apiRoutes.js` table, the answer shape of every controller function | `esUp`, `outages`: the cluster; `check`, `attempt`: `testElasticsearchConnection`; `route`, `pc`, `code`: each request's path, place in its handler, status sent | `EsDown`, `EsBack`, `HealthCall` (one loop iteration), `RetryTimer` (the 5 s timeout, then the loop test `attempt < maxRetries`), `Dispatch` (middleware + router), `SearchReply`, `ExistReply`, `AggReply` |
| `MqttLive` | `initMqttSubscriber` and the `/live` namespace of `app.js` | `mqtt`, `broker`: client state and QoS 0 publishes in flight; `up`: the Node process; `sio`, `inbox`, `got`: socket.io clients | `MqttConnect`, `SubAck(ok)` (the subscribe callback, with or without an error), `Publish` (devices), `OnMessage` (`JSON.parse` + emit), `Timer` (the two generators), `SioConnect`, `SioDisconnect`, `SioReceive` |

Each module has an `MC<Module>.tla` that instantiates it. Clients and requests
are model values, with symmetry where the property is a safety property. Each
module's definitions are mapped to source lines in `PROJECT.json`. Some
definitions are faulty versions of the code, each marked "Faulty variant" in a
comment: `OnPmessageSkipInFlight`, `OnGetReplyPushNull`,
`OnGetReplyAwaitDrain`, `ConnectToWsNoClose`, `BinIndexNoClamp`,
`TopHitsOppositeSort`, `AggReplyCatchOnlyLogs`, `ChunkRowFromKey`. Each
is used (in `PROJECT.json` "mutants") to show that a property detects that bug.

### Refinement and composition

`RedisWsBackend` defines
`Hub == INSTANCE TileHub WITH versions <- written, connected <- OpenClients, shown <- view`.
The versions written are the tester's SETs. The connected clients are those
whose server-side readyState is OPEN. A tile shows what the browser last
received for it. Redis's values, the tester's loop, the notification queue, the GETs in
flight, the channels and the histories stay hidden, and their steps are
stutters of `TileHub`. `backend_safety` checks `HubSpec == Hub!Spec` as a
PROPERTY.

`TileMosaic` joins three components' conventions over all nine keys: the
tester's 1-based keys and row-major chunks, the backend's key extraction from
the keyspace channel, and the UI's 0-based tile index. It leaves out the order
of notifications and GETs, which `RedisWsBackend` checks over versions: here
the backend may push any key at any time.

`WebUi` instantiates `WebUiConnection` and `TileStats` over one shared set
of variables. Each module's steps leave the other's variables unchanged.
`onmessage` is the step that joins them.

### Elasticsearch semantics assumed

- `date_histogram` with `min_doc_count: 0` and no `extended_bounds` returns
  every interval from the first to the last one holding a document. Keys are
  aligned to the epoch.
- `avg` over no value is `null`.
- `moving_fn` with the default `gap_policy: skip` and `shift: 0` keeps only
  the buckets that have a value. The n-th of them gets
  `unweightedAvg(values[n-window .. n-1])`: the window excludes the current
  bucket. An empty window gives NaN, which is returned as `null`. A bucket
  without a value gets no moving value.

## 3. Runs

| Run | Expect | What it shows |
|---|---|---|
| `backend_safety` | pass | `HubSpec`: the live path implements `TileHub`. A tile only moves forward, to a version that was written, while its client is connected. GETs may fail, keys may be deleted, and the `sub` connection may be lost once. That no tile goes back to an older image rests on Redis answering one connection's GETs in order while many handlers are suspended. `TypeOK` is also checked. |
| `backend_converge` | pass | `EventuallyConverged`: once the tester stops, every open client that keeps reading shows the current image of every present key written during its connection. One of the two clients may stop reading for good: `client.send` only queues, so it holds no one back (a broadcast that waited for it, `OnGetReplyAwaitDrain`, breaks the property). |
| `backend_delivery` | violation | `EveryWriteDelivered` (spec §8): two SETs of one key before the backend's GET runs → the client gets version 2 twice and never version 1. |
| `webui_sockets` | pass | On the composed `WebUi`. `AtMostOneLiveSocket`: every connecting/open socket is the current `ws`, whatever the order of clicks and events. `HistogramBinsHoldSamples`: each bar counts exactly the interarrival times its title range covers; the clamp to the last bar is reached. |
| `webui_status` | violation | `CurrentOpenShownConnected`: Connect, Disconnect while that socket is still connecting, Connect again, and the new socket opens; then the first socket's late `onerror` sets "disconnected" while the current socket is open and the tiles still show "connected". `onclose` has the same missing check. |
| `tilestats_gap` | violation | `InterarrivalIsGap`: recorded interarrival = time since the update before the previous one. |
| `nodehealth_extremum` | pass | `ExtremumOwnerHoldsValue`: the named owner holds the reported min/max value, with concurrent index writes, deletes and failed searches. |
| `nodehealth_avg` | violation | `AvgNeverDefaultsToZero` (spec §4.3/§7): 200 with average 0 for a node without samples. |
| `mosaic` | pass | `TilesInPlace`: over two frames of all nine keys, every tile shows a chunk whose corners are those of the tile's own cell of that frame's view, so the tiles join with no gap or overlap. The row taken from the 1-based key (`ChunkRowFromKey`) breaks it. |
| `rolling_spec` | violation | `MovingAvgMatchesSpec` (spec §5/§8): the code's moving_fn leaves out the current bucket. A node with one sample gets a `null` moving value where the spec's reference gives the sample. |
| `es_answered` | pass | `ImplementedRoutesAnswered`: while the startup check retries beside the server, every request to a non-stub route is answered, even when the cluster goes down between its two searches. |
| `mqtt_malformed` | violation | `MalformedPayloadDropped` (spec §4.1/§7): an invalid JSON payload throws out of the MQTT listener and the process exits. |

### Bounds

- `RedisWsBackend`: two keys written for two frames, so each key reaches two
  versions. That is the least needed for an older and a newer image of one
  key to coexist in the pipeline.
  - Safety uses two clients with one connection each.
  - Liveness uses one key written three times and two clients that may
    reconnect once. One of them may stop reading. With two keys and two
    clients the liveness run exceeds 7 million states. A single key keeps
    the hazard: several GETs of the same key in flight.
  - Every interleaving of handler, Redis and client steps is explored.
- `WebUiConnection`/`WebUi`: three or four sockets. The stale-event race
  needs two, and the leak needs a third created after a stale event. In
  `WebUi` the clock runs 0..4 with four images and a window of 2, so the
  trim happens (three interarrival times). The
  histogram has 3 bars instead of the code's 10, so that a range of 3 or 4
  ms gives a time past the last bar, which the clamp must catch.
- `RedisWsBackend` also loses `sub` once in the safety run.
- `TileMosaic`: all nine keys and two frames, each with one of two views of
  the code's 3:2 aspect (`3.0 * scale` by `2.0 * scale`) and different
  scales. Their extents are multiples of 3, so the tester's divisions are
  exact. Two frames let a tile keep a chunk of the older frame while its
  neighbours show the newer one (236,192 states).
- `TileStats`: clock 0..4, four updates, window 3. The off-by-one shows at the
  second update.
- `NodeHealthQueries`: two nodes, values {10, 20} plus "field missing", three
  documents, two concurrent requests. This allows ties, a higher and a lower
  value, and a delete between two searches.
- `RollingAverage`: one node, times 0..3 with an interval of 2, the code's
  window of 5 and two samples: the scenario of spec §8.
- `EsMiddleware`: the code's `maxRetries = 10`, two concurrent requests on
  any of the 15 routes, and up to two outages. That is enough for a flap
  during the retry loop and an outage between the two searches of
  `getNodeHealthAvg`.
- `MqttLive`: two publishes and one browser. One malformed payload is enough.

### Fairness

- `RedisWsBackend`: weak fairness on `SubResubscribed` (ioredis reconnects),
  `OnPmessage`, `RedisGet`, `OnGetReply`, and `ClientReceive` of every
  client not in `SlowClients`. The Node event loop eventually runs every queued
  callback, Redis executes every command it received, and TCP delivers to an
  open socket whose browser reads it. The tester, other Redis clients, the
  people at the browsers and a browser that stopped reading get no fairness.
- `WebUiConnection` states weak fairness on the browser's own event dispatch
  and on close handshakes (browsers time them out); users, server and network
  get none. Its one run and the `WebUi` run check safety only, and `WebUi`'s
  specification has no fairness.
- `EsMiddleware`: weak fairness on the health call, the retry timer and each
  request's handler steps; `ImplementedRoutesAnswered` needs only the
  handler steps. The event loop runs every callback and timer, and
  the Elasticsearch client's request timeout settles every call. The cluster
  gets none: it may stay down.
- `TileStats`, `NodeHealthQueries`, `RollingAverage` and `MqttLive` are
  checked only for safety.

## 4. Not modelled, and why

- Pixel values of the tester: the escape-time iteration, the pixel-to-plane
  mapping and the HSL→RGB palette compute in floating point, and images are
  abstracted to versions or to the chunk they were rendered from. Chunk
  corners are modelled in exact arithmetic (`TileMosaic`). A floating-point
  rounding error of one ulp at a chunk seam is not modelled.
- A Redis key written by someone other than the tester, such as `cam3`, is
  parsed by the UI to tile 3, and its value replaces that tile's image.
  `TileIndexOf` models the parsing, but the backend model has only the
  tester's keys. The hazard is listed.
- The MQTT adapter's reconnect and delivery (`MqttDrop`, `MqttConnect`,
  `SubAck`, the socket.io side) are modelled in `MqttLive`. The socket.io
  sessions take no part in its one run. No passing run
  checks them. The adapter is disabled in `app.js` (`initMqttSubscriber()`
  is commented out), and its one run is kept for the malformed-payload
  divergence. One run over `MqttLive` and `EsMiddleware` together would
  have an estimated 47 million states (about 9,000 × 5,000) even with one
  request and one browser.
- Rendering: the JSX of `App.tsx`, the DDA GUIs, and the histogram layout.
- The swagger documentation in `apiRoutes.js` has no behaviour.
- Generated `.d.ts` files have no behaviour.
- `mqtt.js` and `socket.js` of es_middleware are never required or called.
- The three TODO stubs of the controller never answer. Their whole body is a
  log line, so no property is checked about them.
- The default time ranges of `getNodeHealth`/`getGpuMetrics` and the
  timestamp of `postGpuMetrics` are date-math expressions that Elasticsearch
  evaluates, with no middleware state involved. Their hazards are listed in
  `PROJECT.json`:
  - `now-1d/d` spans 24 to 48 hours;
  - the stored timestamp is cut to the second.
  The `gpu_metrics` mapping is not in the repository.
- The UI's log list (`addLog`) is display only. Its `Date.now()` ids can
  collide within one millisecond. The 100 ms refresh of the "time since
  update" text is formatting.
- The tester's `loopTimes` history grows without bound. That growth is
  unconditional, so a property would only restate the line.
- Keycloak authentication (`keycloak_token.js`). It is out of the spec's
  scope, and nothing in `app.js` or the routes calls it. `storeUser` upserts
  through `../mongo/db_user`, which is not in the repository. Whether two
  concurrent first logins create two user records depends on a unique index
  on `userId` that cannot be seen, so a model would have to guess the
  outcome. Since no code path reaches it, no hazard is listed for it.
- One composed module for the four query handlers over the shared
  `node_health_test` index was built and not kept. With the present bounds
  (three documents, times 0..4), the responses of the two handler families
  multiply to 12 million states. Smaller bounds would lose the cases the
  separate runs check: a sliding window, and an empty bucket between two
  full ones. The handlers share no state except the index, so the separate
  runs already cover them.
- The DDA temperature GUI keeps one value, which a gRPC stream callback sets.
  Its hazard (the stream is never resubscribed after `end` or `error`) is
  listed. The robot-arm HMI only dispatches fixed angle sets.

## 5. Plan

Sitting 1 did steps 1–8. Sitting 2 did steps 9–11. Sitting 3 did step 14. Sitting 4 did step 15. Sitting 5 did step 16.

1. `RedisWsBackend`: the live push path. **Done.**
2. `WebUiConnection`: the subscriber's side of the connection. **Done.**
3. `NodeHealthQueries`: average and extremum handlers under concurrent index
   changes. **Done.**
4. `TileStats`: per-tile statistics. **Done.**
5. `RollingAverage`: `date_histogram` and `moving_fn` against the spec's
   reference. **Done.**
6. `EsMiddleware`: the connection check and the answer shape of every route.
   **Done.**
7. `MqttLive`: the MQTT handler and `/live` emission. **Done** (the
   malformed-payload violation).
8. Consolidation to one run per question (the project holds 12 runs).
   **Done.**
9. `TileHub`, the abstract hub spec, and its refinement by `RedisWsBackend`.
   **Done.**
10. A lossy `sub` connection in `RedisWsBackend`. **Done.**
11. `WebUi`, the composed UI, with histogram binning and eventual closing
    of released sockets. **Done.**
12. Compose `WebUi` with `RedisWsBackend`, so that the UI's sockets become
    the backend's clients. **Not done**: the product of a 4-million-state
    backend run and a 300,000-state UI run is out of reach. The two are
    joined at `onmessage`, which both model (`ClientReceive`, `OnMessage`).
13. `KeycloakUsers`: dropped (see "Not modelled").
14. A refinement mapping for `TileHub`, a client that stops reading in the
    convergence run, and `avgInterarrival` in `TileStats`. **Done.**
15. `TileMosaic`: the chunk geometry, key naming and key parsing shared by
    tester, backend and UI. **Done.**
16. Review: `TileMosaic` became a state machine with its own run over all
    nine keys. Properties that restated the code or followed from `HubSpec`
    were removed (`NoStaleImage`, `AvgWithinMinMax`, `ReplacedSocketsClosed`,
    the two properties of `rolling_window`, `ConnectionCheckEnds`).
    `RetryTimer` got the loop's exit. `SubAck` got the subscribe error
    branch. **Done.**
