# TLA+ models of the Cymbal operations agent

A verification development beside the code of the Cymbal Retail Operations
agent. It models the parts of the repository that have logic of their own: the
start of the process and its settings, the two retrieval tools, the serving
surfaces with the services they share, and the refresh of the evaluation data.
It checks them with TLC on small instances and proves their main properties with
TLAPS for every instance. All paths below are under `src/`.

## 1. Inventory

| Component | State | Operations | Talks to | What is hard | Correct if |
| :-- | :-- | :-- | :-- | :-- | :-- |
| RAG tool, `app/tools/rag_tool.py` | per call: attempt, best row | vector job, gate, full-text job, decline, retry | BigQuery, `config` | two jobs per attempt over a table that may change; either may fail; boosting at boundaries | the reply is justified by table contents of the call's lifetime; a covered code is never declined; the exact chunk loses by rank only |
| Analytics adapter, `app/tools/analytics_tool.py` | per call: attempt | authenticate, POST, classify, render, retry | Data Agent over REST | timeouts whose request lives on; two envelopes; order of the steps | bounded executions; one retry discipline; the parts shown belong together |
| Reasoning Engine adapter, `app/app_utils/reasoning_engine_adapter.py` | `runtime`, two method sets | make the runtime, resolve, dispatch, stream | AdkApp, `services` | concurrent requests while the runtime is made or fails to be | only registered methods of a set-up runtime are called |
| Eval context refresh, `tests/eval/refresh_context.py` | traces files, dataset file | load, pin, patch, write twice | `agents-cli eval` | a kill between the writes, a newer traces file meanwhile, an older one named by `--traces` | dataset and patched traces show one snapshot; a context is replaced by its case's own payload only, and by an older one only if the script is pointed at an older file |
| Bigtable MCP toolset, `app/tools/bigtable_tool.py` | token in fixed headers | construct at import | Cloud Run | the token expires, the process does not | calls are authenticated |
| Data Agent toolset, `analytics_tool.py:55-95` | credentials | construct at import | ADK | fails at import | read-only |
| Configuration, `app/config.py` | environment, one cache | getters | everyone | precedence, blank and malformed values | total but for two mandatory values; blanks are as good as unset |
| Package import, `app/__init__.py`, `app/agent.py` | module globals | load environment, build toolsets, agent, telemetry | everyone | order | the process starts; telemetry never stops it |
| Services, `app/app_utils/services.py` | two cached instances | get | three surfaces | lazy connection, sharing, restart | the surfaces cannot be told from one store |
| A2A, `app/app_utils/a2a.py`; FastAPI app, `app/fast_api_app.py` | agent card, task store, Runner | attach, take a message, serve and modify the card | A2A clients | start in stages; modifier runs per GET; tasks and sessions are kept apart, and sessions can be deleted elsewhere | a task that ran has its session until that is deleted; it is known when the card leads to the sessions |
| Eval metrics, `tests/eval/metrics/` | none | verdict over a trace | traces | turn structure | the verdict agrees with the rule |
| MCP deployment, `Makefile`, `deploy/terraform/` | secret version, revision | publish, roll out | Cloud | version skew | tool names match |

The coordinator itself (`app/agent.py`) is an LLM under a system instruction:
what it says is outside any model. `PROJECT.json` lists every component with
its status, and every hazard with its line.

## 2. Modules

| Module | Models | Uses |
| :-- | :-- | :-- |
| `BoundedRetry` | the loop both tools share, as an abstract specification | |
| `RagRetrieval` | the pure part of the RAG tool: fault code, boost, rows of the two jobs, gate | |
| `RagContract` | what a RAG call promises, without jobs or attempts | |
| `RagTool` | `pos_troubleshooting_rag_tool` over a table that is reloaded | `RagRetrieval`; implements `RagContract`, `BoundedRetry` |
| `DataAgentRender` | one round of the loop of `_render_data_agent_response` | |
| `AnalyticsTool` | `cymbal_analytics_tool` and the service behind it | `DataAgentRender`; implements `BoundedRetry` |
| `ReasoningEngineAdapter` | `attach_reasoning_engine_routes`, over restarts | |
| `SharedStore` | what `services.py` promises, without surfaces or caches | |
| `Serving` | the process that serves: web routes, A2A endpoints, adapter, their services | `ReasoningEngineAdapter`; implements `SharedStore` |
| `Settings` | the getters of `config.py`, the stores of `services.py`, the address of `a2a.py` | |
| `ChunkStitching` | the JOIN of both SQL texts with the neighbouring chunks | |
| `RefreshContext` | `main()` of the refresh script, with crashes | |
| `Boot` | a process from its start to its end: environment, import, telemetry, project, MCP token | |
| `Operators` | a machine that chooses an environment to read or a search to stitch, so that the two modules without state have a specification | `Settings`, `ChunkStitching` |
| `MC...` | values for TLC | |
| `...Proofs` | theorems of the module they are named after | |

Operators whose comment begins with *Mutant of* are plausible bugs of the
definition that follows; none of them is used by a specification.

**RagTool.** `pc` is the place in the function: `vector` and `fulltext` stand
before the two jobs (`rag_tool.py:222`, `:259`), `backoff` in `time.sleep`. A job
reads the table at one instant, its action. `corpus` is the table, `Reload` the
ingestion pipeline (external). `seen`, `naps` and `reply` are histories. A chunk
is its rounded similarity per query, the codes it mentions and whether it quotes
the query; the text itself is not modelled, but `LIKE '%code%'` is containment,
as in the code. BigQuery is trusted to return the true `top_k`: the repository
creates no vector index. Every chunk is taken to be embedded. Where SQL leaves
an order open, every choice is allowed. Stitching of neighbouring chunks does
not influence which row is chosen; it is `ChunkStitching`, where a row is a
document, an index and a copy number, and a passage the sequence of rows whose
texts `STRING_AGG` puts together.

**AnalyticsTool.** `auth` and `waiting` are the two external calls of an attempt.
`running` is the service's side: the attempts it is executing. `Post` may lose
the request, `PostRaises` is the timeout or a broken connection at any moment
and does not stop the execution, `Discard` ends one nobody waits for. A response
is a sequence of steps; SQL, schema and rows are named after the statement they
belong to, so that a property can ask whether what is shown together belongs
together. A text block of several parts counts as several steps, since each
part is treated alike. The loop over the steps is taken round by round
(`RenderStep`), because any of them may raise (`RenderRaises`): that fails the
attempt, and `out`, the locals of the renderer, goes with it.

**ReasoningEngineAdapter.** The handlers are coroutines, so `get_runtime()` and
the lookup of the method are one step; the awaits before and after are where
requests interleave. `runtime` has three values because the code has: absent,
assigned before its set-up succeeded (`:53`), ready. `Restart` (external) takes
the runtime and every request with it.

**Serving.** `stage` is the start: `Import` is `fast_api_app.py:64-72`, where the
web routes resolve both `shared://` URIs, `Lifespan` is `:41-61`, and requests
come after it. `cached` is what `functools.cache` holds; `GetService` makes a
service only where it is empty, and an in-memory one is named after the surface
that happened to ask first. `EngineSteps` is a step of the adapter; the one that
completes its runtime connects it. `Crash` ends the process at any moment, the
start included. What ADK does with a service (creating and deleting a session,
keeping and deleting a file) is external, as are the two things trusted of it:
that the web routes resolve their services at import and that `set_up()` calls
the two builders. `Creates` and `Deletes` may come at any moment while the
process serves, in the middle of an A2A message too. Such a message takes two
steps: `Receive`, in which the request handler stores its task, and `Run`, in
which the Runner finds the session or makes it (`auto_create_session`,
`fast_api_app.py:50`). In between the session may be created, deleted or absent,
and a message whose executor fails is one that never runs. `deleted` is a
history: the sessions deleted and not made again since. A
session stands for the whole key under which ADK keeps it: the surfaces see
each other's sessions if their clients name the same app, user and id.

**Settings.** A text is opaque but for what `int()` and `float()` make of it.
`config.py` strips and skips blank variables (`Stated`); `services.py` and
`a2a.py` test the bare string (`Truthy`), so the two are kept apart. Scores are
in twentieths, as in `RagTool`.

**RefreshContext.** One action per file operation: `open(..., "w")` truncates
and is a step of its own, so that a crash can come between it and the dump.
`Generate` (external) may put a newer traces file beside the one in use; files
are numbered by their evaluation. `Load` takes any of them: a file named by
`--traces` is taken as it is, older or not (`refresh_context.py:77-78`), and of a
directory it is the last by name (`:79-82`), which is the newest if `agents-cli`
names its files so. The history `newest` says which case it was. `settled` is a
history too: the file that the last run patched, if that run has come to its end.
Two runs of the script at the same time are not modelled, nor are hands that edit
the files, which includes the repair of a truncated dataset: the script itself
stops at one (`:145`).

**Boot.** What a variable contains does not matter, only where it comes from: a
value is the source that set it (the process, `app/.env`, the file that the
default search of `load_dotenv` finds), and a variable may also be blank. `pc`
follows the import: `app/__init__.py:32`, `:33`, the two toolsets built by the body of
`agent.py`, telemetry, then `fast_api_app.py`. Whatever the environment does not
decide is a choice: whether `gcloud` mints a token, whether the Data Agent
toolset or the surfaces can be built, and which project the default credentials
report, a new answer each time they are asked. `get_project_id` is one step.
Threads that race in its first call could resolve it twice, since `lru_cache` does
not lock; the import, which has normally resolved it before, is sequential.
`TokenExpires` and `Stop` are external.

## 3. Runs

| Run | Asks | Bounds |
| :-- | :-- | :-- |
| `RagRanking` | may the exact chunk lose, and why; is a certain match answered | every table of up to 3 chunks of 15 kinds, `top_k` 2, one attempt |
| `RagReload` | are replies justified under failure and reload; are certain matches answered; contract and retry refinement; does every step count, do calls return | 1 call, 2 attempts, 2 reloads, tables of up to 1 chunk |
| `Analytics` | what is shown of every response, wherever it breaks off, and when it belongs together; executions, retries; does every step count, do calls return | 1 call, 3 attempts; up to 2 statements, both envelopes, null and empty SQL, text |
| `Serving` | one store behind three surfaces; tasks and sessions, deletions included; dispatch and termination over restarts | 2 requests, 2 routes, 2 methods, 1 session, any number of restarts |
| `Operators` | the settings of every environment; the passages of every search | families of up to 6 variables that are read together, 2 documents, 3 indices, 2 copies, 3 rows |
| `Boot` | which project a deployment works with; may telemetry stop a start | 2 project names, 1 URL name, 3 sources, 2 answers of the credentials, any number of restarts |
| `RefreshCrash` | files under crashes; what a repetition or an older traces file changes | 2 cases, 3 evaluations with their files, 3 runs |

Why the bounds are enough. Scores in `RagRanking` are twentieths at the
boundaries: 11 passes the gate of 14 with the exact boost only and exactly, 13
with either, 19 always, and the exact boost saturates it. Three chunks with
`top_k` 2 are the least for the cut to matter. Two attempts are the least for an
earlier one to leak into a later one, two reloads the least for gate and
fallback to see different tables and the answer a third; the chunks of `RagReload`
pass the gate or not and are found by the full-text search or not, in every
combination. Calls share nothing but the table, and those of the analytics tool
not even that, so one suffices; the proofs are for any number. Two requests of
the adapter are the least for one to come while the other's set-up has failed or
one is served, and sessions do not influence each other. Getters read at most
four variables, and those of one family are varied together; three rows are a
match with both neighbours, or with a copy of itself and a stranger. Three attempts are
the least with two back-offs, of different length. Two names are the
least for their order and the order of the sources to disagree. Three runs of the
refresh are a killed one, its repetition and one more; three traces files are an
older and a newer one, and one that comes while a run is under way.

The bounds that are in the specifications themselves are `MaxReloads`,
`MaxEvals` and `MaxRuns`. Deadlock is not checked where calls and requests are made
once each: a system that has answered them all has stopped; nor in `RefreshContext`,
where a kill may leave a dataset that stops the script.

Some runs are expected to end in a violation. Each checks a sentence of the
documentation that the code does not keep:

| Run | Sentence | What the code does |
| :-- | :-- | :-- |
| `RagNamedCode` | the exact code outranks (README, 2.2) | only the first match is boosted, and a hyphenated word matches |
| `AnalyticsTable` | the generated SQL and its data (`analytics_tool.py:186`) | first SQL, last table |
| `AdapterRegistered` | registered methods are supported (adapter, 17-22) | never again after a failed set-up |
| `BootMcpToken` | the MCP service is invoked with identity tokens (blueprint, 4.4) | one token, at import, from a `gcloud` that the image does not contain |
| `RefreshStale` | a re-run avoids stale snapshots (`refresh_context.py:26`) | cases without payload keep the old one |

Further observations made while modelling, which have no run of their own:

* exceptions of the prologue of the RAG tool (`rag_tool.py:192-197`) are outside its
  `try` and reach the caller, although blueprint 4.3 says none does;
* whether the card grows by an interface per GET (`a2a.py:56`) depends on whether
  the SDK hands out the same card each time, so the modifier is not modelled;
* with managed sessions, the tasks of the A2A path are still lost at a restart
  (`fast_api_app.py:58`); the other direction is `TasksHaveSessions`, from which a
  deletion of the session on another surface is the only exception;
* `refresh_context.py:77` takes an older traces file without a word, and the contexts
  go back to it; after a kill in `:176` the dataset is truncated, and the next run
  ends in `json.load` (`:145`);
* `a2a.py:121` wants the Runner to share the memory service, of which the lifespan
  gives it none;
* the comments at `services.py:47` and `a2a.py:94` say that the agent pins
  `GOOGLE_CLOUD_LOCATION`; nothing in `agent.py` does. Where the engine's region is
  not injected, the two fall back differently, and the card names the engine of the
  sessions only if `GOOGLE_CLOUD_LOCATION` is `us-central1`, as in `.env.example`:
  that is the boundary `CardLeadsToSessions` states. Where the region is injected
  but empty the card names `http://0.0.0.0:8000`;
* `README.md:78` gives the default of `LOCATION` as `global`; before it comes
  `GOOGLE_CLOUD_LOCATION` (`config.py:70`);
* `services.py` and `a2a.py` read the project from `GOOGLE_CLOUD_PROJECT` alone, not
  by the precedence of `config.py:44`;
* `TOOL_MAX_RETRIES` has no upper bound, and a threshold of NaN, which `float()`
  accepts, lets nothing through the gate;
* rows without column headers are reported as "no matching records"
  (`contracts.py:45`), and appear under the headers of an earlier statement if
  there are any; SQL of a later statement without rows appears over the earlier
  table (`analytics_tool.py:127-136`);
* because a hyphenated word matches the pattern, a query without any fault code is
  boosted too (blueprint 2.2 omits the boost for plain language);
* a permanent refusal is retried like a transient fault, which is what
  `config.py:156` calls the budget one for;
* a Data Agent toolset that cannot be built ends the process, although
  `analytics_tool.py:8-10` has the REST adapter as its fallback;
* real variables win over `.env` files name by name (`__init__.py:18-21`): a
  `GOOGLE_CLOUD_PROJECT` of the process loses to a `PROJECT_ID` of `app/.env`.
  `DeploymentFixesProject` states what does hold;
* `README.md:213` says that `.gcloudignore` excludes `app/.env`; it does not list
  it, and `.dockerignore` is what keeps it out of the image.

## 4. Fairness

`WF_vars(Step(c))` per call, and per request in the adapter. For the RAG tool it
says that a BigQuery job ends, well or badly, and that `time.sleep` returns.
The code puts no timeout on `.result()`, so the first half rests on BigQuery. For the
analytics tool the POST has its timeout of 90 seconds, and a response has an
end. The adapter needs that bodies arrive and that methods and their streams
end; `asyncio` resumes every handler whose await is over. In `Serving` that is
`WF(EngineSteps /\ Step(r))` per request, while the process serves; restarts are
not fair, and a request that one cuts off is over without an answer, as
`RequestsAnswered` says. Nothing is assumed of reloads, of the service, or
that any attempt ever succeeds; weak fairness per call is enough because a step
of a call, once enabled, stays enabled until the call moves.

## 5. Proofs

Every theorem is about the specification with arbitrary constants, under the
named `ASSUME`s of the module (`MaxRetries` is at least 1, which `get_max_retries`
clamps it to; `RetrievalAssumption`, `RenderAssumption` and `SettingsAssumption`
are typing and distinctness; tables are finite sets). Each invariant and action
property that a passing run checks is stated by a theorem.

**Retry discipline.**

* `RetrySafety`. The sleeps are a function of phase and attempt; the invariant
  adds that a sleeping call has an attempt left. It is proved of the abstract
  loop; `RagImplementsRetry` and `AnalyticsImplementsRetry` map each step of a
  tool to a step of the loop or a stutter, and `RagBackoff` and
  `AnalyticsBackoff` carry the invariant through these refinements to the tools.
* `StepsCount`, in both tools: `StepsLeft` is a natural number and every step of a
  running call lowers it, or leaves the call where it is. For the RAG tool it is
  two jobs and a sleep per attempt; for the analytics tool the stages of an
  attempt, and the unread rest of the response while it is rendered. This is the
  half of `CallsReturn` that needs no fairness: a call can wait, but not go round.

**RAG tool.**

* `RagSafety`. "The reply is justified" is not inductive: a call in the fallback
  must be known to have failed the gate in this very call (`GateInv`), and the
  history of a running call must end with the present table (`LoopInv`), so that
  the row a job returns is accounted for. `FallbackJustifies` and `GateJustifies`
  are the two steps that answer.
* `CoveredCode` follows from the invariant: a decline has an empty full-text
  result over one of the contents in the history.
* `ExactChunkRank`. The lemma `CutOff` counts: an exact chunk outside a `top_k`
  set has `TopK` others at least as similar; inside, the row chosen ranks at
  least as high.
* `CertainMatchAnswered` needs more than the invariant, which says of a call in
  the fallback that the gate *may* fail over a table it saw. `CertainMatch` shows
  that it cannot over a table with a certain match: the match is in every `top_k`
  set by `CutOff`, some row is chosen (`VectorRowExists`), it ranks at least as high
  (`RanksAtLeast`), and the gate is on the boosted score. That something is chosen
  at all is a fact about finite sets: a `top_k` set exists (`TopSetOfSize`) and has
  a row of maximal rank (`MaximumExists`). Both are proved by a minimal
  counterexample: `LeastExists` takes the least number with a property from the
  well-founded order on the naturals, for a set of numbers, not for an operator.
* `FirstCodeOutranks` is the boundary of the finding `RagNamedCode`: where the first
  word shaped like a code is the fault code of the query, what the documentation
  says is true. Everything the run finds comes down to `PrimaryCode`.
* `RagImplementsContract`. Every step is a step of the contract or a stutter, under
  the invariant.

**Analytics tool.**

* `AnalyticsSafety`. The service executes a question for attempts made only, and
  an attempt about to be posted is not under execution yet; nothing that was
  read of a response survives the failure of its attempt. `OneCall` reduces every
  step to the call that takes it.
* `ProseShown`, `SqlShown`, `TableOfItsSql`, `EmptyNotice`. All four follow
  from `RenderInv`: after n steps the locals hold `Kept` of these n. `AbsorbKeeps`
  is the step, one part per property. `SqlKept` names the step the SQL is from,
  because "the last data block" alone does not say what the next one adds to;
  `HeadersKept` and `RowsKept` are needed for the notice.
* `TableOfItsSql` is the boundary of the finding `AnalyticsTable`: with whole data
  blocks the SQL, the headers and the rows shown belong together, whatever SQL
  stands beside the blocks. `TableKept` and `TableSqlKept` are its parts of `Kept`.
  A block is whole if it has rows, their schema and their SQL; the observations
  above say what the others do.

**Serving.**

* `AdapterSafety`, `ServesAllOrNothing`. The method sets are a function of the
  runtime's state; refusing a registered method testifies to a failed set-up,
  calling one to a complete one, and neither survives a restart.
* `ServingRefinesAdapter`. A step of the process is a step of the adapter or leaves
  it alone, so both facts above hold in `Serving`, which `ServingDispatches` states.
* `ServingSafety`, `TasksSafety`. A connected surface has the cached service, and
  contents in memory belong to it; a ready engine is connected. `TasksSafety` adds
  that the session of a task that ran is known until it is deleted: `KnownAfterStore`
  and `KnownAfterRemoval` say what a creation and a deletion through any surface do
  to what is known, and a crash takes the task at least. With `HeldIsKnown`, every
  connected surface finds it.
* `ServingImplementsSharedStore`. The store of a kind is whatever is stored of it
  under any service, and the two lemmas above map creation and deletion to it.
  `HeldIsKnown` is the point: what an active surface sees in
  its own service is all there is.

**Settings and passages.**

* `BlanksChangeNothing`, `CardAndSessionsAgree`, `BudgetAlwaysUsable`. Facts about
  every environment, by cases on the names a getter tries. `CardAndSessionsAgree` is
  an equivalence: it says of the environments in which the card and the session
  store both name an engine when it is the same one.
* `PassagesStitched`. A passage is any order of the joined rows that does not go
  back in the index. The lemmas about orders say that it has every row once
  (`OrderIsOnto`), and that where no two rows share an index, as in a table without
  copies, there is exactly one: of at most three rows around a match it is written
  down and compared, without induction over sequences.
* `OperatorsSafety` puts them together for the machine of `Operators`, whose choices
  are environments and searches (`Inputs`).

**Refresh and start.**

* `RefreshSafety` and its corollaries. The invariant says of each stage what the
  run's copies and the files have in common, for whichever traces file the run was
  given: `AgeInv` for time, `TornInv` for
  truncation, `ContextInv` for what a killed run may leave, `RunInv` for what
  has been pinned and patched.
* `ContextsAdvance` needs of `AgeInv` that a file has payloads of its own evaluation
  only and that the dataset is not ahead of a run that was given the newest file;
  of a run over an older one it says that it writes that file's payloads and nothing
  else.
* `RerunSafe` wanted one more thing of `RunInv`: the run's copy of the traces
  differs from the file it loaded in patches only, as no other run writes it, so
  what a run pins and patches is what files that agree hold already.
* `BootSafety`, `OneProject`, `FixedProject`, `TelemetrySafe`. `EnvInv` says where the
  environment comes from at every stage, and that after the second `load_dotenv` it is
  what the deployment decided, which the third cannot change; `ProjectInv` says that
  the cached project is the environment's, if that has one, and the only one in use. That
  the log line of the telemetry cannot fail is `ProjectInv` at `announce`.

Model-checked only: `CallsReturn` of both tools and `RequestsAnswered`, because
TLAPS here proves neither `ENABLED` nor anything under fairness, and the
violations, which are counterexamples.

## 6. Not modelled

* Formatting, logging and wording; the 20-row limit of the rendered table; the
  events of a stream; capabilities, paths and card modifier of the A2A routes.
* ADK, the A2A SDK, BigQuery, the Data Agent and Cloud Run beyond what the code
  relies on. What the coordinator says and which tools it calls is up to an LLM
  under an instruction (`app/agent.py:32-286`).
* The eval metrics. Each verdict is a search for literal markers in a finished
  trace, without state; a model would be the function once more, and the unit
  tests enumerate its cases. Of interest to their reader: the metric of
  `clarification_before_unbounded_scan.py` looks at the calls of all turns and not
  at their order.
* The MCP deployment. `make mcp-deploy` publishes a new version of the secret
  before it rolls out a revision that mounts `:latest`; what a failure in between
  leaves is decided by Secret Manager and Cloud Run.
* Terraform, CI, packaging and the container, which are declarative, and the
  tests and documents, which were read.

## 7. Order of work

The retry discipline, the RAG tool with its contract, the analytics adapter, the
Reasoning Engine adapter, the refresh script and the life of the process came
first; then the serving process over its services, the settings, the stitching
of chunks, and the rendering step by step, which made its properties provable.
After that came the proofs. What is left would be a model of how ADK dispatches
tools, with and without a thread per tool, once that is part of the repository.

A new question gets a run of its own only when no run that exists can ask it:
small modules are checked together, by one MC module that extends both.
