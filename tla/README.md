# NinjaTradeBuilder: specification

TLA+ models of NinjaTradeBuilder, the program that takes a futures contract's
market packet through a staged evaluation by a language model, and of the
deterministic checks around it. The models are written from `src/`; TLC checks
them on small instances and TLAPS proves the main results for all values of the
constants. `PROJECT.json` lists the runs, the mutants that show each property
can fail, the hazards the properties are aimed at, and the source lines of every
definition.

Check one run with `tlc -config MCPipeline.cfg MCPipeline`, the proofs of a
component with `tlapm PipelineProofs.tla`.

## 1. The system

File names are relative to `src/src/ninjatradebuilder/`.

| Component | State it keeps | Operations | Talks to | What makes it correct |
|---|---|---|---|---|
| Evaluation pipeline (`pipeline.py`, `validation.py`) | locals of one `run_pipeline` call | coerce the packet; Stage A+B, C, D; return at the first no-go | prompt runtime | a trade decision only on a full chain of valid outputs of one contract; stages once and in order; a result or an exception; it ends |
| Prompt runtime (`runtime.py`, `prompt_assets.py`) | none | check the contract scope, render, ask, validate, match exactly one boundary | adapter, schemas, Watchman | nothing of another contract or another stage gets through |
| Gemini adapter, configuration (`gemini_adapter.py`, `config.py`) | client, timeout, attempt budget | send, unwrap the envelope, wrap provider errors | the provider's SDK, which retries | bounded attempts; no malformed answer passes |
| OpenAI and in-process adapters (`openai_adapter.py`, `adapters.py`) | client | the same interface | SDK; a callable | as above |
| Stage output schemas (`schemas/outputs.py`) | none | model validators | prompt runtime | an output is consistent in itself |
| Input schemas (`schemas/inputs.py`, `packet.py`, `contracts.py`, `cl.py`, `triggers.py`) | none | validators of packets and triggers | everything that reads packets | the parts of a packet belong together |
| Watchman (`watchman.py`) | none | one context from packet, evaluation time, trigger | runtime, facade | no lockout that holds is missed |
| Readiness conversion and facade (`readiness_adapter.py`, `execution_facade.py`) | the bundle it is handed | sweep a bundle; run readiness or the pipeline for one contract; the same with logging | Watchman, pipeline, run history | one context per contract of the bundle, all or none; logged is what happened |
| Readiness web server, verification (`readiness_web.py`, `readiness_verify.py`) | none; artifact file | one request; one sweep over the contracts | runtime, adapter | the status says who is at fault; one bad contract does not stop the rest |
| Operator command (`cli.py`, `audit.py`) | the audit log, an append-only file | configure, load, evaluate, audit, print | pipeline, file system | what the operator is told is on record |
| Audit report (`audit_report.py`) | reads the log | load, count, print | audit log | counts every record, or refuses |
| Run history (`logging_record.py`) | a second append-only file | append, read and skip what cannot be parsed | facade, notebook | nothing acknowledged gets lost unnoticed |
| View models, notebook (`view_models.py`, `notebooks/`) | none | card, progression, difference of contexts | facade, run history | a blocked contract is shown as blocked |
| Packet compiler (`packet_compiler/`) | packet and provenance files | fetch, derive levels, validate, write | data services, files | derived levels are what their definition says; packet and provenance match |

### What is hard about it

The program has no threads: every command runs top to bottom. What is hard lies
in five places.

* **The model provider answers anything.** Each stage accepts a payload by the
  schemas alone; the boundary the provider declares is not compared with the one
  that matched. Requests are retried under the adapter.
* **Data has an age.** Packets, the account report and the event minutes inside a
  packet are all taken at different moments and compared as if they were one.
* **Several commands share files.** Runs in several terminals append to the same
  audit log or run history with one or two writes per record and no lock, and may
  be interrupted between them; compile runs write packet and provenance in place,
  while a verification sweep reads the packets again for every contract.
* **Derived numbers have boundaries.** Sessions, lookback windows, value areas and
  the Watchman's labels all turn on which bar or level still counts, on days that
  open late or trade thinly, and on answers that are of different moments.
* **Steps of one command fail one by one**: configuration, packet, three prompts,
  audit record, output. What is visible after each failure is what an operator
  acts on.

## 2. Modules

| Module | Models | Kind |
|---|---|---|
| `StageOutputs` | the four stage outputs and their validators (`schemas/outputs.py`) | pure operators |
| `PromptRuntime` | prompt registry, contract scope, answer validation (`runtime.py`, `prompt_assets.py`, envelope of `gemini_adapter.py`) | pure operators |
| `AbstractEvaluation` | what one evaluation promises its caller | abstract specification |
| `Pipeline` | one `run_pipeline` call with the provider as environment | detailed specification |
| `Readiness` | one call of `run_readiness`: trigger, refusal, answer, exception (`runtime.py`, `schemas/outputs.py`) | pure operators |
| `ReadinessDesk` | the verification command and the web server around it (`readiness_verify.py`, `readiness_web.py`) | specification |
| `Watchman` | what can lock a contract out, awareness, refusals (`watchman.py`) | pure operators |
| `WatchDesk` | clock, events, account, bundle and operator around the Watchman (`execution_facade.sweep_watchman`, `readiness_adapter.py`) | specification |
| `MarketRead` | the Watchman's labels of prices, ranges, volume and delta (`watchman.py`) | pure operators |
| `MacroRead` | the Watchman's macro state of ES, NQ, CL and 6E (`watchman.py`) | pure operators |
| `ProfileLevels` | the sources' copy of the value-area algorithm (`packet_compiler/sources.py`) | pure operators |
| `ValueArea` | the compiler's copy, step by step (`packet_compiler/es.py`) | specification |
| `HistoricalSource` | sourcing a session from Databento while the market trades, and deriving its fields (`sources.py`, `es.py`) | specification |
| `SessionRead` | the same with the Watchman reading each packet | composition |
| `PacketCompiler` | runs of the compile command: inputs, packet, provenance, files (`packet_compiler/cli.py` and the six compilers) | specification |
| `JsonLines` | a JSON-lines file as its writers leave it, with a strict and a skipping reader (`audit.py`, `audit_report.py`, `logging_record.py`) | pure operators |
| `OperatorCli` | any number of `cli.run_cli` runs sharing an audit log | specification |
| `RunHistory` | callers of the facade sharing a run history, and the views of it (`execution_facade.py`, `logging_record.py`, `view_models.py`) | specification |
| `MC...` | constants for TLC | model checking |
| `...Proofs` | theorems about the module they are named after | proofs |

`StageOutputs` <- `PromptRuntime` <- `Pipeline` by EXTENDS; `Pipeline` instantiates
`AbstractEvaluation`; `WatchDesk` extends `Watchman`; `ReadinessDesk` extends
`Readiness`; `HistoricalSource` extends `ProfileLevels`, which `ValueArea`
instantiates; `SessionRead` extends `HistoricalSource`, `MarketRead`
and `MacroRead`;
`OperatorCli` and `RunHistory` instantiate `JsonLines`.

### Pipeline

`packet` is the argument of `run_pipeline`: a mapping, which is validated, or an
instance, which is not, and whose parts may disagree since the class is mutable.
`stage` and `call` are the program counter (`stage`: which prompt; `call`:
before, during or after the provider call), `contract_analysis` and
`proposed_setup` the locals, `result` and `error` the two ways out, `attempts`
the SDK's count and `requests` a history variable. One action per exit of the
code: `CoercePacket`/`RefusePacket` (`_coerce_packet`), `SendRequest`/
`RefuseScope` (`execute_prompt` up to the call), `RetryAttempt`,
`ProviderFails`, `ProviderAnswers` (adapter and SDK), `RejectAnswer` (envelope,
schemas, contract), and the six returns and continuations of `run_pipeline`.

A payload is a record of the fields the validators and `run_pipeline` read, with
lists and texts reduced to what a validator asks of them (empty or not, in order
or not). An answer that is not an envelope, an envelope without its fields, an
undeclared boundary, a payload that is no mapping or of no schema are each a
shape of their own, because each raises a different exception.

### Readiness and ReadinessDesk

`Readiness` is one call: `Normalizes` (which triggers pass), `Refusal` (the exception
before anything is asked), `Validates` (the validators of
`ReadinessEngineOutput`, in the code's form: a gate map, a rule for the trigger,
one branch for each status) and `AnswerError`. Exceptions are named by class;
the two ValueErrors of `execute_prompt` that the command tells apart by their text
have names of their own. `ClassifyFailure` and `StatusOf` are the two ways to
report one, in the order of the code's tests, which matters because nearly all
of the classes are ValueErrors.

A behaviour of `ReadinessDesk` has the command or the server at work (`user`), since
the two share no state. The command checks its arguments (`RefuseArgs`),
configures, and for each contract loads the inputs from the file as it is at that
moment (`Load`, `LoadFails`), asks, and records a result; `Recompile` replaces the
file at any moment between. `WriteArtifact` and `PrintArtifact` can fail. The
trigger file is taken to be constant during a sweep. The server accepts one
request after another; a request may stall (its client sends less than it
announced) and then hang up.

### Watchman and WatchDesk

Time is counted in minutes and packet ages, windows and hours are compared as in
the code. `Context` is the whole of `build_watchman_context_from_runtime_inputs`
as far as lockouts, awareness of time, visuals, events and positions, missing
inputs and the recheck trigger go. The three labels of a price-level trigger are one
here and told apart in `MarketRead`. In `WatchDesk` the clock ticks, the account trades,
wins and stops out, and, in any order with these, the operator renews a packet or
the account report and asks for contexts - of the whole bundle (`SweepWatchman`,
evaluated at each packet's own timestamp) or of one contract through runtime
inputs (`WatchContract`, evaluated now). `packets[c]` is what the bundle holds of
a contract; `calendar` and `account` are how things really are.

Assumed of the world: when a packet is made its minutes to and from an event are
right as of its timestamp (`Listed`, from the EIA source that counts them; the
compiler does not compare the two times). Which events a packet lists is left open: the calendar from some event on
(`PacketOf`), which is all of it where the operator writes it (ES, ZN), EIA alone in a compiled CL packet, and nothing
in those of NQ, 6E and MGC, whose sources leave `event_calendar_remainder` empty (`sources.py:1325, 1513, 1744, 1935`).
What is promised of real events is promised of those a packet lists; of a release it was not told of the Watchman says nothing.
The limits of `challenge_state` do not change during a day. The visuals of a
bundle are shared in the code and per packet in the model, which only affects
awareness flags.

### HistoricalSource and SessionRead

The market trades a `tape`, a function from half-minute instants to trades, which
nobody knows in advance. A run of the source asks for bars (`GetBars`), then for trades
(`GetTrades`), and for ES a third time for its delta (`GetDelta`), with time
passing before each request; each answer holds what had been traded when it was
given. From there on it is deterministic: sessions are the bars inside the window, the lookback the last
sessions there are, the matched windows and profiles as in the code, and one
`Load` action for each contract's source, since the windows and the ends of the profile
differ. A refused session is a state of its own. `Again` lets the operator
compile again and keeps the last packet. A quotient is the record of its two numbers, so
thresholds are compared without rounding, with one exception that a market can reach: the average range of 6E, which
the code rounds to four places where its tick is half of the fourth (`EvenTicks`). A half may go either way with the
floats, so `HalvesUp` leaves it open for each tape. Left out are the rounding of VWAP, of volume's quotient and of macro quotients
to four places or more, and the last bit of a float at a threshold. All windows are in one time zone, and the
45 days the query goes back always hold the lookback. The checks for zero volume cannot fail, as every
trade has a size.

`SessionRead` adds what the Watchman says of each packet: of its prices (`MarketRead`) and
of the contract's own field, with whatever the operator typed beside it (`MacroRead`; a text is what the code looks for
in it). NQ is measured against an ES that the market answers with (`Comparisons`): two quotients are compared by their
cross products, taken so that ES's side is positive, and there is no packet for an open of zero. Neither half
looks at more than one packet; the properties go from the tape to the
label, and from packet to packet.

### ValueArea

`ProfileLevels!DeriveProfileLevels` is the algorithm of `sources.py` as a recursive
function, `ValueArea` that of `es.py` as a specification with one step per loop iteration;
`CopiesAgree` compares them. Distances to the midpoint are doubled to stay whole.

### PacketCompiler

A value is the input it was read from: a packet is a set of pairs of field and
input, its provenance a set of pairs of field and source named, each written down
from its own place in each of the six compilers. A run loads its inputs in the order of its branch of
`run_cli`, any of which may be refused, compiles, and opens and writes the two files; a
run may be cut short anywhere, and a packet may not be encodable. A file is
the set of what has been written to it since it was last emptied. The EIA may publish
while runs load (`Publish`). Directories are created silently and left out.

### JsonLines, OperatorCli and RunHistory

A log is the sequence of the writes the operating system saw, each a whole
line, a record without its newline, a newline, or a torn part of a record. A text
file is buffered by Python (8 KiB): a shorter record reaches the file with its
newline in one write when the file is closed, of a longer one the body goes
first. In `OperatorCli`, `AppendLine`, `AppendBody`/`AppendNewline` and `AppendFails` are these
cases; an interrupt between the two writes still closes the file and so flushes
the body. `Fail` is an exception that `run_cli` catches, `Escape` one that it
does not. `exit` tells the two codes and the reasons for code 2 apart, as the
operator can from the message. `RunHistory` writes a record in one piece
(`append_log_record`), which may still be cut short, and reads with the reader
that skips. The evaluation before the first record is one step: it reads nothing that
another caller can change. `sweep` keeps the contexts of a caller's last
sweep, so that the card (`CardStatus`), the record (`WatchmanStatus`) and the difference of two
sweeps (`Diff`), each computed by code of its own, can be compared.

## 3. Runs

| Run | Checks | Instance | Distinct states |
|---|---|---|---|
| `pipeline` | `TypeOK`, `AuthorizationIsEarned`, `SingleContract`, `PromptOrder`, `FailClosed`, `Terminates`, `DepartsOnlyAtReady` | ES and NQ, 1 retry, every ES payload the validators can tell apart and every valid NQ one | 662,524 |
| `readiness` | `TypeOK`, `PassedIsSound`, `ExitTellsArtifact`, `BlameIsRight`, `DoctrineKept`, `Finishes` | two contracts, one retry, nine files, three triggers, all arguments, all requests; outputs with up to two gates that do not pass | 45,395 |
| `watch_day` | `OnlyTimeReleases`, `ClearMeansOpen` | one contract, over a 7-minute day and past its end, four calendars, packets that list all, some or none of one, feed ahead of the clock | 294,564 |
| `watch_account` | `TypeOK`, `TradeLimitIsShared`, `ClearMeansWithinLimits` | two contracts of one account, three trades, wins, stop-outs, late and incomplete reports, packets that validate | 319,029 |
| `value_area` | `OneRunAroundPoc`, `SeventyPercentAndNoMore`, `CopiesAgree`, `Returns` | every profile of up to five levels with volumes 1 to 3 on three price ladders | 4,643 |
| `session_read` | `OnlyTheMarketIsRefused`, `PacketCoheres`, `ReadingFitsTape`, `AverageDayReadsAverage`, `EarlierPacketsStand` | five contracts, seven tapes of four ten-minute days, two compilations at any moment of the last session | 20,843 |
| `packet_compiler` | `ProvenanceTrue`, `PairMatches`, `FailedRunKeepsFiles`, `EiaNeverGoesBack` | two runs, thirteen command lines, four paths | 165,463 |
| `cli_runs` | `TypeOK`, `ToldIsRecorded`, `LossHasACause`, `ReportsOnlyGrow` | three audited runs | 734,140 |
| `run_history` | `TypeOK`, `ReturnedIsShown`, `LogTellsSweep`, `ReturnedStaysShown`, `NoSilentChange` | two callers, two contracts, three calls | 1,334,603 |

What the properties say (in full in the comments that precede them):

* `AuthorizationIsEarned`, `SingleContract`, `PromptOrder`, `FailClosed` - whatever the
  provider sends and whatever the packet object looks like, a decision at Stage D rests on three valid outputs
  of the packet's contract, asked for once each and in order, and a no-trade or a
  failure carries nothing of a later stage.
* `Terminates`, `DepartsOnlyAtReady` - the run ends. The abstract
  evaluation is the documented one: a funnel that is only walked forwards, with the verdicts that
  belong to each stage (READY is none: it goes on to Stage B) and a bounded number of attempts.
  Whatever the provider sends, `run_pipeline` leaves it in one step only, the return at a gate that says
  READY. That it implements the evaluation with a provider that sends no such gate, as the adapter's instruction asks,
  is a theorem (`PipelineRefinesEvaluation`).
* `DoctrineKept` - the validators accept exactly what `docs/readiness-engine-v1.md` lets a
  readiness output say; `PassedIsSound` - nothing else passes a sweep or is answered 200,
  and only for the contract asked about, from an input of that contract.
* `ExitTellsArtifact`, `BlameIsRight`, `Finishes` - exit codes 0 and 1 are about the
  artifact on the disk; the command blames the provider for exactly the calls that asked and in the end got
  nothing, or no envelope that can be read, and the input only if nothing was asked; a sweep ends, and a
  request that was sent whole is answered. (The server blames otherwise: see `provider_blame` below.)
* `ClearMeansOpen`, `ClearMeansWithinLimits` - the Watchman's promise against the real world: no lockout
  flag means inside the hours and clear of the real events the packet knows of (up to the age a packet may
  have) and, if the report is up to date, short of the daily loss stop, of both trade limits and of the
  position size, and out of the cooldown.
* `OnlyTimeReleases` - of one bundle, a later evaluation keeps every lockout but
  those of the hours and the cooldown.
* `TradeLimitIsShared` - the day's trade limit locks all contracts, and stays.
* `OneRunAroundPoc`, `SeventyPercentAndNoMore`, `Returns`, `CopiesAgree` - the value area is one run of levels
  around the point of control with 70% of the volume, the last level was needed, the loop ends,
  and the two copies give the same.
* `OnlyTheMarketIsRefused`, `PacketCoheres` - the bars a source hands on fit together at
  every moment of every tape; a packet's price, VWAP and value area lie in the
  range its bars have shown, up to trades that came in between the requests.
* `ReadingFitsTape`, `AverageDayReadsAverage` - what the Watchman says of a packet
  fits what was traded: no price at its session's top is below value or VWAP, no level
  far away is touched, a session that only bought and rose agrees upwards; ES is aligned with its breadth only in
  the direction it was traded, a Nasdaq that rose against ES is fragile only through its megacaps, CL's compiler and
  the Watchman, which each measure the range against the average one, agree on a wide day, and a 6E price is
  flagged outside Asia's range when it is. A day like every other reads as average at every minute - of 6E, whose
  average range is rounded to four places, in its range only if that is seven ticks or more: five ticks against
  an average of four read as expanded.
* `EarlierPacketsStand` - from one packet of a session to the next, what lies behind is
  unchanged, and the initial balance is final after its hour.
* `ProvenanceTrue`, `PairMatches`, `FailedRunKeepsFiles`, `EiaNeverGoesBack` - the provenance names the input of
  every field except one a service replaced (which still names the extension file); when a packet can lie beside
  a provenance that is not its own; what a failed run leaves; the EIA's answers do not go back.
* `ToldIsRecorded`, `LossHasACause`, `ReportsOnlyGrow` - what the operator saw is
  in the log once; only a run that was cut short or wrote a long record can make a
  record unreadable; a report never counts less than before, it refuses.
* `ReturnedIsShown`, `ReturnedStaysShown`, `LogTellsSweep`, `NoSilentChange` - a returned record is shown,
  then and later, unless the write before it was cut short; what the log holds of one sweep is a prefix of its
  contracts in sorted order, each once, all but the last as whole lines; each record has the status of its
  contract's card; no status changes without a difference.

Where the code disagrees with a test, a document or a comment on it, a
run finds the counterexample (the quotes are in `PROJECT.json`):

| Run | Claim | What the code does |
|---|---|---|
| `lockout_state` | `event_risk_state` and the lockout flag go together | the last event that is not clear decides the state |
| `gate_ready` | a gate that says READY is followed by Stage B | `run_pipeline` returns, with READY as the final decision |
| `provider_blame` | a failing provider is answered 502 | its exception is a ValueError, for which the clause before answers 400 |

Documents and comments disagree with the code in five more places, which the models show and
no run is spent on: the size of a REDUCED
authorization is not compared (`docs/user-workflow-narrative.md:170`); a sweep evaluates a stale packet at its own
time (`docs/edge-case-validation-matrix.md:164`; `SweepWatchman`); an exception outside the except clause of `run_cli`
leaves no audit record (`docs/operator-quickstart.md:1156`; `Escape`); a trigger that was validated, but whose recheck
time has no offset, raises TypeError (`schemas/triggers.py:48-52`; `Refusal`); exit code 2 of a verification may come
after a finished sweep (`docs/operator-quickstart.md:118`; `WriteArtifact`, `PrintArtifact`).

### Bounds, and why they are enough

* `Scores {0,4,6,7}`, `Conflicts {0,2,3}`, `Sizes {0,1,2}`: one value on each side
  of every threshold of the validators. Two contracts are enough to mix two up;
  a contract enters only by equality. The six-contract prompt table is covered by
  the proofs, which hold for every set of contracts. `MaxRetries` 1: below and at
  the last attempt.
* `readiness`: two contracts, of which one has the fixture; a file of every shape,
  with bundles that lack a contract, hold a wrong one, or one that does not
  validate. A status lets one gate be other than PASS, so two that are not are one more than any allows.
* Days of 7 minutes with hours 1 to 5, a threshold of 1, windows of 2 and 3, wind-down 2,
  elevated window 4: every comparison is reached from both sides, and `Horizon` 8 goes past
  midnight into the next day's hours. `watch_day` has no trades, as its properties are about the clock and the calendar;
  `watch_account` shortens the day and has no releases, since it is about the account. Its limits (`AccountLimits`: loss
  stop 2, two trades of a contract, three of the day, size 1, cooldown 2, and a `TradeBound` of 3) can each be met by a
  contract while no other is: the loss stop and the day's count by trades of the other contract, the contract's own by
  trades closed at a profit, the size by one open trade, the cooldown by one stop-out. The contracts are alike, so
  permuting them is sound; so are the runs of `cli_runs` and the callers of `run_history`.
* `value_area`: five levels leave two on either side of a point of control, and the ladders
  put the midpoint on, between and beside levels.
* `session_read`: sessions of three to four minutes, a lookback of two of three prior days,
  an initial balance of three minutes. The tapes are steady, alike every day,
  rising, falling, thin with a holiday, with an early close and a late open, quiet in Asia
  with a trade that has no side, and flat on the day before: between them every refusal and every
  premise of a property occurs. The tapes are samples; for all tapes the same properties are
  theorems (section 4).
  ES moves little, up or down against NQ; two megacaps suffice for a majority and a tie; London closes before 6E's window opens.
* `packet_compiler`: two runs on the same pair of paths, other ones, a shared provenance
  path, and one path for both files; every compiler, with and without its services.
* Three runs on one log: a victim, a culprit, and a bystander whose line they may
  join; in `run_history` three calls for the same reason.

### Fairness

`Pipeline` and its abstraction state `WF_vars(Next)`: the code
between two provider calls is sequential and never waits; a call ends because the
HTTP client has a timeout for every attempt, after which the SDK retries or
raises. Which of the outcomes it is, is left open. `ReadinessDesk` states `WF_vars(Program)`, for the
same reasons and for the program's steps only: nobody makes a client send what it announced, or go away,
so a stalled request may hold the server for ever, and `Finishes` does not say
otherwise. `ValueArea` is a loop and fair to its steps. The other specifications have
safety properties only, since an operator may stop at any time, and requests to the data
services have no timeout. Deadlock checking is off
where a run of the program may be over.

## 4. Proofs

Each proof module extends its component and TLAPS. The assumptions are those
declared with the constants (sets of the right kind, and a `Null` outside them);
TLC evaluates them in every run.

**`PipelineProofs`** - for all contracts, payload pools and retry budgets.
`IInv` is `TypeOK` with: `ScopeSettled` (once a request was sent, the parts of the packet
agree), `CallDiscipline` (which calls go with which stage and attempt count),
`Chain` (the locals of a stage are the valid, favourable outputs of the earlier
ones, of the packet's contract), `RequestsBehind` (how many requests were sent by
each stage) and the four properties. The properties alone are not inductive:
nothing in them says that the local kept from Stage C is valid until the result is built from it.
Theorems: `TypeCorrect`, `AuthorizationEarned`, `ContractsNeverMix`,
`PromptsInOrder`, `FailsClosed`; `LeavesTheFunnelAtReady`: for any payloads, every step maps to an abstract step,
to a stutter or to the return at a READY gate; and `PipelineRefinesEvaluation`: if no payload is a READY gate, the
initial state maps to the abstract one and every step to an abstract step or a stutter.

**`ReadinessProofs`** - for all contracts, answers, files and triggers. `OutputsKeepDoctrine` first:
the validators, branch by branch, say what the documentation says
(`ValidatesDoctrine`, which holds of every output and needs no invariant). Then `IInv` is
`TypeOK` with `Working` (who is at work, with valid arguments past the checks), `Asking` (a call that asks runs on
a whole input of the contract it was made for) and `PassedIsSound`. `Asking` is what the
property lacks: it connects the file as it was when the input was loaded with the answer that comes
later. Theorems: `OutputsKeepDoctrine`, `TypeCorrect`, `PassedSound`,
`BlameFits` and `ExitIsTold`. The last needs more: `Swept`, that the results are those of the first contracts in
order and `todo` the others, and that the artifact on the disk is whole when it is printed.

**`WatchDeskProofs`** - for all calendars, limits, hours and thresholds. `IInv` is
`TypeOK` with `ListsCalendar`: a packet lists the end of its contract's calendar, all of it, some or none, as of
its timestamp. This is what connects the minutes the Watchman compares
with the events `ClearMeansOpen` speaks of; the age check then bounds their
error. Theorems: `TypeCorrect`, `LockoutsOnlyGrow`, `ClearIsOpen`, `ClearIsWithinLimits` (all five limits), and
`TradeLimitShared`, from the invariant that neither the account nor a report of it
ever falls behind a context that was locked out for the limit.

**`ValueAreaProofs`** - for all profiles of any length. `IInv` is `TypeOK` with `OneRunAroundPoc` and
`Ordered`, that the levels returned are in order: the answer is read from the indices
collected, so it needs the run. Theorems: `TypeCorrect`, `AreaIsOneRun`, `LevelsOrdered`; `AreaHoldsItsShare`
(`SeventyPercentAndNoMore`), from `Accounted`, that the cumulative volume is the sum over the area and the last level
was taken in below the target, and `Reached`, that the whole profile meets it; and `CopiesAlwaysAgree`, from
`Copied`, that after as many steps as levels were taken in the recursion of `ProfileLevels` has the loop's area.
Sums are folds and the copy is a recursive function. No rule of induction is available for either, so both are
reasoned about through a smallest counterexample: a least subset whose sum is wrong (`SumStep` and the lemmas after
it), a least step at which the two differ.

**`SessionReadProofs`** - for every tape, not the seven of the run, every window, any number of prior sessions, and
any operator's levels and comparisons. What the code fixes is assumed: a window ends before midnight and NQ's is that of ES (`WindowAssumption`), lookback and
initial balance are not empty (`CalendarAssumption`), Asia begins with the day, and it and London are over
before 6E's own window (`SegmentAssumption`, `sources.py:66-71`), the megacaps are finitely many (`MegacapAssumption`).
The invariants, in the order they build on each other:

* `BarsOK`: what was received is of the tape, and the bars have every minute traded before their last. With the counting of
  the last sessions (`LastAreAsMany`) this gives `SourcesPassTheChecks` (`OnlyTheMarketIsRefused`).
* `Sourced`: from its load on, a run's input and packet are the fields of exactly the bars and trades received. The sums are within
  their bounds (`AverageWithin`), the levels of a profile are among its prices (`DerivedAreLevels`), and a trade of the
  profile is in a minute that has a bar unless it overtook the bars (`TradesHaveBars`): `PacketsCohere`.
* `Follows`: the trades asked for after the bars have all that the bars have; and `Stands`: the last packet has each
  field as the tape has it up to its timestamp, whatever of it has been received since (`AsTraded`). Two packets of a session are then two
  readings of one tape, the later of more minutes: `EarlierStand`.
* `Signed`: a delta has the sign that every trade has, if they have one; and `Derived`: each contract's own
  fields are of its bars. With the lemmas on `MarketRead` and `MacroRead`: `ReadingsFit`.
* `MarketMoves`: a run that has a source has prior sessions that moved. A day moved by whole days (`TradesMoved`,
  `SessionMoved`, `MatchedMoved`) has the same volume, range and profile, so each average is of equal numbers, 6E's up to
  one tick of rounding: `AverageDayIsAverage`.

**`PacketCompilerProofs`** - for any number of runs, any options and paths. `TypeCorrect` covers the six
tables of fields; `FailureKeepsFiles` rests on `Untouched` (before its first
open a run has written nothing and has its own files as they were, and with the packet opened
only that one is emptied); `AnswersNeverGoBack` on `Told` (who was told the figure is out was told after
it was published). `PairsMatch` rests on `Paired`, which connects the pieces of a file with the runs that wrote them: while an undisturbed
run writes, it is alone with its paths, and as whoever comes after empties the packet first, a packet that is still there shows that nobody has.
`ProvenanceCorrect` compares the two tables of each of the six compilers, field by field, for every command line.

**`OperatorCliProofs`** - for any number of runs. `IInv` is `TypeOK` with
`Ordered` (what each phase has and has not written) and `Explained` (an unended line
is of a run that disturbs). Theorems: `TypeCorrect`, `ToldRecorded`,
`LossExplained`, and the action property `ReportsGrow`, by showing that a write can
join or end a line but never part what shares one.

**`RunHistoryProofs`** - for any number of callers, contracts and calls. `IInv` is `TypeOK` with `Numbered` (no two calls have
one number), `Queued` (what a call has still to append is its own, of contracts after those it logged, in order, with the
status of its sweep), `Clean` (a call that goes on has written whole lines only) and `Returned`, and with
two parts of `LogTellsSweep`, the order and the status of the cards; `Firsts` adds that before a contract of a sweep that is logged or
queued all smaller ones are logged or queued. That no record is written twice follows from `SweepsInOrder`; `ReturnedStays` needs it to know that the
line that is read is the one that was written. Theorems: `TypeCorrect`, `ReturnedShown`, `LogTells`, `ReturnedStays`, `DiffTells`.

Every invariant and every action property of a passing run is a theorem. Only model-checked: `Terminates`,
`Finishes` and `Returns` (liveness is beyond the prover), and the three counterexamples.

## 5. Not modelled, and the plan

Never: prompt texts and their rendering, the web page, argument parsing, the layout of
reports and cards, the wire formats of the data services, the delays between retries, the OpenAI
adapter (no command constructs it), the in-process test double, and the notebook,
which is not under `src/src`.

Left out so far:

* of the Watchman, the macro states of ZN and MGC and the opening label, which depend on
  the operator's texts and on yields and calendars of other services, not on what was traded: they set awareness flags and can lock nothing out;
* of the input schemas and the packet compiler's models, the plausibility checks of
  single fields (signs, a low below its high, texts that are blank);
* of the audit report, the counting.

Next, in this order:

1. the macro states of ZN and MGC, and the opening label, as operators beside `MacroRead`, and what they may
   say as parts of `ReadingFitsTape`;
2. the checks of single fields that the input schemas make, where a derived packet could fail them.
