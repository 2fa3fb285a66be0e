# A formal model of privacy-guard-proxy

TLA+ modules, TLC configurations and TLAPS proofs for `privacy-guard-proxy`, the
local reverse proxy that replaces personal data and secrets in requests to the
Anthropic API by placeholders. Paths below are relative to `src/`.

## The system

| Component | Code | State it keeps | Operations |
|---|---|---|---|
| Scanner | `internal/detector/scanner.go` | none between calls; the variables of one call | `NewScanner`, `ScanWithWhitelist` (detect, filter, resolve overlaps, number, edit) |
| Detectors | `internal/detector/*.go` | none; four of them loop over check digits | fourteen functions from a text to findings |
| Guard | `internal/proxy/guard.go` | scanner and configuration under an `RWMutex`, one per proxy | `Apply`, `UpdateConfig` |
| Start, registry | `main.go`, `internal/proxy/server.go` | the guards by port, under `guardsMu` | `main`, `RunProxy`, `RegisterGuard`, `UpdateGuardConfig` |
| Request pipeline | `internal/proxy/server.go` | one request | `handleRequest` |
| Metrics | `internal/proxy/metrics.go` | atomic counters | `RecordMetrics`, `MetricsText` |
| Logger | `internal/proxy/logger.go` | a log file with its size, and the one before it | `NewLogger`, `Write`, `rotate` |
| Settings | `internal/proxy/config.go`, `internal/api/ui.go` | `config.json`; nothing in memory | `LoadConfigs`, `saveConfig` and six handlers that load, change, save (and apply) |
| REST API | `internal/api/server.go` | runtime settings under `rtMu`, rate windows under `rtRateMu` | `rateLimit`, `apiKeyAuth`, `handleScan`, `handleAnonymize`, `applyRuntimeConfig` |
| Sessions | `internal/api/ui.go` | session tokens under `sessionsMu` | login, logout, password change |
| Pages, log viewer | `internal/api/ui.go` | none | HTML pages, `tailLog` |

How they interact. `main` reads `config.json` once, starts one goroutine per
proxy and one for the API. Every HTTP request runs in a goroutine of its own:
a proxied one calls `Guard.Apply`, which calls the scanner once per string of
the body; `/scan` and `/anonymize` pass the rate limit and the key check and
call a scanner of their own; a settings request rewrites `config.json` and then
`applyRuntimeConfig` replaces the runtime settings and calls `UpdateConfig` of
each proxy's guard. Memory is shared under the locks named in the table (and the
logger's, and the atomic counters), each held for a few lines; `config.json` is
shared without a lock.

What is hard, and what makes each part correct:

* **Scanner.** One pass from left to right decides among overlapping findings
  and may take a decision back; the text is then edited in place by byte
  offsets. Correct if the kept spans are disjoint at every moment, if nothing
  that beats its rivals is left unmasked, if placeholders and values correspond
  one to one, and if the edit can be undone with the mapping.
* **Guard.** The lock is taken once per string, so updates fall between the
  strings of one request. Correct if each string is masked by one configuration
  in force during the call, if only user text changes, if the summary accounts
  for what was sent, and if neither calls nor updates wait for ever.
* **Settings.** Load, change, save and apply are four steps without a common
  lock; saving is cutting the file and writing it, and whatever ends a save in
  between loses the settings. Correct if one request at a time changes the
  settings it finds and nothing else, if nothing but such a save loses them, if
  the page says "active" only when it is so, and if races mix no two saves.
* **REST API.** The clock is read before the lock of the window it selects, and
  the keys are looked at twice. Correct if nobody is refused early, if the limit
  holds whenever requests arrive in order, and if the key check's answers can
  be explained by keys that were configured.
* **Start and registry.** Guards are built from `main`'s copy of the file and
  registered by goroutines of their own, while the API applies the file it has
  loaded itself to whatever guards it finds. Correct if no guard ever gets what
  was meant for another port, if "active" is true of every port it can be true
  of, and if every free port is served.
* **Pipeline, metrics, logger.** Four error paths leave at different points. A
  rotation can fail, and the process can die, at every step. Correct if the
  counters are exact when nothing is under way and between the bounds otherwise,
  if the log tells of an answered request what its client was told, if a client that
  does not take its answer holds up no other request, and if the two log files stay
  bounded and hold the end of what was logged.
* **Check digits.** A slip in a weight still passes most numbers. Correct if
  every mistyped symbol is caught, and every swap of neighbours but those that
  the scheme itself cannot tell.
* **Sessions.** A login reads the file that others may be writing, and drops the
  error. Correct if it is compared with the stored hash whenever there is a file
  that can be read and no save is under way.

## Modules

### `Findings`, `Scanner`, `ScanContract`

`Findings` has the vocabulary: a finding is `[type, start, end]` with the code's
offsets, `Before` is the comparison of `sort.SliceStable`, `Better` that of the
replacement in `resolveOverlaps`, `Whitelisted` the test of `filterWhitelisted`.
A text is a sequence of symbols, each a 1-tuple; a placeholder is one symbol, the
pair of type and number, so the edit changes lengths as in the code. The regular
expressions are not modelled: `Reports(text)` is any set of sequences of findings.

`Scanner` is one call: `Detect`, `Filter`, then one action per turn of each loop:
`Keep`, `ReplacePrevious` or `Drop` for a finding; `ReusePlaceholder` or
`NewPlaceholder` for a kept one; `Replace` for an edit, from the right. Sorting
is folded into the order in which findings are taken.

`ScanContract` is what a caller is promised, in one step: some disjoint set of
surviving findings, each missing one beaten or matched by an overlapping rival,
placeholders one to one with texts, and the text with those spans replaced.
`Scanner` implements it (`ImplementsContract`).

### `Guard`

The requests run `Apply`: `Call`, `RLock`, then `Snapshot` or `DryRun`, then
`RLock` and `Mask` once per reached string, then `Return`. `UpdateConfig` is
`Lock` (the writer waits, and from then on holds new readers back) and
`UpdateConfig` (no reader is left). A body is the sequence of its strings, each
with its role, block type and the containers on the way to it; `Reached` is what
`anonymiseClaudeCode` and the functions below it get to. The input of a
`tool_use` is ranged over as a Go map, so its strings come in any order. The scan
is the parameter `Scan`, so that the module stands for any detector. A dry run
scans the strings as one text, where the code scans the raw body with its JSON
syntax. `isValidUTF8` always holds in Go, so the binary path is dead and left out;
`MaskedBytes` and the encoding are left out.

### `Settings`, `SettingsContract`, `ConfigStore`

`Settings` says what each handler does to a loaded configuration, and which
requests a page offers (`Requests`). The config page has one form for the system
and one per proxy, and each is posted alone, so `SaveConfig` takes one form and
empties what it does not carry. `ConfigStore` has the steps of a handler:
`Receive` (the request was composed from an earlier page), `Load` or `GiveUp`,
`Truncate` and `Write` (the two halves of `os.WriteFile`) or `FailToSave`,
`ApplyRuntime`, one `ApplyGuard` per proxy, `Answer`, `Done`; and `Login`,
`Crash`, `Restart`. The file is what `LoadConfigs` may find: no file, an array of
proxies, a root, `Empty` from the cut to the write, or `Garbled`: a part of a text, or
a text with the rest of a longer one behind it, which a second handler leaves when it
writes through its own descriptor. `Cut` takes the old text away: a save that ends
there, by a failed write or with the process, leaves neither the old settings nor the
new ones, every handler then answers with an error, and `main` does not start. The
history variable `torn` remembers such a save; `FileReadable` says that the file cannot
be read during a save and after `torn`, and at no other time.

`SettingsContract` is what the administrator has of it, with three variables: the
settings (or none), whether they are being saved, and what the last login was compared
with. A request is `Change` and then `Saved` or `Lost`; a `Login` is compared with the
password in the settings, or with the default's (`NoPassword`) while they are saved or
once they are lost, because `uiPasswordHash` takes a file it cannot read for one
without a password. `ConfigStore` implements it as long as one handler runs at a time.

`Settings` also holds what the start needs: `LoadConfigs` with its three outcomes (no
file, an array of proxies, a root; a root without proxies gets the default one) and the
proxies of a port.

### `ApiServer`

A request passes `Arrive` (reads the clock), `Allow` or `TooMany`
(`allowRequest`), `CountKeys` and `Lookup` (the two sections of `apiKeyAuth`),
`Decode` (the body, and the default detectors unless it names its own) and
`MergedWhitelist` (the default whitelist, under a second lock). `Tick` and
`ApplyRuntimeConfig` interleave anywhere. Default detectors and whitelist are known
by the call of `applyRuntimeConfig` that stored them: `DefaultsInOrder` says which
pairs a scan may see. `inForce`, `allowed`, `late` and `since` are history
variables: the key sets in force since the request came, the requests let through
by rate key and minute, the rate keys used with a minute that was over, and the
settings in force when the request came.

### `Lifecycle`

`main` loads the file (`Init`, `Restart`); each proxy's goroutine is
`RegisterGuard` then `Listen`, which fails on a port that another program or proxy
holds and leaves the guard registered. The API's goroutine is `Load`,
`UpdateGuardConfig` once per proxy, `Applied`, `Serve`; then `Request` changes the
file and the same actions apply it. Ports may be taken, doubled (Add Proxy always
uses 8080) or changed after the start. `ready` remembers which proxies were
registered when a save began to be applied, `offered` which configurations any
file had for a port. One request at a time, saved in one step: races of saves are
`ConfigStore`'s matter.

### `Logger`, `Metrics`, `Pipeline`

`Logger` is `Write` from its test of `l.file` without the lock (`Call`, `Silent`)
through `Lock`, `Rename` and `Open` (the two halves of `rotate`) to `Put`. A file is
its sequence of bytes, so a line can be cut or overwritten: a file opened by
`rotate` is written at its own offset (`mode = "offset"`), one opened by
`NewLogger` at its end. Faults, each kind at most once in a behaviour and
`MaxFaults` in all: a failed rename, a failed open, a short write, and a crash
between any two steps with a restart, with or without a log that can be opened.
`TailLog` is what the page shows of a file that was `s` bytes long at `Stat` and is
longer, or another, when it is read.

`Metrics` is `RecordMetrics` and `MetricsText` with one step per atomic counter. The
types of a summary are a function from types to numbers: `PIITypes` has a type once when
`Apply` has collected the types in a map, and once per finding when the body is no JSON
object (`guard.go:96`), and `RecordMetrics` counts every element.
`Pipeline` composes both with `handleRequest`: `Receive` or `BodyFails`,
`RecordMetrics`, `NoRequest` or `Do`, `ReadAnswer`, `Log` and `Write`, `Refuse` or
`Answer`, which write to the client, and `Crash`. Masking is taken by its summary.
Headers and console output are left out.

### `Checksums`

The loops of `luhnValid`, `mod97`, `taxIDCheckDigit` and `kvnrChecksumValid`, symbol
by symbol, on two numbers at once: one as issued and one as typed, which differ in
at most one symbol (`Mistype`) or two swapped neighbours (`Swap`). Only the
accumulators are kept, so that all numbers of the real lengths are checked.
`Alike` names the swaps a scheme cannot tell. Swaps across the seam of the
rearranged IBAN and a mistyped letter of a KVNR are not covered.

## Runs

| Run | Question | Bounds |
|---|---|---|
| `MCScanner` | all scanner properties and the refinement | texts of four symbols, up to three findings of four types (three priorities, two equal), two detector lists, two whitelists |
| `MCScannerGap` | is a finding that overlaps nothing kept always kept? | as above; violated |
| `MCGuard` | safety of `Apply` against `UpdateConfig`; termination | two requests, two updates, three configurations, bodies: empty, chat, tools, raw |
| `MCGuardInFlight` | does a request keep its scanner? | violated |
| `MCConfigSerial` | one settings request at a time, with faults: contract and logins, readable file, active settings | one handler, three requests, two crashes or failed saves, a full file, none, or one without proxies at the start, two ports, up to five proxies |
| `MCConfigRaces` | what survives two racing handlers | two handlers, two requests, one fault |
| `MCConfigForms` | does saving one form leave other proxies alone? | violated |
| `MCApiServer` | rate limit, key check and defaults | three requests, limit two, two minutes, one change of the settings |
| `MCPipeline` | log, counters, answers and the viewer; termination | two requests of two kinds, one with three findings of two types, a log limit of three bytes of which two are used at the start, lines of one or two, one fault, a viewer that reads two bytes and shows two lines |
| `MCLifecycle` | whose settings a guard has; which ports are served | three ports, one of them taken; no file, an array, two ports, one port twice; two requests to the page, two starts |
| `MCChecksums` | which mistakes the check digits catch | cards of 13 to 19 digits, IBANs of 15 and 18 symbols with four letters, tax ids and KVNRs of their length |
| `MCTaxID` | has every tax number a check digit? | as above; violated |

Why the bounds are enough. Three findings are the fewest with which one is
dropped for a second that a third replaces, and four symbols the fewest with
which the third need not overlap the first. Two updates let the second undo the
first while a call is under way. Two handlers suffice for every lost update, and
three requests in sequence for a change that builds on a change; with two faults a
save fails and the process dies, or it dies again after a restart. A summary that has one
type twice and another once tells counting elements from counting types. Three requests
against a limit of two reach the limit and exceed it; two minutes let a late
request meet a newer window; one change is enough to pair old detectors with a
new whitelist, and the theorems hold for any number. Two writers are the fewest of
which one rotates the file while the other waits with its test of `l.file` made;
three bytes hold one long line and a short one, so that a line reaches, meets or
passes the limit; one fault per behaviour, because each property excuses the
faults it names one by one. Two starts let the second read what the first saved, and two
requests let a proxy be added or deleted before another change is applied. The
remainders of MOD-97 repeat long before the fifteenth symbol, and the theorems hold
for every length and letter. Deadlock is checked in `MCScanner`, which ends in a
stuttering step; the other systems may rest when their bounds are used up.

Fairness, and nothing else, is used for four properties. `CallReturns` and
`UpdateReturns`: weak fairness of the steps of each call of `Apply` and of a waiting
`UpdateConfig`. Goroutines are scheduled, the code between the locks does not block,
and Go's `RWMutex` hands the lock to a waiting writer once the earlier readers have
left and to the readers after it. `RequestEnds`: some request goes
on while one has a step that does not wait for its client
(`WF_vars(\E r \in Requests : Work(r))`). These steps wait for the upstream, which
`client.Timeout` (120 s) ends, or for the disk. The steps that wait for a client, reading
its body and writing its answer or error (`Talk`), are not fair: `http.ListenAndServe`
(`server.go:57`) sets no time limit for either. So the property ends where the
answer is ready, and says that requests get there although other clients never read
theirs; that a client is served is not claimed. `EveryPortServed`: some
goroutine of a proxy goes on (`WF_vars(\E i \in DOMAIN started : Run(i))`), because
nothing in `RunProxy` waits before it serves. Arrival of requests and updates is
never assumed.

## Where the code and its documents differ

Each `violation` run shows one; the counterexamples are short.

* `scanner.go:190` says the highest-priority non-overlapping finding is kept at
  each position. A finding dropped for its left neighbour is not reconsidered
  when that neighbour is replaced, so it is sent in the clear (`MCScannerGap`).
* `guard.go:42` says in-flight requests complete with the old scanner. They read
  the scanner anew for each string (`MCGuardInFlight`).
* `Readme.md:83` says detectors and whitelists are chosen per proxy. Saving one
  form resets the others (`MCConfigForms`).
* `taxid.go:25` computes "the expected 11th digit". For a product of 1 it returns
  none, so a number whose check digit is 0 is never reported, and its branch for 11,
  which would return 0, is never taken (`MCTaxID`).

Seen while reading, without a run of their own.

* Masking: placeholders are numbered per string, not "stable" in a request
  (`Readme.md:28`); a whitelist entry protects findings that contain it and not
  its occurrences (`Readme.md:172`); a dry run reports what masking leaves alone
  (`Readme.md:203`); strings in lists of a tool input are not masked
  (`Readme.md:63`); `MaskedBytes` also counts what re-encoding the JSON changes.
* Pipeline: an answer that breaks off is passed on as if it were whole, because
  the error of `ReadAll` is dropped (`server.go:116`) and the time limit of
  `server.go:45` covers the body, where `Readme.md:28` says "Upstream responses
  are passed through unchanged."; the log lists a type once per finding for a body
  that is no JSON object (`logger.go:30`).
* API: a request that crosses the minute while it waits resets the window
  (`api/server.go:308`, against the 120 requests per minute of `Readme.md:126`); without
  authentication a key header still selects the window (`Readme.md:127`); a valid
  key is turned away when the last key is deleted between the two looks of
  `apiKeyAuth` (`Readme.md:115`).
* Settings: a login during a save is compared with the default's hash
  (`ui.go:41-44`), and after a save that was cut short every login is, as long as the
  process lasts; two racing saves can leave runtime and file apart after
  "settings active immediately" (`ui.go:318`), and so can a doubled or changed port
  and a proxy not yet registered; the forced password change is enforced by the
  config page alone (`Readme.md:78`).
* Detectors: the IBAN expression is greedy and takes following words in capitals
  into the number; a failed Luhn check drops unformatted card numbers only
  (`creditcard.go:59`), other failed checks just lower the confidence;
  `driverlicense.go:19` uses byte offsets of the text in its lower-case copy.

## Proofs

All theorems are about the specifications above for every value of the constants,
from the named assumptions of the modules.

* `ScannerProofs`. `TypeCorrect`; `ResolvedDisjoint`: `KeptDisjoint` is inductive
  only together with `PassInv`: `lastEnd` is the end of the last kept finding, kept
  findings have been visited, and visited ones start no later than the rest, which
  is why a replacement cannot run into the finding before it. `TopFindingIsKept`:
  a finding that beats all its rivals is either still to come or kept
  (`InPlay`), and what was dropped or replaced lost to a rival it overlaps
  (`LosersLost`). `NumberingOneToOne`: recorded placeholders are those handed out
  (`SeenIsAssigned`), two texts never share one (`SeenOneToOne`), and no number
  exceeds its counter (`SeenCounted`). `ScanIsUndone` and `ScannerImplements`, the
  refinement of `ScanContract`, rest on `EditInv`: while the findings are replaced from
  right to left, the result is the contract's pieces (each replaced span a placeholder,
  every other symbol itself) put together, and what its placeholders mean, put together,
  is the text; from `SymbolsAssumption` (a text has no placeholders of its own). An edit
  left of all earlier ones does not move them (`EditStep`).
* `GuardProofs`. `TypeCorrect` contains the lock discipline: a read lock is held
  exactly between `RLock` and the read, hence `UpdateConfig` never runs between a
  read of the scanner and one of the whitelist. `MaskingIsLinearizable`: with it,
  scanner and configuration agree whenever someone reads (`GuardInv`), and a masked
  string keeps a witness among the configurations in force. `OnlyUserTextIsMasked`
  rests on `AllKept`: a string differs from what came in only if it is one of the
  strings `Reached`, in a call that is no dry run; from `BodiesAssumption` (only a body
  that is no JSON object has a string outside all blocks). `SummariesAccount` rests on
  `AccountInv`: the findings collected are, at every moment, an account of the strings
  as they are, because a string is masked once; from `ScanAssumption`, which asks of a
  scan what `ScanContract` promises: each finding is replaced by its placeholder.
* `SettingsProofs` has what two modules need of `Settings`: every request a page offers
  has the fields its handler reads (`PageOffers`), handlers turn settings into settings
  (`EffectTyped`), and `LastWith` finds the last proxy of a port (`LastWithPort`).
* `ConfigProofs`. `RuntimeIsOneSave` rests on `StoreInv`: a file that can be read was
  saved and has only generated keys (`FileWasSaved`: a restart reads it), a handler
  that is about to apply has saved its copy (`AppliesWhatItSaved`), and copies
  have only generated keys (`CopiesHaveIssuedKeys`: they are written later, over
  whatever other handlers wrote in between).
  `TypeCorrect` (`TypeInv`: with it, handlers serve requests of pages) holds for any
  handlers too. The other three assume one request at a time (`Serial`, that `Handlers`
  has at most one element), as their runs do; all start from any file a first start may
  find. `FileIsReadable` and `SavedSettingsAreActive` rest on `SerialInv`: a handler that
  opens the file has read it, so what it writes, it writes over an empty file that no
  earlier save has lost (`WritesFromScratch`); while a handler applies its copy, that is
  the file's text and the guards up to `next` have their last proxy's settings
  (`AppliesTheFile`); and a crash ends all handlers (`NoneWhenDown`).
  `SerialImplementsContract` is the refinement: until it writes, a handler's copy is the
  effect of its request on the file (`ServesTheFile`), so `Truncate` is the contract's
  `Change`, `Write` its `Saved`, a write that fails and a crash in between its `Lost`, a
  login its `Login`, and every other step, `Restart` included, a stutter.
* `ApiServerProofs`. `RefusalsAreDue` rests on `WindowCounted` (a window holds no
  more than was let through in its minute), `LimitHoldsInOrder` on `CountedExactly`
  (for keys never used late, the window's count is exact and later minutes are
  unused), `AuthIsReasoned` on `SeenInCall` (the present keys are among those seen
  during the call, and a request past the first look saw keys),
  `DefaultsAreInOrder` on updates only ever growing: what a request has read is
  no newer than the settings in force.
* `LoggerProofs`. `LogIsBounded` is proved of `Logger` alone, with any writers and
  entries, and carried over to `Pipeline` by the lemma that each step of the
  pipeline is a step of the log or leaves it alone (`ProxyLogIsBounded`). The
  invariant: `l.size` is the length of a file opened for appending and never more than
  that of one written at an offset (`SizeKnown`), and a writer about to write to a file
  has room (`RoomMade`), because only the holder of the lock changes the size.
  `ProxyLogKeepsTail` adds that the offset is the end of the file unless a rename has
  failed (`SizeExact`), so that nothing is overwritten, and that the two files end what
  was written (`KeptAtEnd`).
  `LogTellsTheAnswers` follows each request (`Story`): it has no line until it calls
  `Write`, the entry that waits for the lock is that of what was read, and afterwards
  there is one more line, with one end (`LineAdded`); from `OldLogsOfOthers` (the file
  an earlier process left has no lines of these requests).
  `CountersAreExact` and `ScrapeIsBetween` rest on `MetricsInv`: each counter is, at every
  moment, the sum over the goroutines that have passed the addition to it
  (`CountersKnown`, of the goroutines `Added`). `CountersExact` alone is silent while
  somebody is in `RecordMetrics`. A scrape lies between two sums because a sum over more
  goroutines is no smaller (`SumGrows`). Both hold for types found any number of times in
  a request.
  `ViewerIsRight` rests on `WholeInv`: unless a rename or a write has failed, every byte
  of the files lies in a whole line, from `OldLogsAreWhole` (an earlier process left the
  files so: a write of its own was not cut short either). The cuts at the ends of lines
  are then those between lines, and what lies between two of them is one line
  (`WholeBetween`), for every chunk and limit.
* `LifecycleProofs`. `GuardsHaveOwnSettings`: the registry only names proxies of its
  port (`RegistryInv`), and what is being applied has been offered (`OfferedInv`).
  `SavedIsActive` (`AppliedInv`): once the proxies
  of a port are registered the registry's entry stays, and the guard has the settings
  of the last proxy of the port that was applied so far.
* `ChecksumProofs`. The accumulators of the two numbers cannot be told apart
  (`Verdict`) exactly when there was no mistake or one of `Alike`, in every state. `TurnKeeps`,
  `TurnTells` and `TurnsSwapped` say, for each check, that a turn keeps a difference,
  that different symbols make one, and when a swap does not: for MOD-97 by explicit
  quotients (10 and 99 have inverses modulo 97), for the tax id over its ten products.

Folds, sums and the choice of an order are recursive functions or `CHOOSE`, about which
the library's induction theorems cannot be used here. What is needed of them is proved by
the smallest counterexample instead: a well-founded order (`WFMin`) or a smallest subset
(`SmallestSubset`) gives the first place where the fact would fail, and the recursive
definition, which holds of it and of its predecessor, contradicts that.

Only model-checked: termination (`CallReturns`, `UpdateReturns`, `RequestEnds`) and
`EveryPortServed`, because liveness and fairness are
out of the prover's reach. The violations are shown by counterexample and need no proof.

## Not modelled

* The regular expressions and word lists of the detectors. They are data for the
  scanner, which is checked for every set of findings they could report.
* The set of session tokens: each operation is one map access under `sessionsMu`,
  and a property would restate it. What logins and password changes do with the
  file is in `ConfigStore`.
* `corsMiddleware`, headers, console output, HTML pages and static files: output
  without state. Of the pages only `tailLog` reads something that changes meanwhile.
* The numbers in a re-encoded JSON body, which pass through `float64`, and
  `MaskedBytes`: bodies are their strings only.
* The upstream and type fields of a proxy, which no other part reads; edits of
  `config.json` by hand. The bytes of `config.json`: a half-written text is `Empty` until
  its save ends, since neither can be read; one that fails over the fresh text of another
  handler leaves that text or none; and an error of `Close` after a whole write is left
  out.
* The bytes of a path. `r.URL.Path` is decoded and written to the log as it is, so a path
  with an encoded line break prints as two lines: what `LogAgrees` and
  `ViewerShowsLines` call a line is what one `Write` writes, which is one line of the file
  for paths without a line break.
* A text that already contains a placeholder: the mapping is then ambiguous in the code,
  and `RoundTrip` excludes it.
* Entries of `rtRateState` are never removed; a model could only say so again.
* The empty top-level packages, Docker and CI files: no behaviour.
