# Verification of ExpertLoop

TLA+ models of the review, approval, publication, drift, versions and compiler of
ExpertLoop (the server in `expertloop/` and its browser port in `web/src/`), the TLC
configurations that check them on small instances, and TLAPS proofs for every value
of the constants. Paths below are relative to the root of the repository.

## The system

ExpertLoop turns an expert's note into an *instruction set*: a document of
steps, each step citing lines of the note and, possibly, a registered source
with the hash it had. The set is tested, reviewed, published to external
targets, and marked stale when a source it cites changes.

It exists twice. The server is a FastAPI service over a SQL database; each request
has a database session of its own (`db.get_session`), and one background thread, the
drift scheduler, runs beside the requests. The browser port
(`web/src/sim/`) repeats the same logic in TypeScript, in memory and in one thread,
under a page of interactive sections (`web/src/components/`). Each is modelled where it
is hard: the server's modules are about requests that overlap, deliveries that
fail half way and a scheduler; the port's modules are about what long sequences of
calls add up to, several sets with branches and merges, and the functions underneath.

| Part | State | Operations |
|---|---|---|
| Approval state machine (`workflow/state.py`, `sim/state.ts`) | the set's state | a table of eight transitions |
| Review (`service.py`, `reviews.py`, `routers/instruction_sets.py`) | head `version`, `review_round`, `review_policy`, `review_deadline_at`, `escalated_at`; `edits`, `review_decisions`, `audit_events` | ingest, edit, set policy, submit/resubmit, approve, request changes, retire, escalate overdue |
| Publication (`service.py`, `targets/`) | `publications`, `published_version`; what each target holds | publish gate, delivery to each target, publish, rollback |
| Tests (`service.py`, `executor/`) | `test_cases`, `test_runs` | add case, run tests, coverage, plugins |
| Sources and drift (`drift.py`, `sources/`, `routers/sources.py`) | `sources`, `drift_flags`; the scheduler thread | register, rehash, scan, re-verify, resolve after an edit |
| Versions and branches (`versioning.py`, `service.py`) | `documents` per version, `parent_id`, `branched_from_version` | diff, branch, three-way merge |
| Note compiler (`compiler/`, `document.py`) | none | parse a note into a document with line ranges |
| Port: service (`sim/service.ts`, `reviews.ts`, `drift.ts`, `registry.ts`, `targets.ts`) | all of the above, in arrays and maps | all of the above, each in one call |
| Port: documents (`sim/versioning.ts`, `diff.ts`) | none | structured diff, three-way merge, unified diff |
| Port: compiler and executor (`sim/parser.ts`, `compile.ts`, `executor.ts`) | none | parse, compile, execute a document on a scenario |
| Page (`components/*Section.tsx`, `store.tsx`, `sim/demo.ts`) | React state beside a service that is mutated in place; the autoplay timer | what the buttons call |
| Authentication (`auth.py`) | API keys of the configuration | role and name of a key |
| HTTP API, metrics, ops reports (`schemas.py`, `main.py`, `metrics.py`, `routers/ops.py`) | none of their own | reads |
| Demo, fakes, migrations, self-check (`demo.py`, `fakes/`, `alembic/`, `sim/selfcheck.ts`) | none shared with the above | |

### How the parts meet

- Review and publication share the row of the set. `service.publish` takes the
  state from approved to published; an edit of a published set reopens it.
- The publish gate reads the state (review), the open flags (drift) and the
  latest run (tests).
- An edit may close drift flags and always moves the head, which makes the
  latest run and all approvals those of an older version.
- A merge is an edit of the parent by whoever merges; a branch copies a version and
  none of the flags, tests or approvals.
- A rollback moves `published_version` and leaves the state alone.
- The scheduler calls `escalate_overdue` and `scan_drift`, which the API offers
  too. In the port the page does, and `rehashSource` scans at once.

### What is hard

*Overlap.* Handlers of the server load the set's row `FOR UPDATE` and are then
serialised by it. Every row that refers to the set (a decision, a run, a flag, an
audit event) carries a foreign key and waits for that lock too. Two paths read
without the lock and write later: the submit route loads the set to choose between
submit and resubmit, and the locked load that follows in the same session returns the
object the session already holds without refreshing it; `escalate_overdue`
selects the overdue sets and stamps them. `run_tests`, `add_test_case` and
`scan_drift` read without the lock as well.

*Failure.* Delivery calls external systems one after the other while the row is
locked. A target may refuse, may accept and lose its answer, or the process may
die with the transaction after a target was posted to. What was posted stays.

*Sequences.* An approval, a test run, a delivery receipt and a flag each refer to
a version; long legal sequences of edits, resubmissions, policy changes,
publishes, rollbacks, merges and retries decide whether they still mean what the code
takes them for.

*Data.* A merge combines fields and sections of three documents; a parser counts lines
by hand; a compiler cuts texts apart in an order that matters.

*Time.* A review becomes overdue, and must be escalated once for each round. The page's
autoplay sets its timer anew from the effect of each change it makes.

PROJECT.json lists each of these hazards at its line, with the properties that
would catch it.

## Modules

| Module | Models | Extends |
|---|---|---|
| `Workflow` | the state machine and its table | |
| `Review` | one set's review, on the server | `Workflow` |
| `Publication` | gate, delivery, rollback of that set, in the company of its review | `Review` |
| `Drift` | the registry's hashes, that set's citations and flags, scans, edits | |
| `Release` | what a set promises to whoever acts on it: the abstract specification of `Publication` and of `Service` | |
| `Filters` | what a filter leaves of a list | |
| `Documents` | structured diff and three-way merge | `Filters` |
| `LineDiff` | longest common subsequence and unified diff | `Filters` |
| `NoteParser`, `Compiler` | a note into items; items into a document; a document run on a scenario | `NoteParser` extends `Filters`, `Compiler` `NoteParser` |
| `Service` | the port's service, several sets with their branches | `Workflow`, `Documents` |
| `Pages` | the page's sections, over the service | `Service` |
| `MCReview`, `MCPublication`, `MCDrift`, `MCService`, `MCPages` | constants for TLC | the module they instantiate |
| `MCFunctions` | the inputs on which the functions are checked, and what they promise | `Documents`, `LineDiff`, `Compiler` |
| `ReviewProofs`, `PublicationProofs`, `DriftProofs`, `ServiceProofs`, `EditProofs`, `FunctionProofs`, `NoteProofs`, `PageProofs` | TLAPS proofs | |

Definitions commented as a *Variant* are the mutants: each is what a plausible mistake
in the code would make of the definition after it, and nothing else uses it.

### Review

One instruction set. The variables are the columns of its row (`state`,
`version`, `round`, `policy`, `escalated`, `clock` for `review_deadline_at`
compared with now), the rows that refer to it as far as anything depends on them
(`author` for edits, `decisions`), what the unlocked reads in flight saw
(`submits`, `escalations`), and three observations of the audit trail
(`submissions`, `reminders`, `clearance`). `submission` in a decision is a ghost:
the properties use it, no guard does.

| Action | Code |
|---|---|
| `SubmitRead`, `SubmitCommit`, `SubmitDies` | the route's load and `service.transition` after it; writes only the columns that differ from the read, as the ORM does |
| `Edit` | `apply_edit`, and `_commit_document` for every caller |
| `SetReviewPolicy`, `RequestChanges`, `Approve`, `Retire` | `set_review_policy`, `review`, `transition` |
| `MarkPublished` | the write of a successful `publish`; unconstrained here, composed in `Publication` |
| `DeadlinePasses` | time |
| `EscalateRead`, `EscalateWrite`, `EscalateDies` | `escalate_overdue`, its select and its stamp, for each caller |

A submit in flight holds the *whole* snapshot it acts on. `NewClock` and
`NewEscalated` say which columns it then writes: SQLAlchemy emits a column only if
its new value differs from the one loaded, so a null over a null leaves whatever
another request has put there.

`SpacedRequests` is the line between what the code guarantees and what it
guarantees only when nobody writes between an unlocked read and its write. With
`FALSE` requests overlap freely. With `TRUE` every write waits while such a read
is in flight, as when handlers run one at a time. Properties that need it are
stated in a section of their own; why they need it is said below.

### Publication

Extends `Review` with the gate's other inputs (`latestRun`, `stale`), the
receipts (`delivered`: publications rows that say delivered), `live`
(`published_version`), the transaction that holds the lock (`tx`) and the
outside world (`holds`, `posts`). `tx` lasts from the locked load to the commit,
with one action per call to a target:

| Action | Code |
|---|---|
| `PublishBegin` | `publish` up to the first call: lock, gate, the targets without a receipt |
| `RollbackBegin` | `rollback` up to the first call: the highest version below the live one with a publish receipt |
| `DeliverOk`, `DeliverRefused`, `DeliverUnacknowledged` | one turn of the loop in `_deliver` |
| `CommitFailed`, `Commit` | the end of `publish` and `rollback` |
| `TxLost` | the process dies, or an exception other than `DeliveryError` |
| `RunRead`, `RunRecord`, `RunDies` | `run_tests` |
| `DriftChanges` | a scan or a re-verification, as an environment |
| `ReviewStep` | any action of `Review`; one that writes the row waits while `tx` holds it |

`ReviewUnlocked` and `ReviewLocked` split the review's actions by whether they
wait for the row's lock. The reads of submit and escalate do not wait: they may
see the row while a delivery is under way and write after it ended.

A row of `publications` that says failed decides nothing and is left out. The
verdict of a test run is free (`passed \in BOOLEAN`): nothing here depends on how
it comes about. Targets are called in the configured order and the payload is a
version.

`Publication` implements `Review`: `ReviewSpec` is a property of a run and a
theorem. All properties of `Review` that hold of overlapping requests hold of the
composition for that reason.

### Drift

One instruction set and a fixed registry. A content is its hash. The variables are
`hash` (`sources.content_hash`), `cites` (the hash each step of the head cites for
each source), `flags` (the rows of `drift_flags` per step and source, in the order
of their ids), `lock` (the row's lock: nobody, an edit with the document it is
about to store, or a publish), `scans` (what each scan under way has read) and
`retired`. `unscanned` is a ghost: the sources that changed and that no completed
or current scan has compared since. No guard reads it.

| Action | Code |
|---|---|
| `Rehash` | `rehash`, and `create_source` of a source that exists, up to their first commit |
| `CheckDrift`, `ScanDocument` | `scan_drift`'s select of the sets, in a session of its own or in the second transaction of a rehash |
| `ScanSources`, `ScanFlags`, `ScanInsert` | the select of the sources, the select of the flags, and the inserts with their commit |
| `ScanDies` | the process dies, or the tick raises and is logged |
| `EditBegin`, `EditCommit` | `_commit_document`, for an edit or a merge: up to the read of the registry, and from there to the commit |
| `Reverify` | `reverify` with or without a list of steps |
| `PublishBegin`, `Unlock` | `publish` from its gate to its end; also an edit that is refused or dies |
| `RetireSet` | `transition("retire")` |

Each select of a scan is a step of its own, because each sees what is committed at
that moment. The session that rehashed a source still holds it, and a select does
not refresh an object a session holds: the scan after a rehash compares with the
hash its own rehash has stored (`Seen`, `own`), also when another rehash has
committed in between. An insert of a flag takes a share lock on the set's row by
its foreign key and waits for an edit or a publish (`LockFree`); an edit waits for
neither scan nor rehash.

The initial states hold any citation of any hash, drifted ones included: a branch
copies an older version of its parent, with its citations and without its flags
(`service.branch`), so a new set may be behind from its first day. `unscanned`
holds the sources concerned.

`SpacedRequests` has the meaning it has in `Review`: with `TRUE`, nothing is
written while a scan or an edit is under way.

### Release

The promise both implementations keep: a `head` that grows by one, the versions that
were `cleared` (approved, and passed by a test run), the `live` version, and what
targets hold. `Send` allows a cleared version only, and only the head or one below the
live version; `GoLive` makes it live. `Publication` maps `cleared` to `cleared \cap
greens`, `held` to what `holds` says; `Service` does the same for its first set. How a
review comes about, what a transaction is and which targets refuse is below the
abstraction.

### Documents, LineDiff, NoteParser, Compiler

Pure functions, written as operators, recursive functions and folds; `MCFunctions` states what
each promises by a definition that does not use the function.

| Definition | Code |
|---|---|
| `SameStep`, `SameEntry`, `SameDocument` | comparison with cited hashes left out |
| `DiffDocuments`, `TextChanges`, `ChangedFields` | `diffDocuments` |
| `Conflicts`, `MergedField`, `MergedStep`, `MergeEntries`, `EntriesOf`, `Merged` | `mergeDocuments`, `mergeValue`, `entriesOf` |
| `Table`, `LcsOps`, `ChangesEnd`, `Hunk`, `UnifiedDiff` | `lcsOps`, `unifiedDiff` |
| `ReadLine` and below, `ParseNote` | `parseNote`, one disjunct per kind of line |
| `Guarded`, `Forbidding`, `Expecting`, `SplitRest`, `SplitLine` | `splitRules`, one per kind of line |
| `CompiledStep`, `GlobalRule`, `Banned`, `CompileParsed` | `compileParsed` |
| `Whole`, `ToTheEnd`, `FirstLine`, `Halts` | the texts a line gives, `firstLine`, `haltsFrom` |
| `Holds`, `ApplyRules`, `ExecuteStep`, `Execute` | `evaluateCondition`, `applyRules`, `execute` |

A document keeps the order, the action and the citations of a step, and one list of
entries for the sections that are merged alike by the same loop. A line of a note is
what the parser's expressions make of it; the content of a line is what the compiler's
expressions find in it: a leading condition; whether the rest is a prohibition, a guard ("do not
proceed until"), an outcome or none of these; whether something stands before that ("before") and
after its sentence ("after"); whether `FORBIDDEN_RE` matches; in which of these parts a stop word is;
and the sources. A text of the document is a line with the parts of it that
are in the text, so that a part the code drops is seen to be missing. The expressions themselves,
which are about the wording of English, are not
modelled. The executor also orders words by their letters; the model compares numbers only.

### Service

The port's `ExpertLoopService`. One thread: an operation is one step, and one that
throws changes nothing but counters and the audit trail and is no step.

| Variable | Code |
|---|---|
| `sets` | the map of sets: each a record of its columns and the rows that refer to it |
| `registry` | `SourceRegistry`: the current hash of each source |
| `now` | the virtual clock |

In a set, `flags` is the *latest* flag of each step and source, which is all `scanDocument`
asks of the list; `delivered` is the versions with a delivered publish row. The fields
`approved`, `greens`, `holds` and `settled` are looked at by properties only: the versions that were
approved, the versions a run passed, what each target received last, and whether the
last delivery failed nowhere.

| Action | Code |
|---|---|
| `IngestNote`, `ApplyEdit`, `Branch`, `Merge` | `ingestNote`, `applyEdit`, `branch`, `merge`; the last three by `Committed` (`commitDocument`, with `keepHashesOfUnchangedSteps` and `flagsClosedByEdit`) or a copy |
| `Submit`, `SetReviewPolicy`, `Review`, `EscalateOverdue`, `Advance` | the same names in lower case; `WaitingOn` is `workload` |
| `AddTestCase`, `RunTests`, `Publish`, `Rollback`, `Retire` | the same |
| `Rehash`, `Reverify` | `rehashSource` with the scan it ends in, `reverify` |

Whether a test case passes is decided by the actions of the head's steps (`Accepts`); how
a document runs is in `Compiler`.

`SpacedRehashes` is the line between what the port guarantees and what it guarantees
only when a source is re-read or re-verified before it changes again: with `TRUE` a source does
not change while a flag about it is open. `NothingStaleGoesOut` and `BehindIsFlagged`
need it, because `scanDocument` opens no second flag over an open one and `reverify`
stamps the hash of the flag (below).

`PassedOver` is an exception in both: a citation that an edit took out, which closed its
flag, and that another edit put back while the source read as before is not flagged again,
although nobody looked at it (below).

### Pages

Five sections of the page, each over a service of its own with the sample notes. `page`
is the section, `ui` what it keeps in React state. Every click is a step; `GateTimer` is the
one thing that happens by itself.

| Section | Actions | Code |
|---|---|---|
| gate | `GateNext`, `GatePlay`, `GateTimer`, `GateFree`; `RunStage` | `GateSection.tsx`: the ten `STAGE_RUNNERS`, the effect that sets the timer, free play |
| versions | `MakeBranch`, `VersionEdits`, `MergeBranch` | `VersionSection.tsx` |
| drift | `ToggleSource`, `DriftPublish`, `ReverifyAll`, `EditStale` | `DriftSection.tsx` |
| workload | `AdvanceClock`, `Sweep`, `Decide` | `WorkloadSection.tsx` |
| review | `Type`, `SendEdit`, `SubmitIt`, `DecideIt` | `ReviewSection.tsx` |

`SeededWorld`, `ApprovedWorld` and `QueueWorld` are the states the sections start from
(`createSeededWorld`, `createApprovedWorld`, the workload section's `seed`), with the notes cut down to the steps
the buttons touch.

## Runs

The passing runs:

| Run | Instance | Question |
|---|---|---|
| `Review_Overlap` | two submits and an escalation in flight, three people, two policies, 2 versions, 2 submissions; 4.1 million states | what holds however requests overlap |
| `Review_Spaced` | one submit at a time, both escalators, three policies, 2 versions, 2 submissions; 222 thousand states | what holds when reads and writes are not separated, and that an overdue review is escalated |
| `Publication` | two targets, 3 versions, 3 submissions, one fault, one run in flight, overlapping requests; 1.1 million states | the gate during delivery; what targets hold over publish, failed publish, retry and repeated rollback; refinement of the review and of `Release`; the lock is released |
| `Drift_Spaced` | two steps, one source, three contents, three changes, a request and the scheduler; 2.3 million states | what the flags say after any sequence of changes, scans that may die, edits and re-verifications |
| `Drift_Overlap` | one step, one source, two contents, one change, two scans in flight, the scheduler on; 569 thousand states | no flag during a delivery, and drift is noticed in the end |
| `Functions` | merges of three documents of two steps, or of two entries; texts of 5 lines over two letters; notes of 4 lines of 25 kinds; 986 thousand states | whether each function gives what a reference definition says |
| `Service` | one set, 2 versions, 2 rounds, three people, two policies, two targets, two test cases, a source with two contents; 1.4 million states | one set from its note to its retirement; refinement of `Release` |
| `Branches` | a set and two branches, 3 versions of the parent and 2 of a branch, a source with two contents; 475 thousand states | what edits and merges do to steps, hashes and flags |
| `Pages` | the five sections, 4 versions, 4 rounds; 198 thousand states | whether the page says what the service does, and autoplay ends |

Why these bounds are enough for what they ask. Two submits in flight allow a stale submit to
act on a round that has been approved,
changed or resubmitted since. Two versions separate an approval of the head from
one of its predecessor and allow an edit of an approved, a live and a
changes-requested head. Three versions are the least for two rollbacks in a row
and for a rollback that skips a version. Two targets are the least for a partial
delivery; the fault may be a lost answer, an answer that raises or a lost transaction.
The three policies of the review are one approval by anybody, the author included, without a
deadline; two approvals with a reviewer among them; and two with an administrator
among them and no author; the last two by a deadline (`Review_Overlap` has the first and the
last). The people are the author of
the note, an administrator, and somebody with a reviewer's and an administrator's
key: enough for one name to hold two roles, for two distinct approvers and for an
approver who also edits.

Three contents and three changes let a source change, change again while its flag
is open, and return to either earlier content; two steps separate the step an edit
touches from the one it leaves. `Drift_Overlap` checks liveness without symmetry
and therefore has one step and one change; the initial states, which include sets
that are behind from the start, stand for earlier changes.

Two steps tell a merge of different steps from one of the same; three wordings tell a change on
one side from a change on both and both the same. Two entries of two texts hold an entry
twice and one beside another. Texts of five lines with one line of context hold two
hunks, apart and joined. Four lines of a note hold a heading, an item, its
continuation and the next item, or an item with three lines to split;
among the kinds are lines with something before or after a prohibition, a guard and an outcome.

Two branches are the least for a merge into a parent that another merge has moved; three
versions of the parent leave room for an edit besides one of them or for both merges.
The changes of `Branches` word a step anew, drop its citation, bring it back, and remove a
step. `Pages` leaves room for the versions the buttons of each section can make before they
repeat themselves (the script makes three).

All bounds (`MaxVersion`, `MaxBranchVersion`, `MaxSubmissions`, `MaxRounds`, `MaxFaults`, `MaxChanges`,
`MaxNotes`, `MaxSets`, `MaxHours`; `Room` in `Pages`) stand in guards. Because
the bounded system stops when it reaches them, and because a retired set stops by
itself, the cfgs switch the deadlock check off.

`SubmitSymmetry` permutes the submit requests of `Review_Overlap`, which has
invariants only, `Symmetry` the contents and steps of `Drift_Spaced`, and `HashSymmetry` the
contents of `Branches`, neither of which has a liveness property; runs with liveness
properties use no symmetry.

### Where the code and its documentation part

Each of these runs checks one property, stated from a sentence of the
documentation or of the page, and TLC finds a history of the code that violates it.

| Run | Property | What happens |
|---|---|---|
| `Publication_SecondRollback` | `RollbackIsDelivered` | a second rollback to one version posts nothing to a target, and `published_version` moves |
| `Drift_UpToDate` | `EditClosesTheCurrent` | "close flags whose step now cites the registry's current hash" (`expertloop/drift.py:162`): a source that changed twice before the edit leaves the flag of the first change open over a citation that is up to date, since the flag is compared by its own hash |
| `Pages_Reverified` | `ReverifiedIsCurrent` | "Re-verifying stamps the current hash onto the citation": a source rewritten and restored while its flag is open leaves the hash of the flag, which is gone |

Further behaviours met while modelling, of the server:

- A stale submit, read before an approval, takes the set from approved back into
  review, and opens a round whose number was used before; the route and the scheduler
  may both write the event of one overdue review, and an escalation read in one round
  and written in the next stamps a round without an event. `TransitionsFollowTable`,
  `RemindedOnce` and `OnlyThisSubmissionCounts` therefore stand in the run and the theorems with
  `SpacedRequests`.
- A rollback may pick a version whose publish had failed at a target, since one delivered row is
  enough; it then delivers to that target for the first time. A failed publish, retried
  after a rollback, skips a target the rollback has overwritten: the receipt says a target received a
  version, not that it holds it.
- The flag of `Drift_UpToDate`, open over a citation that is up to date, blocks a publish until
  somebody re-verifies the step or an edit drops the citation. `FlagsAreSound` says what does hold: a flag is single, and the
  citation exists and has another hash than the flag. An edit that read the registry before a rehash may commit
  after its scan, and leaves a stale citation without a flag until the next scan. Two scans that
  read the flags together both flag a citation.
- A source that changes again while its flag is open has no flag for the second change
  once the first is re-verified, until a later scan. `DriftIsAccountedFor` is
  stated so that it allows this and the next.
- A scan passes over a citation whose latest flag names the current content, also when
  an edit, not a re-verification, had closed it; the comments at `expertloop/drift.py:98` and
  `web/src/sim/drift.ts:46-50` speak of a re-verification.

And of the port:

- Of an entry whose text both sides have, a merge keeps the parent's and never looks at the rest: what the branch alone
  changed in it (whether a rule halts, what the entry cites) is dropped without a conflict
  (`sim/versioning.ts:248-261`, and its origin on the server), although `sim/versioning.ts:8-9` says that the merge "takes a
  change made on one side only" and "reports a conflict when both sides changed the same field differently".
  `EntriesTakeBothSides` says which side's entry comes out, and so names this loss. Of entries with one
  text on a side it keeps one, the last.
- A branch of a version with outdated citations has no flag until its source changes.
- A policy may be replaced after an approval, and the approval stands. `waiting_on` may name an
  expert, who may not review.
- A test case added after a green run leaves the run green for the gate.
- An edit that changes nothing is still a version when a cited hash of an entry has moved.
- Three things an expert writes in a step are dropped (`sim/compile.ts:64,149-165`): what a line says
  before its "never", what follows the sentence of a guard, and a guard when an earlier line gave the outcome.
  A rule keeps its line whole. `LeftOut` lists exactly these, and `StepsAreComplete` allows no other part of a
  line to be missing. An item that is only a prohibition becomes a step whose action is its first line.
- In the section of what is forbidden, a guard is taken for a prohibition when it comes before one
  (`sim/compile.ts:59,224`).
- Autoplay of the gate section stands still when a stage throws, which free play can bring about;
  `lastAction` of the review section is not replaced by an edit, because the state before it is read from the set
  after it; its "stale version" is accepted while there is one version only.

## Fairness

- `ReviewFairness`: the scheduler calls `escalate_overdue` on every tick for as
  long as the process runs and survives a tick that fails
  (`DriftScheduler._loop`), so it is strongly fair: an overdue review cannot be
  found over and over and its stamp fail each time. A request in flight ends, by
  its write or by its death (weak fairness of the disjunction). Nothing else is
  fair: nobody has to submit, review or edit.
- `FairSpec` of `Publication`: weak fairness of the transaction's steps. A call
  to a target returns or times out (`httpx.Client(timeout=10.0)`), and the
  request runs to its end or its session is closed. Success is never assumed.
- `DriftFairness`: the scheduler is on. Its interval is 0 by default, which
  switches it off; without it nothing need ever scan, and `DriftIsNoticed` is a
  promise of deployments that set the interval. It ticks for as long as the process
  runs and outlives a tick that fails, so its scan starts and goes on (weak
  fairness); from some tick on they do not fail (an assumption: a database that
  fails for ever lets nobody notice anything). Its insert waits in the queue of the
  row's lock and the lock is free again and again (strong fairness), and a request
  that holds the lock ends (weak fairness of commit or close).
- `FairPageSpec`: a browser timer that is set fires unless it is cleared (weak fairness of
  `GateTimer`). Nobody has to click.

## Proofs

TLC checks the instances above. The theorems hold for every set of principals,
policies, requests, escalators and test runners, every list of targets, every
bound and both values of `SpacedRequests`; those of `Drift` for all steps, sources,
contents and scanners; those of `Service` and `Pages` for any notes, changes, documents, number of sets
and both values of `SpacedRehashes`; those about the functions for any documents and notes. They rest
on the ASSUMEs of `Review`, `Publication`, `Drift`, `Service` and `MCFunctions` alone (no hash is the
mark of an absent citation, records have their fields, policies ask for at least one approval, roles
are the three there are and everybody has one, as `PEOPLE` gives it, notes and changes carry documents
with the fields a document has, hours and bounds are natural numbers), which TLC evaluates in every run.

| Module | Theorem | Says |
|---|---|---|
| `ReviewProofs` | `ReviewTypeCorrect` | `ReviewSpec => []TypeOK` |
| | `ApprovalsAreEarned` | `ReviewSpec => []ApprovedHeadIsEarned` |
| | `ReviewedAsItStands` | `ReviewSpec => []DecisionsAreOnTheHead` |
| | `RoundsAreSeparate` | `SpacedRequests => (ReviewSpec => []OnlyThisSubmissionCounts)` |
| | `AuthorsDoNotCount` | the same of `AuthorsNeverCount` |
| | `OneReminder` | the same of `RemindedOnce` |
| | `StateFollowsTable` | the same of `TransitionsFollowTable` |
| `PublicationProofs` | `PublicationImplementsReview` | `Spec => ReviewSpec` |
| | `PublicationTypeCorrect` | `Spec => []PublicationTypeOK` |
| | `OnlyClearedVersionsShip` | `Spec => []OnlyClearedVersionsReachTargets` |
| | `GateOutlivesThePublish` | `Spec => []GateHoldsWhileDelivering` |
| | `PublicationImplementsRelease` | `Spec => IsReleased` |
| | `LiveVersionsAreDelivered` | `Spec => []LiveVersionReachedEveryTarget` |
| | `PostsNeedFaults` | `TargetsAreDistinct => (Spec => []RepostsNeedFaults)` |
| `DriftProofs` | `DriftTypeCorrect` | `DriftSpec => []DriftTypeOK` |
| | `GateOutlivesDelivery` | `DriftSpec => []NoFlagDuringPublish` |
| | `OpenFlagsAreSound` | `SpacedRequests => (DriftSpec => []FlagsAreSound)` |
| | `DriftIsAccounted` | `SpacedRequests => (DriftSpec => []DriftIsAccountedFor)` |
| `ServiceProofs` | `TargetsFollowTheLiveVersion` | `Spec => []TargetsHoldTheLiveVersion` |
| | `PortApprovalsAreEarned` | `Spec => []ApprovedHeadIsEarned` |
| | `PortImplementsRelease` | `Spec => IsReleased` |
| | `PortDriftIsFlagged` | `Spec => []BehindIsFlagged` |
| | `PortShipsNothingStale` | `Spec => NothingStaleGoesOut` |
| | `PortQueueIsComplete` | `Spec => []WhoCanFinishIsAsked` |
| `EditProofs` | `PortEditsAreLocal` | `Spec => EditsAreLocal` |
| | `PortMergeTakesBothSides` | `Spec => MergeTakesBothSides` |
| | `PortTypeCorrect` | `Spec => []ServiceTypeOK` |
| `FunctionProofs` | `MergeIsCellByCell` | of any three documents, what `Conflicts` and `Merged` are in each field of each step |
| | `StepsMerge` | `Spec => []StepsTakeBothSides` |
| | `MergeTwiceIsMergeOnce` | of any three documents that merge without a conflict, that merging the branch once more changes nothing |
| | `EntriesMerge` | `Spec => []EntriesTakeBothSides` |
| | `DiffIsExact` | of any two documents, `DiffDocuments` is empty exactly when they say the same |
| | `DiffsAreExact` | `Spec => []DiffTellsThemApart` |
| | `HunksLead` | of any two texts, the hunks of `UnifiedDiff` stand where their headers say, apart from one another, lead from the one to the other, and are none exactly for equal texts |
| | `KeptIsLongest` | of any two texts, the lines `LcsOps` keeps are a longest common subsequence |
| | `DiffsLead` | `Spec => []DiffLeadsToTheNewText` |
| `NoteProofs` | `ItemsQuoteTheNote` | of any note, the items of `ParseNote` cover it, quote it and stand in their sections |
| | `ItemsCoverTheNote` | `Spec => []EveryLineInOneItem` |
| | `CitationsLead` | `Spec => []CitationsLeadToTheText` |
| | `StepsSayAll` | `Spec => []StepsAreComplete` |
| | `RunGoesThrough` | of any document and scenario, what `Execute` does: which steps it reaches, what it acts on, where it stops |
| | `RunsFollow` | `Spec => []RunFollowsTheDocument` |
| `PageProofs` | `PanelsAgree` | `PageSpec => []PanelsAgreeWithTheService` |

*Types.* `TypeOK` is not inductive alone: a decision carries the submission it
belongs to, so a set under review must have been submitted (`UnderReviewIsSubmitted`).

*Approvals are earned.* Inductive with the types. The point is what a stale submit
cannot do: it always ends in `in_review`, so it may take an approval away and never
makes one. The proof that later decisions do not disturb the count uses that a
decision is only ever added, to the set the count is taken of.

*Reviewed as it stands.* Strengthened by `NoLaterDecisions`: no decision carries a
submission that has not happened. A new submission then starts without decisions of
its own, and an edit never happens under review.

*Spaced review.* The four share `SpacedReviewInv`: what a read in flight saw is still so and
there is one such read (`ReadsInv`); the round is the number of submissions, the stamp
stands for the event of the last one (`RoundInv`); while a review is open, what counts in it
comes from no author (`AuthorInv`). The last is what makes a policy change harmless: it is
refused while a review is open, and an edit starts without approvals.

*Only cleared versions ship.* The strengthening `ClearInv` follows a version on its
way: from the approval to the approve event (`ClearanceIsOnRecord`), from the green
run to the run's row (`RunIsOnRecord`), through the gate into the transaction
(`TxIsShippable`), into the receipts (`RowsAreShippable`), and from the receipts
into a rollback. Without the receipts the rollback could ship anything, without
the transaction the delivery could.

*Deliveries.* `DeliveryInv` adds to it that what the gate found holds for as long as the
transaction does (whatever writes its inputs waits for the row), that a rollback is to a
version below the live one, and that nothing cleared or run is ahead of the head; with
these each step is one of `Release` or a stutter. `ReceiptInv` adds that a target that is
no longer to be called has its receipt, in the table or in the transaction; so a commit
without a failure leaves a receipt of every target. `PostInv` counts: a post has its receipt or a fault
that explains it. Two targets of one name would be posted to twice under one receipt,
hence `TargetsAreDistinct`.

*Refinement of the review.* Each action of `Publication` is an action of `Review` or leaves
its variables alone.

*Flags on the server.* That no flag opens during a delivery is inductive alone. The spaced
theorems share one invariant, `SpacedInv`: at most one scan is under way and then
nobody holds the lock (`OneAtATime`), what it has read is what the database holds,
and what it is about to insert is exactly the drifted citations without a known
flag (`ScansAreCurrent`); what an edit is about to store is the old citation, the
registry's hash or none (`EditIsCurrent`); an open flag is the latest of its
citation (`OpenIsLast`). Why the edit keeps `DriftIsAccountedFor`: a citation that
is still behind after it was not touched, and by `OpenFlagsBite` none of its open
flags is about the hash it cites, so none was closed. Without that the flag could
vanish and leave nothing in its place.

*The port.* Every operation makes of each set what one of a few functions makes of it
(`StepOf`), or adds one that comes after its parent (`IsNew`); `EverySetMakesAStep` says so once, and the invariants are
about single sets. `SetsInv` and `HistoryInv` are the shapes the others rest on (a live and a
delivered version is one there is). `EarnedInv` says more than an approved head's count: no
decision, of whatever version and round, is by somebody who wrote the note or that
version. That is stable, where "the approvals counted now are not by authors" is
not visibly so. `ClearedInv` is for `Release` what `ClearInv` is on the server, without a
transaction in between. `FlagsInv` reads: an open flag names what the registry has now and
is about a citation that cites something else, and what is behind is flagged or passed over. A
re-verification is why the first half is needed: it stamps the hash of the flag, which is
the current one only if the source did not change under it.

*Who can finish is asked.* `QueueInv`: while a set is under review its approvals of this round are
too few to end the review, since the approval that suffices ends it in the same call; and no
request for changes of the round is left standing. So a reviewer missing from the queue has decided
already, or may not.

*Edits and merges.* What a version stores and what is cited at the head differ: a re-verification
changes hashes in place. `HeadInv` says that this is all it changes, `OpenInv` that an open flag is
about a citation of the head whose hash is not the flag's. From the two, a commit leaves the hashes and the
open flags of every step that says the same, and a merge, which is one commit more, takes over
what a side changed. The functions of `Documents` enter only through lemmas about one cell, a field of
a step.

*Types of the port.* `SetTypeInv` is `ServiceTypeOK` for one set, with what its steps need of each other: a set
under review has been submitted, so a decision has a round to belong to; nothing has more versions than
`MaxVersion`; what is live was delivered, so a rollback lands on a version there is.

*Merge and diff.* A cell is a field of a step with the hashes left out, or the step's being there.
`CellOfStep`, `SameCell` and `FieldClash` turn the functions into statements about single cells, for any documents;
`StepsMerge` and `DiffsAreExact` add that the inputs of the module are such documents. Entries are merged by their texts: what a
filter leaves of a list is in the list's order and has the texts the filter is for (`PickedInOrder`, `PickedByTexts`),
so the three sections a merge is joined from have disjoint texts and each text stands once (`MergedTexts`, `EachTextOnce`);
each entry is one side's last of its text (`FromASide`). Why a
second merge of the same branch is idle: a cell of the first merge is the branch's where the branch changed it and
otherwise the base's or ours, so nothing is left on which the two sides differ from the base and from one another.

*Line diff.* `Table` and the operations are recursive functions of a place in each text. That such a function exists, and
that what is said of it holds of every place, is by the number of lines left (`RecursionExists`, `ByMeasure`). `Tells` says
where in a text the operations have come to, `OpsLead` that they go through both texts and keep as many lines as the
table says; the table is at least as long as any common subsequence from its place on (`CommonIsShort`), which gives
`KeptIsLongest`. `HunksAreCut` says which slices of the operations the hunks are: each is opened by a change, with no change outside one, and a line
that stays is between two of them. A slice shows the lines between the places it starts and ends at (`SideOfSlice`, `HeaderOfSlice`), so a header is right.
Applying the hunks backwards keeps the text as the old one up to a place and the new one from there on (`Spliced`): a hunk
moves that place to its start (`SpliceReplaced`), a line that stays may be told of either text (`SpliceSlides`).

*Reading a note.* `ParseNote` is a fold, so a proof is by induction over the note. Two steps carry it.
`NoteIsReadLineByLine` shows that the function the fold is defined by exists, hence that the fold is what
reading line after line gives. `LineIsRead` shows that a line more
keeps `HasRead`: the items so far, with the open one closed, cover the lines read, quote them and stand in the section
of the heading above them (`StandsIn`), and the open one ends at the last of them. Both inductions are by a least counterexample (`LeastOfNaturals`).

*Compiling and running.* The other folds are taken apart in the same way: the lines of a step (`LinesOneByOne`), the rules of
a step or of the document (`RulesOneByOne`) and the steps of a run (`StepsOneByOne`) are each a run of states, one for
every element. The invariant of a step's lines is `SaysAll`: of the lines read so far each
part but those of `LeftOut` is in the step, and so are the conditions and the prohibitions. It
also says that an outcome is that of a line read before: hence a guard that finds one is a second, and since the code
never replaces an outcome it stays in `LeftOut` to the end.
That of rules is `Followed`: the actions are those of the rules that fire, up to the first
that halts. That of steps is `Walked`, with the step a run has reached, those it skipped, and what cut it short.
`Followed` is a lemma within `Walked`: a step's own rules are one of its moves. The theorems of the inputs then follow from
`NotesInv`, that the items, the document and the traces are those of the note, and from `ConditionsHold`: on the conditions of these notes
the reference evaluates a guard as the executor does.

*Panels.* A page's panel keeps copies of what it showed. `PanelInv` has one part per page: conflicts
are those of the branch as it is now; the count of escalations is the number of marked sets,
which `SweepCounts` adds up; the last review action explains the state, an approval by
either end of it. Starting over needs the fresh world's citations to be linked to the fresh sources: the
panels would otherwise begin with a drift nobody has caused.

Model-checked only:

- the liveness properties (`OverdueIsReminded`, `LockIsReleased`, `DriftIsNoticed`, `AutoplayEnds`),
  which TLAPS cannot handle under fairness;
- `ScriptIsAsTold`, which is about one concrete script.

## Plan

1. Done: `Workflow`, `Review`, `Publication`, `Drift` with their runs, and the theorems above.
2. Done: `Release` with its two implementations.
3. Done: the port: `Documents`, `LineDiff`, `NoteParser`, `Compiler`, `Service`, `Pages`.
4. Done: the proofs of the port's safety properties, of the merge, the structured diff, the parser,
   the line diff, the compiler and the executor.
   Left to prove: that the port's review implements an abstract one that the server's implements too.
5. Left to model: a scan over several sets in one transaction and merge with its two locks, on the server;
   `Drift` in place of `DriftChanges` in `Publication`; coverage and plugins of test runs;
   registering a source while the service runs.

## Not modelled

- The HTTP layer, request and response shapes, metrics, counters, reports, the audit trail
  beyond the events a property is about: no state anything depends on.
- How an API key is compared: principals are constants with the role the route
  asks for.
- Wording: titles, notes, comments, the payload sent to a target, the regular expressions of
  parser and compiler, the agent prompt and the tools named in it. A payload is its version.
- Test coverage and plugins of a run; the verdict is free on the server and decided by the
  actions in the port.
- Registering a new source (the registries are fixed; a content changes), and the source a citation
  is first linked to by name.
- The server's merge takes the branch's lock and then its parent's, while a scan writes in
  the order of ids: a deadlock the database would break by aborting one. The merge that is
  modelled is the port's.
- The page's hero, footer, note view, compile and run sections, its layout, logs and toasts: they
  show what the modelled functions return, or move. The pseudo-random numbers and the hash function
  (`sim/prng.ts`, `sim/sha256.ts`).
- The width of the table of `lcsOps`: it is a `Uint16Array`, so from 65536 common lines on a length would
  wrap. `Table` holds natural numbers, and `KeptIsLongest` is about texts below that; `HunksLead` does not
  depend on the lengths, only on each being a number.
- The demo, the fakes, the self-check of the port, the migrations.
- A database without row locks. On SQLite, which some tests use, `FOR UPDATE` is
  ignored and writers are serialised by the file's lock; the models are of the
  database the deployment uses (`deploy/`).
