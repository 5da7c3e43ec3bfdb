# TLA+ models of Campus AI OS

Campus AI OS is a plugin ("the kernel") for AI clients (Claude Cowork, Claude Code,
Codex). It has no server, no database and no locks: its Python and Node tools read and
write plain files in one shared folder, *the campus*, and several clients, on several
machines, of several plugin versions, run them at the same time. The hard behaviours are
therefore those of programs that share files: a check and the write that depends on it
with another process in between, a process that dies between two system calls, a
temporary file two processes share, a decision taken once and used for hours.

These modules model that core as state machines whose steps are the tools' system calls,
check them with TLC on small instances, and prove the main properties with TLAPS for every
value of the constants.

## Inventory

| component | state it keeps | operations | hard behaviour | what makes it correct |
|---|---|---|---|---|
| kernel kit, `tools/kernel_kit.py` | `.campus-os/kernel/`, `KIT.json`, `kernel-quarantine/` | `install`, `check`, `manifest` | concurrent installs of different versions, a crash between files, owner edits | only whole, known files; the stamp tells the truth; nothing of the owner's is lost; never downgraded; refreshes converge |
| run minter, `tools/mint_run_id.py` | `outputs/<month>/runs/...`, `results.json` stubs | `mint`, `parse` | look-then-make races, 32 draws, a crash after `mkdir` | a run folder is one call's; every folder is accounted for; refusals have a cause; calls end |
| seat resolver, `tools/resolve-seat.py` | `seat.json` (owner), `host-binding.json` | `resolve`, `issue_binding` | racing issuers on one temporary name, expiry, stale identities | one clock; a binding lapses; denied means denied |
| activity ledgers, `templates/ledger-paths.md` | `dean/.activity*.jsonl` | append, merge | writers on several machines | one client (one machine) per file |
| seat checks, `tools/seat_contract_checks.py` | none (reads) | checks 11a-11d, exit code | its own copy of the resolver's rules | agrees with the resolver, never condemns a correct history |
| registration spec, `tools/materialize_registration_spec.py` | the campus copy of a template, overrides, backups | `status`, `capture`, write | owner edits between reading and writing, backups of one second | no owner line lost, idempotent |
| context prune, `tools/context-prune.mjs`, `prune-write.mjs` | context files and their archive | plan, apply | edits and crashes between archive and replace | nothing lost, archived at least once |
| department entries, `tools/gen_department_entries.py` | `.campus-os/registry.json` | merge over kernel versions | lost update, torn write, names that move | owner additions kept, a name counted once |
| task index, `tools/generate_task_index.py` | `TASKS.md` | bake, `--check`, compact | day boundaries, byte budgets | check fails only for a cause; budgets hold |
| cron parity, `tools/check_cron_parity.py` | none | compare, health | thresholds | errs toward silence |
| validators, `tools/validate_results.py`, `validate_registry.py` | none | classify, validate | shapes of several versions | never fails on an older shape |
| context and contract readers, `tools/resolve_context.py`, `contract.py`, `contract.mjs` | none | find the campus, a ledger, a run | nested campuses, two implementations | agree with each other and the resolver |
| doctor, `tools/doctor_evidence.py` | none | collect, one verdict | a collector that fails | the worst finding is reported |
| HR scans, `skills/hr-*/scripts/*.py` | `latest.json`, `previous.json` | scan, diff, cluster | rotation and torn dumps | a diff compares two real scans |
| campus map, `campus-map/generate.mjs` | an HTML page | bake | none of its own | layout |
| build tools (`build_niche`, `package`, `build_contract`, lints) | release files | sequential builds | none | run by the maintainer |
| skills, commands, playbooks | prompts | followed by a model | not a program | - |

Interactions. A session resolves its seat once (`resolve-seat.py`), checks the kit against
its plugin, and runs kit tools; a team run mints a run id and folder, and appends lines to
the ledger of its seat; `/update-workspace` installs the kit and materializes the
registration spec; the doctor runs the seat checks, the kit check and the others and
reports. launchd issues the host binding every six hours.

## Modules

| module | models | proofs |
|---|---|---|
| `KernelKit` | `kernel_kit.py`: `install` step by step, `check`, the quarantine | `KernelKit_proofs` |
| `RunClaims` | the promise of the minter, abstractly: a run is claimed once, its stub written once by the claimant | |
| `RunMint` | `mint_run_id.py`: `mint` and `_contained_mkdir`, implements `RunClaims` | `RunMint_proofs` |
| `SeatLedger` | `resolve-seat.py`, the binding checks and the exit code of `seat_contract_checks.py`, the ledgers | `SeatLedger_proofs` |
| `PruneUnits` | `context-prune.mjs`: which lines of a text are units that may go, and the text without them | |
| `ContextPrune` | `context-prune.mjs --apply` over `prune-write.mjs`, on `PruneUnits` | `ContextPrune_proofs` |
| `RegistrationSpec` | `materialize_registration_spec.py`, and the spec that `validate_registry.py` finds | `RegistrationSpec_proofs` |
| `OrgChart` | `gen_department_entries.py`, the doctor's staff section, `validate_registry.py` on the same file | `OrgChart_proofs` |
| `WorkforceScan` | `scan_workforce.py` and `diff_scan.py` | `WorkforceScan_proofs` |
| `CronParity` | `check_cron_parity.py` | `Office_proofs` |
| `TaskIndex` | `generate_task_index.py` | `Office_proofs` |
| `DoctorEvidence` | `doctor_evidence.py`, with `validate_results.py` in detail | `Office_proofs` |
| `ContextWeight` | the startup set of `context-weight.mjs` | `Office_proofs` |
| `SharedContext` | `resolve_context.py`, `contract.py`, and how `context-weight.mjs` and the doctor read the same names | `Office_proofs` |
| `Recruiting` | `cluster_ledger.py` and the owner's decisions on its briefs | `Office_proofs` |
| `CampusTerms` | the two constants and the set of statuses the office modules share | |
| `MCKernelKit`, `MCRunMint`, `MCSeatLedger`, `MCContextPrune`, `MCRegistrationSpec`, `MCOffice` | small instances | |

`ContextPrune` EXTENDS `PruneUnits`; `OrgChart` to `Recruiting` EXTEND `CampusTerms`.
`MCOffice` checks the last eight in one run: it is their disjoint sum, so a behaviour is one
of one of them and the states are those of the eight together.

Operators commented `Mutant:` are not part of the models: each is a plausible wrong version
of the operator it stands before, and shows that the property named for it can fail.

### KernelKit

`kit` maps each path to what it holds; bytes are abstracted to the plugin version that first
shipped them, so that two versions that ship the same bytes agree, as their hashes do.
`KIT.json` of version v holds v. `inst[c]` is one run of `install`: `ReadStamp` (the
forward-only test), `Scan` (`_unexpected`), `MoveAside` once per snapshot entry
(`_quarantine`), `CopyFile` (skip or open a temporary file), `FillTemp`, `Publish`
(`os.replace`), the stamp last. Each of these is one or few system calls, and any other
client's step, a `Crash`, or `Disturb` (an edit, a deletion, a link by the owner or a sync
client) can come between them. An entry that another install has moved fails the move, as
`os.replace` does for a file gone since `exists()`. `Refresh` is the doctor run that finds the
kit wanting and installs both tiers again (`skills/campus-doctor/SKILL.md`, step 2). A rename
of a temporary file that another install has swept away raises, as `os.replace` does, and ends
the install.

### RunMint

`call[k]` is one `mint` process: `Start` reads the clock once, `Probe` and `TrySuffix` are
the `exists()` tests, `Look` and `Make` the walk of `_contained_mkdir` over the folders
above the run (a test and a `mkdir` with a gap between them), `MakeRun` the exclusive
`mkdir` of the run, `OpenResults` and `FillResults` the stub. Months are folders above
the run that depend on the millisecond. `maker` records who made a folder, for the
properties only. Under the mapping `holder <- maker, author <- Stubs` it implements
`RunClaims`.

### SeatLedger

`ResolveSeat`, `CheckBinding`, `MayIssue` and `NewBinding` are the pure functions of
`resolve-seat.py`; `DoctorHolder`, `Usable`, `DoctorBinding`, `Unresolved` and `BadStamps`
are the doctor's, translated from its own source and not from the resolver's. A session
resolves at `Startup` and keeps the answer (`identity`) while the owner edits `seat.json`
(`Reassign`). `Issue`, `WriteIssue` and `RenameIssue` are the three system calls of
`--issue-binding` on the fixed name `host-binding.json.tmp`: an open truncates what
another issuer wrote, a rename carries another's open file along (`Moved`), a rename of a
file that is gone raises. A name in a file system is a tuple (`<<"unassigned", client,
fingerprint>>`), so a seat whose text happens to equal a fallback name is not modelled,
nor are two fingerprints with the same first twelve digits. The binding never leaves its
machine (`never_sync`). `seat.json` is well formed but for its schema and what
`seat.json` can say wrongly in the right shape: no clock owner among several primaries, a
seat given twice, a client left out.

### PruneUnits and ContextPrune

A text is a sequence of lines; of a line the scan sees whether it is a heading (and of what
level), a list item, indented, old, marked or pinned. `UnitsIn` says with quantifiers over
line numbers what the code's one pass with its stack of headings finds: an eligible start that
no earlier unit contains. `Plan` reads every file before any is written; a plan is the text
read and where its units start, from which follow what is moved (`Entered`) and what replaces
the text (`Replaced`). Then, per file, `NextFile` (compare), `AppendArchive`, `ReadBack` (find
the units, compare again), `WriteTemp` (write, read back, compare a last time), `Rename`,
`Verify`. A failing append leaves any part of its lines, a store that lies any part without an
error. Between any two steps the owner may add, take out or pin a line, another prune may
step, and the process may die. The code's locks are none: `odd` records for the properties
what the gap between the last comparison and the rename let through.

### RegistrationSpec

A body is its departments, its prose lines and its notes; a hash is the value hashed, and a
stamp of a kernel before 5.2.18 has no body hash. One run is `ReadStatus`, `ReadInputs` (the
overrides are loaded a second time, the template read for its text), `Render` (the template
read again for its hash), `Compare`, `Backup` (under the name of the second) and `WriteSpec`;
`--capture` is `BeginCapture` and `WriteCapture` before it. The owner edits the copy or the
overrides, a client's kernel is updated, a run dies, between any of them. A `Healer` is a
client whose owner answers the doctor: it captures when it was refused and writes again.

### OrgChart

`registry.json` is what it says of teams (`entry`), of rosters (`emp`, `added`) and of the
campus's own systems. A run of the generator is `LoadRegistry`, `OpenRegistry` (truncates) and
`DumpRegistry` of `Merge(kernel, what was loaded)`; two kernels ship one skill to different
departments, so that runs move it. The doctor's readings (`DoctorRoster`, `DoctorOrphans`) and
the validator's are translated from their own sources: they disagree on spellings of statuses
and on `kernel`, `core` and `cross`, and `CheckedIsCounted` says what remains true. Between
`OpenRegistry` and `DumpRegistry` the registry is in no file but in the run's hands; `InHand`
is the registry wherever it is, and the properties of what is kept are about that. Two kinds
of step lose something: `Collides` (two writers, or an edit between load and dump) and `Dies`
(the run ends between the two, and nothing can be read any more). "A name belongs to exactly
one count" (`gen_department_entries.py:331`) is not a property: it does not hold of the
doctor's counts, which read both spellings of a roster.

### WorkforceScan

A scan reads the registry (`ReadEntries`), then the caches (`ReadCaches`, with the merge of
several copies of a plugin), which either may have changed in between, copies `latest.json`
over `previous.json` (`Rotate`), truncates and dumps (`OpenLatest`, `DumpLatest`); a review
reads the two files and then the registry, in three steps. Two scans may overlap and one may
die. `log` keeps what each scan read; `ReviewIsOfLastTwo` compares the review with it and not
with the snapshots.

### CronParity

The host's answer is fetched at one time and judged at a later one; ages are half days since
the last run. `Gap` is the reference: for the forms of a field that `Fields` tells apart, no
job that misses no run is quiet for longer. `expected_interval` is the code's estimate. Where
it errs toward noise although the comment at `check_cron_parity.py:219-220` intends silence is
`TooCoarse`: close steps within one hour, a range of hours or certain days (`*/15 9 * * *` is
quiet for almost a day), days 29 to 31, named months. A job switched off on the host, or
added there switched off, is no finding of `compare`; the health report names it (`Disabled`).

### TaskIndex

Task files, the index, days. `Build` is the bake, `Baked` the one `--check` compares with,
`Headed` and `Take` the byte accounts of `--compact`: `RowBytes` is a row after its cut to the
row budget, with the three bytes of the ellipsis, without them when the cut is inside a
character (then at most), and no row budget and no budget when these are 0; `widest` keeps the
longest row shown. The daily drift, the three bytes, and the headings nobody holds back are
in the model as they are in the code, and the properties say what is left of the promises at
`:246-248` and `generate_task_index.py:24-27`.

### DoctorEvidence

One operator per collector, from the facts it reads to its status, and one action that runs
the next collector while the campus changes and sub-tools fail. A start that fails over its
`--kit-manifest` ends with exit code 1 and no section (`Start`): `SystemExit` with a text is
not the 2 that the text and the comment at `doctor_evidence.py:436` speak of. `Alarming` is
stated from the facts, without the collectors. The results section has the documents
themselves: `classify(normalize(d))` of `validate_results.py`.

### ContextWeight

The walk over entry files with its chain of frames, one reference at a time, then the reads
one by one. The reference in `CompleteIsWhatIsRead` is the set of entries reachable from the
two a host opens, with the reads they call mandatory and the "if present" ones that exist.

### SharedContext

Files are a name in the contract's spelling or in other capitals, on a disk that tells them
apart or not. A session resolves (`Look`) and writes later (`Write`); campuses are founded
piece by piece, the owner and old teams put files there in between (`Outside`).
`resolve_context.py`, `context-weight.mjs` and the doctor each read the names by their own
rule.

### Recruiting

Words of triggers are numbers (their place in the alphabet), lines have a day, a date or
none, and a seat whose clock may be ahead. `Clusters` is the greedy grouping of the code
without its loop: `Seeds` is the one set of lines of which none is like an earlier seed, in
the order in which `load_ledger` merges the lines, and a group is a seed and the later lines
like it that no earlier seed took. A run lists and files later, while the owner decides.

## Runs

| run | question | bounds | states |
|---|---|---|---|
| `kit_fleet` | does `KIT.json` ever say more than the kit holds, is a stray file ever lost, in a fleet on one version? | 2 clients on v2, a kit of any version or none, 3 installs, 1 crash, 1 disturbance | 671 thousand |
| `kit_heal` | two versions: do half-written files show, are temporary files private, how can a stamp go down, and does a client that keeps refreshing end with a good kit? | v2 refreshing, 1 install of v1 with or without `--repair`, 1 crash, 1 link in a file's place | 3.5 million |
| `kit_downgrade` | violated: "a newer kit is never replaced by an older one" | 2 installs | |
| `kit_core_install` | violated: after a re-copy the kit checks | 1 install | |
| `mint` | does a run folder have one writer, is every folder accounted for, does every call end? | 3 calls (one with an explicit id), 2 milliseconds over a month's end, 2 suffixes, 2 draws, 1 crash, 5 shapes of the folders | 64 thousand |
| `mint_refusal` | violated: a refusal names an existing run | 2 teams, a bare campus | |
| `mint_ids` | violated: one id, one run | 2 teams, one slug | |
| `seat` | one clock, one client per ledger, bindings lapse, doctor and resolver agree? | 3 sessions (sandboxed, observed, on another machine), 2 issuers, 4 forms of `seat.json`, 1 edit, lifetime 2, time to 3, 2 lines, 2 issues | 3.6 million |
| `seat_writers` | violated: one file has writers on one machine | 2 sandboxed sessions | |
| `prune` | is an owner's line ever in neither file nor archive, whence second copies, does a prune finish? | 2 files of 3 or 4 lines (one the entry file; items, or a section one run takes whole after the other replaced an item in it), 2 runs with different cutoffs, one started again and again; 1 save, 1 fault | 1.1 million |
| `reg_spec` | what does "current" mean, when is an owner's line lost, does the copy settle? | 2 clients on 2 kernels, 4 initial copies, edits, updates, crashes and seconds as in `RegSpec.cfg` | 2.3 million |
| `office` | the properties of the eight machines below | see below | 5.3 million |

The machines of `office`, their properties and bounds:

| machine | properties | bounds | states |
|---|---|---|---|
| `OrgChart` | `RosterKept`, `EntriesKept`, `MergeSettles`, `CheckedIsCounted` | 2 names, 2 departments, 2 kernels, 2 runners, 3 runs, 2 edits | 532 thousand |
| `WorkforceScan` | `ReviewIsOfLastTwo`, `PreviousIsOlder` | 1 plugin in 2 caches and 3 kinds of copies, 2 scanners, 3 scans, 1 death, 2 changes, 1 review | 2.2 million |
| `CronParity` | `StalledIsLate`, `CleanIsInSync` | 2 tasks, 2 files, 4 crons, 2 edits, 6 days | 1.0 million |
| `TaskIndex` | `CheckedIsTrue`, `DigestFits` | 2 files of 6 kinds, 2 edits, 35 days, 1 look | 395 thousand |
| `DoctorEvidence` | `ExitZeroIsHealthy` | 13 sections, 2 facts or tools not as they should be, 2 of 5 documents | 287 thousand |
| `ContextWeight` | `CompleteIsWhatIsRead` | 3 entry files of 7 texts, 2 documents, 3 declarations | 68 thousand |
| `SharedContext` | `PriorityBeforeSpelling`, `NoSecondName`, `WeighedIsRead` | 2 concepts, 2 sessions, 2 writes, 2 changes from outside | 89 thousand |
| `Recruiting` | `DecidedOnce` | 3 words, 3 triggers, 2 seats, 4 lines, 4 days, 2 runs | 770 thousand |

Why the bounds are enough: the races of these programs need two actors, each in one operation,
and an adversary that acts once at the worst moment; every count above is at least that
(`kit_fleet` has a third install so that one can repair what two left, a review needs three
scans so that the last two are not all there were). Time in `seat` runs past the end of a
lifetime and through a second issue; in `TaskIndex` past the days after which a task is stale
and rotten; in `CronParity` past three estimates of a daily job. 32 draws become 2 of 2
suffixes, and five candidates a run one, so that they can be exhausted. The kit has a file of
each kind that matters: kept with other bytes, dropped, added, on demand, unlisted, the stamp.
The rows of the digest fit, are cut (also inside a character) and are omitted. Each property
of a passing run has been seen to fail under a mutant of the code at the same bounds.

`office` takes states that differ in the names of scanners or sessions for one (no rule names
one). All properties but the liveness properties are proved beyond these bounds.

Deadlock is not checked: installs, mints, edits and issues are finite in the bounded
models, and the system may stop with nothing to do.

Fairness. `kit_heal` assumes that a healer's steps and its refreshes are not held up for
ever and that the owner removes a link when a tool refuses it; other clients may stop at any
step. `mint` assumes that a started process is scheduled. `prune` assumes that a process
which has started goes on until it ends or dies, and that the owner of one of the two runs
keeps answering the startup offer. `reg_spec` assumes the same of a materializer under way,
and that a healer's owner answers the doctor. No step of a crash, an edit, an update, a
disturbance or of time is fair. `office` has safety properties only.

### Exceptions the properties name

Some properties hold but for a case that the code has and its documents do not mention. The
property names the case, so that it stays checked that this is the only one:

* `OwnerLinesKept`: a save between the last comparison and the rename of a prune.
* `CanonLostOnly`: a copy saved after the run read it, a backup of the same second, overrides
  replaced by a capture that had not seen them.
* `CurrentIsRender`: a kernel update between the two reads of the template.
* `RosterKept`, `EntriesKept`: a change of `registry.json` between a run's load and dump, or
  two dumps at once (`Collides`); a run that dies between `open(REG, "w")` and the end of its
  dump (`gen_department_entries.py:435`), which leaves nothing to read (`Dies`), although that
  script's comment at `:428-429` and `skills/update-workspace/SKILL.md:14` promise that "an
  upgrade can NEVER destroy anything the owner wrote".
* `OneClock`, `ShardPerClient`: they compare sessions that were resolved under one form of
  `seat.json`. A seat is resolved "once at startup" (`templates/ledger-paths.md:26`), so after a
  hand-over of the clock a session of the old owner and one of the new both write the shared
  ledger; between sessions of one form it never happens.
* `CheckedIsCounted`: teams filed under `kernel`, `core` or `cross` are orphans to the doctor only.
* `ReviewIsOfLastTwo`: a folder without a manifest and with more skills hides the plugin of its
  name, although "a named entry wins" (`scan_workforce.py:99`); a death or an overlap of scans.
* `StalledIsLate`: crons that run at close intervals but in one hour, a range of hours or on
  certain days only, on days 29 to 31 or in some months; a job just switched on or rescheduled;
  an answer that lay for long.
* `CleanIsInSync`: a schedule whose task is switched off on the host passes the comparison
  (`check_cron_parity.py:277-285`), but the report names it as switched off; of two files with
  one id the later counts.
* `CheckedIsTrue`: no index passes on a later day, since its header has the date: a drift without
  either of the two causes that `generate_task_index.py:24-27` knows.
* `DigestFits`: headings after the last row and the last line may go beyond the budget, a cut
  row three bytes beyond the row budget.
* `NoSecondName`: a change between a session's look and its write.
* `ExitZeroIsHealthy`: a campus with no `seat.json` in a git repository inside a synced folder
  is red for the seat checks and not for the doctor.
* `WeighedIsRead`: with several names of one concept present, the weight tool takes the
  canonical one first, where `context-files.md:79-88` has the founding one.
* `DecidedOnce`: a rejection keeps the words of the slug only, and a group with more than twice
  as many is listed again, although `review-candidates/SKILL.md` promises that it "won't be
  re-proposed". A group without a word in all its lines is named after its first line
  (`cluster_ledger.py:130`), and what is left of it later is listed again under another name.
* `CopiesExplained`: a save, a death or a failing write during an apply, and a rename that put
  an entry back.
* `DoctorQuiet`: an edit of `seat.json` that demotes a seat which wrote the shared ledger, after
  which the doctor asks for a review of the history. `HoldersStay` says that no form of
  `seat.json` in the instance does that, and TLC evaluates it (`EditsKeepHolders`).

### What the violated runs show

* `kit_downgrade`: the version test at the start of `install` and the stamp written at its
  end have the whole copy between them (`kernel_kit.py:282`, `:302`). `DownOnlyByRace`
  (checked and proved) says that this gap is the only way.
* `kit_core_install`: the default install copies the core tier; on-demand files of the old
  version stay and fail the check that follows. Installing all tiers converges (`Heals`).
* `mint_refusal`: `FileExistsError` of a folder above the run is reported as an existing
  run; a second call would succeed.
* `mint_ids`: the collision test looks in one team's folder; ids are grouped across teams.
* `seat_writers`: a denied session that cannot read its fingerprint writes to a file named
  for its client alone.

## Proofs

All theorems are of the form `Spec => []Inv` (or a step property, or a refinement) for
arbitrary constants under the assumptions named in the modules: any number of clients,
versions, files, calls, sessions and machines, and any bounds.

* `KernelKit_proofs`. The inductive invariant joins the types, the privacy of temporary
  names (a name is drawn free, and freed when renamed or swept) and the content of paths. It
  is needed because `KnownBytes` says nothing of temporary files, and `Publish` turns
  one into a kit file. `StampNeverAhead` adds, for a fleet on one version, that an install
  at file i has the files before i in place: no step of a client on the same version makes
  a core file wrong again. `DowngradeNeedsRace` adds that an install without `--repair` past
  the first step read no later version than its own. `OwnerWorkNeverLost` follows a piece
  of the owner's work from its place to a quarantine no later step shrinks.
* `RunMint_proofs`. `Held` says what a call past the `mkdir` knows: the run exists, it is
  its maker, the stub is not yet there, or empty, or its own. `NoSharedRun`,
  `EveryRunAccountedFor` and the refinement `MintImplementsClaims` follow.
* `SeatLedger_proofs`. `Grounded` keeps, for each live session, what the resolver had
  established under the `seat.json` it read; `MadeHere` says that every binding file,
  temporary or not, and every text still in an issuer's hands was made on that machine, with
  the fixed lifetime, no later than the last issue. `OneClockAlways`, `ShardsApart`,
  `DarkAfterTTL` and `DoctorAndResolverAgree` follow. `DoctorStaysQuiet` adds `StampsFit`, on
  the history: every line of a ledger bears the seat the file is of, in the shared one a seat
  that may hold it under some form of `seat.json`, and only the first line of the shared one
  may bear none. Its hypothesis is `HoldersStay` (see the exceptions above).

* `ContextPrune_proofs`. `Informed` says what a run knows at each step: past the read back
  every entry is in the archive; past the last comparison each line of the owner's is in the
  text planned from or archived, unless a save came since. `ReplacementKeepsLines` says that
  a text's lines are those moved and those of its replacement; it rests on the places of the
  lines kept being counted off without a gap (`RankIsOnto`). `LinesAreKept` follows.
  `CopiesAreExplained` has an invariant of its own, `Tidy`: while nothing odd happened to a
  file, an entry of its archive is gone from it for good or held by a run past its append, and
  one that is there twice is held by a run that will find it gone, or by two runs. It assumes
  that a line has one place (`OnePlace`): a text that holds an entry twice archives it twice.
* `OrgChart_proofs`. The invariant is the types, with a registry that was read in the hands of
  every run under way. `HandOver` follows the registry through each step: unless a
  run collides or dies, it is handed from the file to the run that empties it and back, merged;
  `OwnersHand` does so for the owner's steps. With the lemmas about `Merge` this gives
  `RostersKept` and `EntriesAreKept`; `MergesSettle` and `CheckedAreCounted` need the types only.
* `Office_proofs`, the machines of `office` that have no module of proofs to themselves.
  - The schedule check. `EstimateIsLong`: three estimated intervals are no less than the longest
    gap and the two an answer may be old, for every cron that is not too coarse.
    `NothingAmiss`: a comparison without complaints names the task of every schedule, on or
    among those switched off. From
    these `StalledAreLate` and `CleanMeansInSync`.
  - The doctor. The invariant keeps, for each section collected, the facts it was collected
    from; `AllSections` says that a run which ends has collected all, `QuietIsHealthy` that a
    status which does not raise the exit code comes from facts that call for no alarm, section
    by section. From these `ExitZeroMeansHealthy`.
  - The task index. `TrueAtCheck`: the bake of a day has a row for each open task with that
    day's flag. From it `CheckedIndexIsTrue`. The digest: a task's place is the number of
    tasks above it; places order the open tasks without gaps (`PlacesAreHeld`, by counting an
    injection), so each task is one row (`RowsAreTheTasks`). `Fits` says what holds of the
    lines up to a row, and the least row where it fails would contradict `RowFits`.
    `DigestKeepsBudget` follows.
  - The names of context files. `FirstIsFirst` and `NamesInOrder` say that the read order
    has every name of a concept and that the first held name is found; `ResolvesToFirst` that
    the resolver reads it in one of its spellings. `NamesBeforeSpelling`, `WeighedAreRead` and
    the action property `NoSecondNames` follow; the invariant of the last says that a session
    that nothing disturbed holds what `write_to` answers now.
  - hr-recruit. `Kept`: what a decided brief was named after is still known, from the registry
    or the rejected names; `NewIsUndecided`: the name of a brief is in each of its lines, so a
    line still in the window has it. `DecidedWorkStaysDecided` follows.
  - The startup set. `Walked`, while nothing is broken: a reference of an entry that was
    visited was visited too, or is still on the chain under that entry. So a walk whose chain
    is empty has been everywhere (`WalkIsWhole`), loops or not, and an entry is visited once.
    `ReadUp`: what is counted is an entry or a read that is not optional and exists, and a
    read to be counted that is not yet is still to be resolved. `Flattened` says what the list
    of reads holds. From these `CompleteMeansRead`, for entries that name others and list
    reads in any number and order.
* `WorkforceScan_proofs`. `Rotating`: while no two scans have overlapped, the one at work is
  newer than what either file holds, and from its rotation on `previous.json` is the latest
  there was. `PreviousStaysOlder` follows for any number of scans that die.
  `ReviewsAreOfLastTwo` adds that each snapshot is true to the read the log has under its
  number (`Logged`) and that the files hold the last two (`Paired`), and
  that the merge of the caches of a plugin finds its largest legible copy (`Least`, the
  well-ordering of the naturals, gives the least counterexample where one would write an
  induction).
* `RegistrationSpec_proofs`. `StampsHonest`: until a template was replaced between its two
  reads, each stamp in the copy, or on its way there, has the hash of what its template and
  overrides render to. `CurrentIsRendered` follows. The assumption `InitAssumption` says the
  same of the copies a campus starts with. `CanonIsKept`, an action property, rests on
  `Accounted`: a run that keeps no backup read a copy with nothing of the owner's that is not
  somewhere else, and one about to write has backed up the rest. TLC's bounds hide a case of
  the exception for backups: one overwritten by another of its second, while the copy came back
  to the value a run had read, loses the line one write later; `dropped` therefore keeps what
  any backup dropped.

Model-checked only are the liveness properties (`Heals`, `MintEnds`, `PruneSettles`,
`SpecSettles`), which rest on fairness and `ENABLED` and are beyond the prover.

## Not modelled

* Parts: the campus map (one pass into an HTML page), the niche builder, packaging, the
  contract build and the lints (sequential, run by the maintainer over the repository, no
  campus file touched), prompts (skills, commands, playbooks: not programs).
* `KernelKit`: `manifest`; hand copies of the kit by file tools, a plugin upgraded during an
  install, directories in the place of files; a directory walk is one step. Links are
  modelled only as what the tools refuse.
* `RunMint`: `parse`, the reading of historical ids, which is string matching; the folder that
  turns into a link while the walk makes it, for which the code looks once more after each
  `mkdir` (`mint_run_id.py:106-108`).
* `SeatLedger`: the walk over records and lanes, the scan for a sync client's copies; the clock
  of a machine does not run backwards, so the tests of a binding from the future never bite.
* A binding that lacks a field is refused by the resolver and cannot come from `--issue-binding`;
  `SeatLedger` has none.
* `SharedContext`: a campus above the folder a session starts in (the model has none there).
* Malformed JSON is modelled where a tool of the system can produce it (a torn binding,
  stamp, registry or snapshot).
* `ContextPrune`, `ContextWeight`: dates and encodings of lines, bytes, tokens and bands.
* `OrgChart`: wording and order of entries; `RegistrationSpec`: the text of the template.
* `WorkforceScan`: scheduled tasks, directory records, hires and weak entries.
* `CronParity`: cron syntax beyond the forms of a field in `Fields`; the run does not have
  all of them (`TooCoarse` crons of hours, late days and months are covered by the proofs only);
  one-time tasks beyond being left out of the comparison.
* `DoctorEvidence`: the evidence texts; the schema walk of `validate_results.py` is one fact,
  `--strict` is left out. `contract.py`'s `ledger_path` and `parse_run_id` have no caller in
  the tools.
* `Recruiting`: departments of briefs and lines of other kinds of work.

## Plan

Every safety property of a passing run is a theorem. What is left:

* abstract specifications for more components, as `RunClaims` is for the minter: the seat's
  promise of one live clock owner, and the campus's registry as a value that only grows;
* the parts of "Not modelled" that have a state of their own, first the directory records and
  hires of `scan_workforce.py`.
