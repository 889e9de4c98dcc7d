# Verification of google-photos-takeout

TLA+ models of the takeout program, TLC runs that check them on small
instances, and TLAPS proofs of the properties that matter most. Every
definition is read off the source; `PROJECT.json` maps each one to its lines.

The program reads Google Takeout zips and fills a results folder with one file
per photo, tagged, in year folders, and copies in album folders. It may be
stopped at any moment and is meant to be started again with the same command.
Most of what can go wrong sits there: between what a process knows, what the
journal says and what the folder holds.

## 1. Inventory

| Component (source) | State it keeps | Operations | What is hard | Correct when |
|---|---|---|---|---|
| Placing photos (`pipeline.go`: `run`, `extractGroup`, `transcodeOrKeep`, `place`, `moveInto`, `movedBeforeCrash`, `verifyTags`) | the group (`staged`, `outRel`, `failErr`, `tagErr`), staging files named by hash, the library, the placer's counters | extract, convert, tag, pick a name, journal the intent, move, journal the result | a crash between any two of these; journal writes that fail; names that collide; foreign files | each photo has one place; records speak of the right file; no file is replaced; bytes are never lost; exit 0 means complete |
| Album copies (`albums`, `linkAlbum`, `albumDirs`) | `Albums` in the record, the album folders | count what exists, journal an intent, copy, withdraw, mark "cloned" | the same, and one photo's intent naming another photo's copy | one copy per album, none missing after success |
| Journal (`state.go`) | map of records, append-only file | `OpenJournal`, `Get`, `Put`, `ReadJournal` | partial lines, a sync that fails after the write | a record read back is one that was put |
| ExifTool pool (`exiftool/workers.go`) | processes: free, in use, being replaced; failure window, crash run, probe | `Run`, `ReadAll`, `Check`, `Kill`, `Close` | callers, probe, replacement and Kill interleave | no process in two hands, none left running, no caller waits for ever, the pool gives up only for a reason |
| ExifTool client (`exiftool/pool.go`) | one process, its pipes, command number and state | `run`, `exchange`, `Kill`, `Close` | a reply races its time limit | a late timer never stops the next command; output never leaks into the next reply |
| Tag workers and interrupts (`tagAll`, `main.go`) | four workers, a job channel, cancel, force, grace | feed, write, journal, stop | Ctrl+C at any moment, twice or three times, and a pool that gives up | no write starts after the first Ctrl+C; nothing in flight is counted as an error; nothing is journaled after the run ended |
| Write retries (`runWrite`, `retryWait`) | attempts, ExifTool's temporary copy | send, wait, remove the copy | resends by the pool below retries above | bounded attempts; success only when the file was updated |
| Results lock, progress, status (`state/lock*.go`, `progress.go`, `Status`) | lock file, `progress.json` with a heartbeat | lock, tick, finish, read | the heartbeat's last write against Finish; Finish after the lock is given back; writes and a removal that fail unseen; a reader between | two runs never work on one folder; the file tells how the last run ended; status tells running, crashed and finished apart again and again |
| Duplicate groups (`groupBy`, `confirmDuplicates`) | ids made of size, CRC and hash | group, split | ids depend on which zips can be read | different photos are never merged; ids are the same in every run |
| Report, ledger, verify (`fillReport`, `ledger`, `Verify`) | counters, one fate per entry | fill, compare | combinations of flags | the counts add up; no entry without a fate |
| Unzip (`unzipAll`, `unzipFile`) | the unpacked tree | compare, write, rename | stops in the middle | no truncated file is taken as complete |
| Live Photo pairs (`pairLive`) | `live` of each group | pair by identifier, then by stem; share dates | any number of candidates, in any order | pairs are one to one, of an image and a video |
| Dates and time zones (`dates.go`, `resolveDates`, `applyZones`, `args.go`) | `emb`, `when` of each group; the tags in the files | choose a source, find a zone, write, read back | what one run writes the next one reads; New Year | a clock without a zone is never moved; a second run changes nothing; folder and tags agree |
| Sidecar matching, file names, zip index | none: functions of their input | - | string patterns with an order of precedence | not modelled: unit tests cover them |
| ExifTool arguments, preflight, doctor, messages, photos import, processes and power, command line, version, test corpus | none of interest | - | - | not modelled, but for the date tags (`Dating`) and `KillTree` and `KillOrphans` (`Client`): formatting, system calls |

Components interact through the journal (one process at a time, guarded by the
results lock), the results folder (also written by other programs), the group
records that the phases of one run pass on, and the pool, which the tag reads,
the tag workers and `verify` share.

## 2. Modules

| Module | What it is |
|---|---|
| `Library` | abstract: photos get one place each, at names nothing uses; nothing is replaced |
| `Placement` | the copy, convert, tag and place phases of repeated runs; implements `Library` |
| `Albums` | the album phase of repeated runs; the album folders implement `Library` |
| `Records` | abstract: the map of records the pipeline takes the journal for |
| `Journal` | the journal as a file of lines that may be cut anywhere; implements `Records` |
| `Session` | processes on one results folder: lock, heartbeat, progress file, status; with `Journal` in it |
| `Service` | abstract: what the ExifTool pool promises the goroutines that call it |
| `Pool` | the pool of ExifTool processes; implements `Service` |
| `Client` | one ExifTool process: replies, time limits, `Kill` and `Close` |
| `Tagging` | the tag phase of one run on top of `Service`: feeder, workers, write retries, interrupts |
| `Dates` | the capture date, Live Photo pairs and time zones as operators |
| `Dating` | the dates of a library's files over repeated runs, and `takeout verify` |
| `Archive` | the entries of the zips, which of them can be read |
| `Groups` | duplicate groups and their ids, the fate of each entry, the report's counts, as operators |
| `Unzip` | `--keep-unzipped` and `--unzip-only` |
| `Review` | repeated runs over archives that are damaged and repaired; composes `Groups` and `Unzip` |
| `MC*`, `*.cfg` | instances for TLC |
| `*_proofs` | inductive invariants, theorems and their proofs |

### Placement

A group is one distinct content, so its SHA-256 names one staged file:
`orig[g]` is `.takeout/staging/<sha>` and `mov[g]` is `<sha>.mov`. `lib` maps
library paths to files; a path stands for a class of `names.Key`, so two names
that the disk would merge are one path. A file is whose bytes it has, whether
it is the original, a whole or a cut-off conversion, and whether tags are in
it. `jm` is the journal's map in memory, `jd` what `state.jsonl` says when it
is read again: a `Put` changes both, a failed one changes memory and perhaps
the disk. `pc[g]` says where the run is with a group; each loop of `run`
handles one group at a time, except the tag phase, where any group may be next
because four workers share it. Each action is the code between two steps that
a crash can separate:

| Action | Code |
|---|---|
| `Start`, `Stop`, `Finish` | `run` from `OpenJournal` on; any end of the process; the exit code |
| `Adopt`, `Extract`, `ExtractFails`, `PutStaged` | `extractGroup` |
| `BeginConvert`, `EndConvert`, `DropOriginal`, `ConvertFails`, `NoConversion` | `transcodeOrKeep` |
| `SkipTags`, `WriteTags`, `WriteTagsFails`, `PutTagged` | `tagAll`, `writeTags` |
| `SkipPlace`, `Keep`, `Intend`, `Link`, `Collide`, `MoveFails`, `Withdraw`, `RemoveStaged`, `PutPlaced` | `place`, `moveInto`, `media.Rename` |
| `Intrude` | another program makes a file in the results folder |

Each `Start` chooses the groups this run sees (`--sample`, missing zips) and
whether ffmpeg works. The order of groups is left open, so what is shown holds
for every order.

### Albums

Photos are numbered, because the loops visit them in order and the order
decides who gets a name. `album[p]` is the owner of the file at an album path.
The record of a photo is its stage and its album paths. `Enter`, `Intend`,
`Link`, `Collide`, `LinkFails`, `Withdraw`, `PutCloned` are the body of
`albums`; `Place` and `PlaceFails` are what `place` means to it. The set of
albums in which a photo can be read varies between runs (`view`): a copy in a
damaged zip becomes a group of its own in `confirmDuplicates`.

### Pool

Callers are the goroutines that use the pool: the tag workers and `dropTags`
with `Run`, the feeders of `ReadAll` with batches, `tagAll` with `Check`. What
the code does in one section under `p.mu` is one action; starting, killing and
talking to a process are actions of their own. `pc[u]` is where a caller is and
`held[u]` the process it has in a variable of its own:

| `pc` | Where the code is | Leaves by |
|---|---|---|
| `checkout`, `asleep` | `checkout`, or the wait at the top of `Check` | `Refuse`, `Sleep`, `Send`, `Check`; a wake-up |
| `sent` | `try`, while the command runs | `Reply` (with `giveBack`), `Crash`, `Timeout` |
| `failed`, `restart`, `adopt` | `replace`: before its first lock, between its locks, before the last | `Retire`, `Restart`, `RestartFails`, `Adopt` |
| `judge` | after `try`: resend, the loop of single reads, or a stop | `Judge` |
| `loop` | the loop of single reads in `readBatch` | `Loop` |
| `settle`, `verdict` | `settle`; what `Run` and `readBatch` return | `SettleStops`, `SettleAsks`, `SettleCounts`; `Verdict` |
| `probe`, `register`, `probed` | `runProbe`: starting, before its lock, running its commands; `finishProbe` | `ProbeStart`, `ProbeStartFails`, `Register`, `Unregistered`, `ProbeEnds` |

The condition variable is the set of callers that are `asleep`: `Broadcast`
sends all of them back to look again, `Signal` one, whichever. `breakLocked`
and `Kill` start goroutines that kill processes: `doomed` is what they have
still to do, `Reap` one of them. What is simplified: `free` is a set, so
`checkout` may give any free process; checking out and sending are one step,
between which the code does nothing; a process whose pipes break counts as
running until it is killed, which is the worse case for `NoneLost`; a second
`Kill` would change nothing and is left out; a process number that nothing
refers to is used again. Of a reply it is kept whether its rows parse: if not,
all files it was asked for are in `bad` (`failed` of the code) although the
command did not fail. `answered` are the files ExifTool answered about, with a
row or without one: it sends none for a file it cannot read, and which it sends
is left out. So is `ReadAll` around its batches: that it feeds them, ends at a
fatal error or a Ctrl+C, and merges their rows. `late`, `victim` and `recent`
are history variables.

### Tagging

One run of `tagAll`, from whatever an earlier run has left of each group
(`Before`). `main` is tagAll's own goroutine together with the feeder's loop,
`pc[w]` and `hand[w]` say where a worker is and with which group:

| Where | Code | Actions |
|---|---|---|
| `main`: `feed` | the feeder goroutine | `PassOver`, `Offer`, `EndFeed` |
| `wait`, `grace`, `drain` | the two selects of `tagAll`; waiting for `done` after a kill or a pool that gave up | `StopSeen`, `GraceEnds`, `Return` |
| `pc`: `picked` | the worker's look at `ctx.Err()`, then `writeTags` up to `runWrite` | `Drop`, `Prepare` |
| `ready`, `asleep` | about to call `Pool.Run`; waiting in `retryWait` | `Begin` |
| `calling` | in `Pool.Run` | `Dies`, `Reply`, `Blamed`, `Stopped` |
| `done` | the worker's switch over the error | `GiveUp`, `CountError`, `Abandon`, `Record` |

The pool is `Service`: `Begin`, `Answer`, `Forget` and `Stop` of that module are
conjuncts of the actions here, so `Pool` stands behind them by
`PoolKeepsPromises`. What a process does to a file while it has the command is
added here: it may die before the write, during it (then `_exiftool_tmp` stays)
or after it, and the pool sends a command at most twice. A command that runs
into its time limit is a `Dies` followed by `Blamed`; that it could also be
sent again is more than the pool does. `Breaks` may come only while some
command has failed. `Interrupt` is the first Ctrl+C, `ForceKill` the second
one, whether `killOnForce` or `tagAll` sees it first; the third is the end of
the behaviour. Left out: progress ticks, file times, the pool's check at the end
of the phase, and errors of the journal's `Put`, which the worker ignores (they
are in Placement). "placed" stands for every stage after "tagged".

### Journal and Session

`lines` and `tail` are the file: a line is the sequence of records, whole or
cut, that stand on it, and parses when that is one whole record. `put` says how
far the `Put` under way is: `Put`, `WritePart`, `WriteAll`, `WriteFails`,
`Sync`, `SyncFails`; `OpenJournal` reads and ends a partial last line.
`WritePart(TRUE)` has written all but the newline, which a reader takes for a
record. A write that fails after some bytes (a full disk cuts a line where a
block ends) leaves the process alive and the line as it is, and the next `Put`
goes on behind it. `Records` is the map in memory and on disk that Placement
and Albums use (their `Put`, `PutFails` and `PutIgnored` are its `Begin`,
`Store` and `Return` in one step); `JournalKeeps` is the refinement. What it
promises after such a write is less, and `torn` says when: the record of the
next `Put` may be lost although `Put` returns no error (`Lose`), and with it
only what the failed `Put` left (`kept` is the rest).

`pc[r]` says where a process is: `preflight` (the heartbeat runs, there is no
lock), `refused`, `working` (lock taken), `journal`, `done` or `stopped` (`run`
has returned and given the lock back, `Finish` is to come), `closing` (the last
write of `Finish`). Nothing keeps another process from taking the lock in
between. `Ends` is `run` returning, `Finish` removes or keeps the progress file
by the exit code, `Dies` ends the process anywhere. `writing[r]` is a
`writeState` under way in the heartbeat or in the main goroutine, both under
the reporter's mutex:

| Action | Code |
|---|---|
| `Phase`, `Beat` | a `writeState` begins |
| `Replace` | the temporary file is renamed over the old one, or the write in place ends |
| `InPlace` | the rename is refused (Windows), the file is written in place: not whole until `Replace` |
| `WriteLost` | the folder, the temporary file or the write in place fails; the error is noted and forgotten, what is there stays |
| `Remove` | `Finish` of a finished run: the file goes, or `os.Remove` fails and the error is dropped |

Two runs share `progress.json` and `progress.json.tmp` while one has still to
`Finish` and the next one works: `crossed` are the runs whose writes overlap,
and what such a write leaves is the file as it was or that of any of them, whole
or not (`Left`). `last` is a history variable: how the run that finished last
ended, if its last word got onto the disk uncrossed. `Age` is time passing for
`takeout status` (`Shows`).

### Client

`pc` is where `run` and `exchange` are (`write`, `out`, `err`, `settle`,
`rest`). What is in the two pipes and in the queue of the stderr reader is kept
as lines `[n, i]`, the i-th line of command n, 0 for the marker; `size` is what
the queue holds, which `maxStderr` bounds. `timer[n]`
outlives its command: `TimerFires`, `TimerDecides` (the compare-and-swap on
`state`), `TimerKills`. `root` is the ExifTool process, `tree` whether it or a
child of it holds the pipes; `Watch` is `cmd.Wait` with `KillOrphans`. `Kill`
and `Close` are three and four steps. ExifTool (`PrintLine`, `Mark`, `Exit`) may
answer in any order of its two streams, hang or die, and nothing is assumed of
it. `Pool`'s `Reply`, `Crash` and `Timeout` are the outcomes here.

### Dates and Dating

An instant is a number of hours in UTC, a clock the same at some place, so
clock = instant + offset; a day and a year are a few hours, so that a New Year
and a change of day lie inside the small range; a year is a whole number of
days. `Dates` has the functions of `dates.go` and `pairLive`; `Dating` runs them
in the order of `run`: `ReadEmbedded`, `ResolveDates`, `PairLive`, `Zone`, then
`WriteTags` and `Place` per file, `Finish` with `verifyTags`. `tags[f]` are the date tags in a file,
which a later run reads back through `ReadBack`. `Verify` and
`YearMismatches` are the command `takeout verify` and `yearcheck.go`. `settled`
(a run has ended with exit code 0) and `hurt` (files that some run could not
read or not write) are history variables.

### Groups, Unzip and Review

An entry has the kind, folder, size with CRC32 (`sig`), bytes (`hash`) and
sidecar facts that decisions depend on. `Confirm` gives the groups of a run,
`Id` their ids, `Fate` is `ledger`, `FillReport` the counts. `Review` runs them:
each `Start` chooses the entries that can be read this time, then the phases go
over the groups in order, with records by id. `confirmDuplicates` sorts the parts of
a group by a key, in which one that cannot be read comes after every hash: hashes
are numbers below `Ranks`. Placement is one step here (its
crashes are in `Placement`), so a group goes from its record to `Adopt`,
`Extract` or `ExtractFails`, then `Tag`, then `StaysPlaced`, `Place` or
`PlaceFails`. In `Unzip` each zip goes to a folder of its own: `LookAt`,
`CreatePartial`, `Copy`, `CopyFails`, `Move`, `Complete`; `AddAlien` is another
program adding a file between any two of them.

## 3. What is checked

| Run | Bounds | Shows |
|---|---|---|
| `placement` | a photo and a WebM that want the same name and a photo called "a (2)", 2 faults, fairness | `RecordsTrue`, `AdoptionTrue`, `OneHome`, `BytesSurvive`, `SuccessIsComplete`, `LibrarySpec`, `EventuallySucceeds` |
| `albums` | three photos, two albums, 2 faults of any kind, fairness | `AlbumsComplete`, `AlbumLibrary`, `EventuallyComplete` |
| `albums_damage` | one copy unreadable in one run | `SuccessComplete` fails (finding) |
| `pool_run` | three callers of `Run` and `Check`, two places, three calls, `Kill`, processes that do not start | `Ownership`, `NoneLost`, `OneProbe`, `StopsOnRecent`, `SentTwice`, `PoolService` |
| `pool_stop` | two callers with batches of two files, one place, two calls, `Kill`, Ctrl+C, fairness | `Accounted`, `EveryCallReturns`, `AllEnd` |
| `tagging_stop` | two workers; a caption for a file that an earlier run has moved and left a temporary copy of, a file that needs no tags, one that cannot be read and one with dates; one retry, one process that dies by itself, fairness | `TaggedIsWritten`, `StopNotBlamed`, `NoStaleCopy`, `InFlightOnly`, `FinishedIsComplete`, `EndsWhenStopped` |
| `client` | two commands with or without time limits, two lines on each stream, one of which fits `maxStderr`; fairness | `WholeReply`, `OneOutcome`, `CallsReturn`, `StopsReturn` |
| `session` | two processes that may run again and again, one id, two journal lines, one fault of any kind (death, a journal write that fails or is cut short, a sync that fails, a write or removal of `progress.json` that fails), fairness | `FileTellsLast`, `JournalKeeps`, `StatusTells` |
| `dating` | all libraries of MCDating: a file with any date of its own and one beside it, four files of which any are halves of a pair; two runs, one fault | `PairsMutual`, `ClockKept`, `PhotosAgree`, `PhotosSettle` |
| `dating_rerun` | the same without pairs of four, two runs, no fault | `SecondRunIsNoOp` fails (finding) |
| `review` | the zips of MCReview, any entry damaged in any of three runs, one fault, one foreign file | `NothingLost`, `ReportTrue`, `Unpacked`, `UnzipKeeps` |
| `review_ids` | the same, two runs | `IdsAreTheSame` fails (finding) |

Two or three photos are enough for the interesting cases: what goes wrong is
between a photo's own record and files, or between it and one other photo
that has or gets a name it wanted; the third adds a name that is one photo's
second choice and another's first. `MaxIndex` is large enough that a free name
is always left (deadlock is checked). Two faults are what the scenarios known
need: a crash or failure that leaves an intent, and another one that makes a
later run trust it; with three the runs are too long to repeat.

In the pool three callers are what its races need: one that probes or
replaces, one that fails meanwhile, one that sleeps or has just begun. Two
places need four processes: two old ones, one being started, one on probation.
A process that has failed leaves its place before another is started, so more
are never alive at once; where none was `Fresh` a caller would be stuck, which
`EveryCallReturns` and the deadlock check would show. The limits
(`MaxCrashRun`, `Window`, `WindowFailures` 1 or 2) are below the program's so
that few calls reach them. `MaxCalls` bounds how many calls a behaviour makes;
that a caller starves while others call for ever is therefore not asked, and
`EveryCallReturns` says that in the end no call is left waiting, which for
finitely many calls is that each one returns.
`Alike` makes callers and processes interchangeable in `pool_run`; runs with
liveness use no symmetry.

In the tag phase two workers are what a stop can catch in different places, and
four groups leave work to feed when it comes. An empty plan (`"nothing"`) takes
the path of a file that was written and is left to the proofs. One retry and one
death are enough: a second one adds a longer wait.

In the client a late timer or a line left on a pipe can only hurt the next
command, so two commands are enough; with `MaxStderr` 1 and two lines the queue
is full and the reply is cut. In a session two processes are one that works and
one that comes too early, before the other has finished, or next. Two lines and
one id hold a record, a torn line and the record glued to it; one fault is each
of the five kinds in turn, at any point. The theorems of section 4 are about any
ids, lines, processes and faults.

In the dates a day has two hours and a year two days: hours 3 and 4 are on the
two sides of a New Year, an offset of one hour moves a clock across it, and
`MaxOffset` 2 and `Near` 3 let a file be near another one and not. `Chain` is three
photos each of which is near the next one only, so that one learns its offset from
a photo that was given one a run before. In the review
three entries can be equal, alike in size and CRC32 and damaged at once, which
is all that ids depend on; four are a placeholder and a file beside it. Three
runs are a damaged one, a repaired one, and one after that.

The runs that stop at a bound on runs or calls (`CHECK_DEADLOCK FALSE`: client,
dating, review) may end there: the client when the process is gone, the other
two after the last run.

Fairness. `FairSpec` of Placement and Albums says that a process that is not
stopped goes on, that the loops end, and that whoever started the program
starts it again; the bound on faults is what "once faults stop" means. Nothing
is assumed of a fault. This is what a sequential program on a working machine
gives; `Start` needs strong fairness only because `Stop` can disable it again
between runs. `FairSpec` of Pool says that a goroutine that can go on does,
which is the Go scheduler's promise; that every command is answered or cut off,
which is the time limit of `exchange` and what `CallsReturn` of Client shows;
and that a kill that has begun ends (`StopsReturn`). A caller that waits for a
lock or a wake-up is not helped by it. `FairSpec` of Tagging says that if some
goroutine of the phase can go on, or its grace timer fire, one of them does;
no step of the phase can be repeated for ever, so this is no more than that a
machine that runs goes on. Of the pool's answers it uses only those of a pool
that is down, which `EveryCallReturns` gives: a command in flight may hang for
ever, and `EndsWhenStopped` shows that the grace period's kill ends it.
`FairSpec` of Client says of each goroutine for itself (the caller in `run`, the
reader of stderr, the one in `cmd.Wait`, `Kill`, `Close`, each timer) that it goes
on when it can, and that the pool kills a process that failed a command, as `replace` does;
nothing is assumed of ExifTool. `FairSpec` of Session says that time passes
(`Age`), that the heart of a run beats, that a write of the progress file that has
begun ends in one way or another (`Replace`, `InPlace`, `WriteLost`), and that
`Finish`, which `Run` calls as soon as `run` returns, gets the reporter's mutex
although the heartbeat takes it again and again: strong fairness, which Go's
mutexes give. Nothing is assumed of the work of a run, nor that one is started.

## 4. What is proved

For every set of photos, names and any number of faults (`ConstantsOK`,
`AlbumConstants` name what is assumed of the constants: that owners are
distinct, and the shapes of the naming functions):

* `Placement_proofs`: `Inductive`, `TypeCorrect`, `NoTakeover` (`RecordsTrue`),
  `NoForeignTags` (`AdoptionTrue`), `NeverReplaced` (`NothingReplaced`),
  `NoBytesLost` (`BytesSurvive`), `SteadyOneHome`, `OnePlaceEach` (`OneHome`),
  `ImplementsShelf` (`LibrarySpec`), `SuccessIsReal` (`SuccessIsComplete`).
* `Albums_proofs`: `AlbumInductive`, `NoSecondCopy` (`OneCopy`),
  `ImplementsLibrary` (`AlbumLibrary`), `AlbumsWhole` (`AlbumsComplete`).

`RecordsTrue` is not inductive: it says nothing of intents. `IInv` adds what
makes an intent safe (`RecOK`: the file at its path is the photo's, or a staged
copy is left, which is what makes `movedBeforeCrash` refute it), what the run
knows at each step (`RunOK`), and what staged files hold (`StagedOK`). There is
one lemma per action, `StepIInv` puts them together, and the theorems follow
with PTL. `Frame` says what steps that touch one group leave alone, `StepFrame`
that of another group nothing changes that an invariant speaks of.

The other invariants of Placement stand beside `IInv`, each in terms of one
group, so their proofs have one lemma per action for the group it works on and
`StepFrame` for the rest:

* `BytesOK`: a record on disk is one of a group that has a whole file, in staging or
  in the library. This gives `NoBytesLost` without any assumption.
* `HomeInv`: a place in the library is the one that both records name, and no staged
  copy is left that would refute the record (`HomeOK`); a run works on one staged
  copy, and its name cannot change once it has been given (`Single`). This is false
  for two kinds of groups, which `Steady` leaves out: empty files, and WebMs of which
  one run has ffmpeg and another one has not. `SteadyOneHome` says of any library
  that each steady group has one place; `OnePlaceEach` and `ImplementsShelf` have
  the two as hypotheses (`Empty = {}`, ffmpeg's answer constant). Section 5 says
  what happens to the others.
* `SuccessInv`: at each point of a run a group is among the failed ones or has
  behind it what the point stands for (`GoalOK`), and a "tagged" record speaks of
  the staged file that is there (`TagOK`). The second is false for a WebM, whose
  staged file is made anew; `verifyTags` reads the tags of a WebM again, so
  `SuccessIsReal` assumes that none is among the files it does not
  (`Unread \cap Webm = {}`), which section 5 explains too.

`OneCopy` needs that each copy is in the record on disk before it exists and
stays there, and that the running loop knows of it (`Recorded`), and that at
the moment of a copy the record on disk names it (`LoopOK`). The refinement
then is one step: `AlbumChange` shows that only `Link` and `Intrude` change an
album folder.

`AlbumsComplete` rests on `TurnInv`, which says that the loops go through the
photos in order and that one that ends without a "cloned" record is counted, and on
`CompleteInv`: a photo that is not "cloned" has no album path in its record that
another file has taken (`KnownOK`), and what its loop knows of is made (`MadeOK`).
Where the only faults are stops, this holds because a photo with an intent that
was never carried out has only complete photos before it, and they take no names;
where there is no stop, because no intent is left behind.

For any number of callers and processes and any limits (`PoolConstants` says
that the limits are positive and that `None` is no process):

* `Pool_proofs`: `PoolInductive`, `PoolTypes` (`TypeOK`), `OneHand`
  (`Ownership`), `NoneForgotten` (`NoneLost`), `SingleProbe` (`OneProbe`),
  `NotBlamed` (`KilledNotBlamed`), `BatchAccounted` (`Accounted`),
  `SentAgainOnce` (`SentTwice`), `PoolKeepsPromises` (`PoolService`),
  `RingInductive`, `GivesUpOnRecent` (`StopsOnRecent`).

`Ownership` and `NoneLost` need that a caller has a process exactly where the
code has one in a variable (`Hands`) and that nothing is doomed before the pool
stops (`LifeOK`). `Accounted` speaks of the last step of a batch only: `RowsOK`
says at each step of it that the files so far are answered about or failed, and
that ExifTool failed on each of the last `inARow` ones by itself. Files of a
reply that does not parse are in both sets and end such a row; those given up
untried need one of `MaxCrashRun`. The refinement needs that a caller that began after
the stop gets no further than `checkout`, and blame that a caller whose process
the pool killed meets no step that counts a failure (`CallOK`). There is one
lemma per action again; `Quiet` serves those that move no process and
`OthersStay` what every action leaves of the other callers, who at most wake
up. `NextKinds` sorts steps into those inside of calls, returns and beginnings,
which is all that the refinement and the two action properties have to know.

The window of outcomes is a ring that is overwritten in place. `RingOK` says
which place of the ring the i-th of the last outcomes has; since each has one,
the numbers of any outcome in the ring and in the last outcomes are equal (a
bijection), and so are the two judgements of `StopsOnRecent`.

For any number of workers, groups and retries, any plan and whatever an earlier
run has left (`TaggingConstants`: a group whose record says "tagged" was
written):

* `Tagging_proofs`: `TagInductive`, `TagTypes` (`TypeOK`), `TaggedTrue`
  (`TaggedIsWritten`), `NoBlame` (`StopNotBlamed`), `NoLeftover`
  (`NoStaleCopy`), `NothingNew` (`InFlightOnly`), `CompleteEnd`
  (`FinishedIsComplete`), `QuietAfterwards` (`NothingAfterReturn`).

`FinishedIsComplete` needs that each group behind the feeder is settled or in a
worker's hand until the phase stops (`OrderOK`); that no two workers have one
group, and what an error or its absence says of the file, is `WorkOK`; that
only a stop the user asked for kills is `StopOK`; that a worker that began a
write after the stop is still in it or begins no other is `AfterOK`. `TagInv`
is their conjunction with the properties. `NoStaleCopy` rests on `WorkOK`
too: the copy is removed by whoever has the group, and nobody else has it.

For any number of commands, with any time limits and a queue of any size
(`ClientConstants`):

* `Client_proofs`: `ClientInductive`, `ClientTypes` (`TypeOK`), `OneStands`
  (`OneOutcome`), `LinesKept`, `RepliesWhole` (`WholeReply`).

A timer outlives its command, so what it may do is a fact about both. `RaceOK`
says for each command whether its timer can still win, and that only the one of
the command `state` names can: the compare-and-swap is what carries it from one
command to the next.

`WholeReply` needs all that is between ExifTool and a reply (`WholeOK`): that the
pipes hold the last of what the command printed, in order (`OutLeft`, `ErrLeft`),
and the queue what comes after the lines in the reply, up to the limit, and the
marker behind them (`QueueOK`); and that nothing of a command is left anywhere
once its reply is read, so that the next one begins with empty pipes. The queue may
drop lines only once reply and queue together have `maxStderr` of them.

For any ids and values, any number of lines, processes and faults
(`JournalConstants`, `SessionConstants`):

* `Session_proofs`: `JournalInductive`, `JournalImplements` and `SessionKeeps`
  (`JournalKeeps`), `SessionInductive`, `FileTells` (`FileTellsLast`).

The refinement of `Records` holds because nothing but the record being put can
stand behind the last newline (`TailOK`), so what is read changes at one step of
a `Put`: the one that completes the record, newline or not. After a write that
was cut short in a run that goes on, part of a record stands there before the
next `Put` begins (`Torn`); the line then never parses (`ReadGlued`), what is
read falls back to the complete lines, and that is the step `Lose` of `Records`.
`SyncOK` says that a record alone on its line is what a reader finds, which is
what makes the `Put` that returns no error a kept one everywhere else. The
theorem is about the program with all five kinds of faults; what it does not say
of a torn line is said in `Records`, and is why section 5 has an entry for it.
`ReadLatest` and `ReadAppend` say what reading a file with one more line gives,
for a sequence of any length. In `SessionInv` at most one process is between
lock and unlock (`OneAtATime`), and `FileOK` says which processes may still
write `progress.json` (`phased`), and that when none may, it tells how the last
one ended (`Tells`). Locks that change hands before `Finish`, crossed writes,
and writes and removals that fail are all among the steps.

For any library, zones and options (`DateConstants`, `DatingConstants`):

* `Dating_proofs`: `DatingInductive`, `DatingTypes` (`TypeOK`), `PairsOneToOne`
  (`PairsMutual`), `NameKept` (`ClockKept`), and where every offset is within 14
  hours (`RealOffsets`) `SettleInductive`, `SecondRunQuiet` (`PhotosSettle`),
  `VerifyAgrees` (`PhotosAgree`).

`Partners` gives each file a candidate by identifier, or by stem where
`MayLink` allows it. `PairSymmetric` and `PairUnique` show that being a
candidate goes both ways and that a file has at most one, for any number of
files that share an identifier or a stem.
`Named` says where a date from a name stands at each stage: untouched until
the zones, and with the same clock afterwards, whatever offset it was given.

What the next run makes of a photo is a function of the tags in it (`Again`). A
photo is `Quiet` when that date needs no zone and is the one it has, so that the
run writes nothing; `RunOK` says that every photo a run has handled is quiet, and
that the date the run filed it by is the one it would get again (`Agrees`).
`SettledOK` and `PhotoOK` carry that over to later runs, whichever were stopped
in between. The lemmas under it are arithmetic on one photo: what is written with an
offset is read back as the same instant, the same clock and the same offset.
`RealOffsets` is about zones of `--default-tz` and of positions, which all are
within 14 hours, and about `OffsetTimeOriginal`, which another program may have
written: section 5.

For any zips, any damage in any run, and any number of runs, faults and foreign
files (`ReviewConstants`):

* `Review_proofs`: `UnzipInductive`, `ReviewUnpacked` (`Unpacked`),
  `ReviewKeeps` (`UnzipKeeps`), `ReviewTypes` (`TypeOK` with `RunOK`),
  `ReviewInductive`, `EveryPhotoAccounted` (`NothingLost`), `ReportAddsUp`
  (`ReportTrue`).

`Unpacked` speaks of finished folders. `UnzOK` says of the one under work that
every entry no longer to do is there and whole, and that a `.partial` that is
about to be moved is whole; `FoldersOK` that a file in a folder is a whole one
of its zip or another program's. What was moved in stays, since no step
replaces a file. `RunOK` says that a run tags and places only what it has.

`NothingLost` is about content, of which records know the ids only. `Sure` says
of which content one can tell: nothing else has its size and CRC32, or every run
so far could read all that has. For it `IdOf` is one id in all runs, a record's
bytes are those of its id and are where it says, and every file has a record
(`IdsOK`). `HeldOK` relates what the run has and has placed to the records,
and `DoneOK` says that each group of this run is left out, failed, held or
placed. From these `Accounted` and the sums of `Counted` follow at the end of
each run; they then stay until the next `Start`, since nothing else moves. That
the numbers are those in the folders is a bijection between the groups placed
and the files: `Full` is the group of an entry in a run that could read
everything, and `LibraryOK` says that in a library without damage each file is
in the folder (`Dest`) of such a group.

Every invariant, action property and refinement of the passing runs is stated by
a theorem. Only model-checked are the liveness properties, since the prover has
neither fairness nor ENABLED: `EventuallySucceeds` (Placement),
`EventuallyComplete` (Albums), `EveryCallReturns` and `AllEnd` (Pool),
`CallsReturn` and `StopsReturn` (Client), `StatusTells` (Session) and
`EndsWhenStopped` (Tagging). The instances of the runs satisfy the hypotheses of
the theorems: no empty file, one answer of ffmpeg and a WebM that is read back
in `placement`, offsets within the limit in `dating`.

## 5. Findings

* A repaired zip does not bring back the album copies it held when the photo
  itself was already in the library (`albums_damage`).
* A video without a sidecar that `--default-tz` dates moves with each run: its
  `CreationDate` is read back without its offset, and pinned again
  (`dating_rerun`).
* The id of a photo that shares size and CRC32 with another one depends on
  which of them can be read: after a repair its record may be the other's, the
  run adopts the wrong file and ends with exit code 0 without the photo
  (`review_ids`).

Observations without a run. These are consequences of the code that TLC shows
when the constants are widened, or that were met on reading; they are rare, or
the code keeps its promise in a weaker sense:

* A video gets a second place after two crashes when ffmpeg is missing in the
  run between them (`pipeline.go:2020`). A file of zero bytes is placed again by
  every run, since `extractGroup` resumes only from files with bytes
  (`pipeline.go:1060`). In the runs ffmpeg's answer is constant and files have
  bytes, and `OnePlaceEach` and `ImplementsShelf` assume it.
* An album copy can be missing although the run reports success: when an
  intent is on disk and the copy failed or was never made, and another photo
  got the name in between (`pipeline.go:2120`). It takes two faults of different
  kinds, or a journal write that fails; `OneTrouble` in `AlbumsComplete` says
  which sequences are covered.
* A caption that ExifTool refuses to write is not noticed when nothing else is
  to be written: `runWrite` takes any reply for success (`pipeline.go:1802`), though
  `args.go:36` says that the caller treats "0 image files updated" as a failure.
* A journal write cut short without the end of the process (a full disk, which
  cuts a line where a block ends, then space again) is followed by the next record
  on the same line. Its `Put` returns no error (`state.go:123`), yet the next run
  reads neither: `OpenJournal` ends a partial line only at the start of a run. If
  the lost record was an intent ("placing") and a crash follows the move, the next
  run does not know of the file it has and places the photo a second time.
  `JournalKeeps` names this exception (`Lose` of `Records`).
* A run gives the results lock back (`pipeline.go:287`) before it finishes its
  progress file (`pipeline.go:250`). A second run that starts in between may lose
  its file to the first one's `Finish`, and the two share `progress.json.tmp`,
  though the comment at `pipeline.go:281` says that it "never writes the first
  one's progress file". While the second one works its heartbeat brings its file
  back (`StatusTells`); if it stops early before that, `status` shows nothing of
  it or what the first one wrote. `FileTellsLast` speaks of the run that finishes
  last for this reason.
* When `progress.json` cannot be removed (`progress.go:101`: a reader holds it on
  Windows, and the error is dropped), a finished run is shown as one that stopped
  early; when its last write fails, a stopped run is shown at an earlier point or
  not at all.
* A run that ends while it unzips or confirms duplicates leaves the report of an
  earlier run, and `takeout verify` answers with it: the report, of which
  `pipeline.go:480` says that it must not answer for a later run, is removed
  only after these phases.
* A placeholder whose extraction fails counts among the placeholders and among
  the failed ones; `ReportTrue` names it (`twice`). `state.Balanced` cannot
  fail, since the ledger lists every entry of the index.
* A video with a sidecar near midnight becomes a tag error in a second run;
  one with an embedded date and no sidecar is filed by its UTC year at New
  Year; a file that could not be read in the first run is filed by the default
  zone; a GIF's `DateCreated` is never read back. `PhotosAgree` and
  `PhotosSettle` are about the photos these do not touch (`Photos`).
* A photo whose tags could not be written in one run keeps the year folder of that
  run, and the next one may write another offset: its neighbor in time has been
  given one since. Across a New Year `takeout verify` then ends with 3 although
  the run ended with 0. It takes three photos each of which is near the next one
  only (`Chain`); `PhotosAgree` leaves out the files of `hurt`.
* A photo whose `OffsetTimeOriginal` is beyond 14 hours, and whose sidecar has the
  instant that this offset gives, is never rewritten, since its instant is right
  (`ShouldWriteDates`, `args.go:194`), and gets a zone anew in each run: in the same
  chain a second run finds a tag error that the first one did not. `RealOffsets`
  leaves it out.
* In the unzipped folders an entry called `x.partial` is in the way of `x`; two
  unzips at once share `.partial` files, since `--unzip-only` takes no lock
  (`pipeline.go:283`); and `.complete` stays when a zip is replaced by another
  one of the same name. `Telling` leaves out zips in which two files share size
  and CRC32 but not content, of which `unzipFile` keeps one.
* A staged file that was tagged before a crash is kept although its bytes are
  no longer those its name was made of; its record says so. For a WebM in
  `Unread` (the files `verifyTags` does not read back) a run can end with exit
  code 0 and without its tags after two crashes: its "tagged" record outlives
  the tagged file.
* `Kill` ("No process starts after it", workers.go:438): `replace` and
  `runProbe` may be starting one at that moment. It is killed at the next
  lock; `NoneLost` and `AllEnd` are about exactly this. `breakLocked` cannot see
  the process of a probe that is not registered yet; it ends with its probe.
* `finishProbe` counts failures during the probe as at most `MaxCrashRun - 1`
  in a row, but they stay in the window, so the next outcome, a success as
  well, may begin another probe.

## 6. Limits

* A crash is the end of the process: what was written stays, in order. Power
  loss that reorders writes is not modelled, nor a journal that cannot be read.
* Nobody deletes or changes files in the results, staging or unzipped folders;
  other programs only add files. Results folders are on file systems with
  locks: where there are none (`ErrNoLocking`) a run goes on without, and two of
  them would not be kept apart.
* Results, album and unzipped folders are on file systems with hard links or a
  rename that refuses an existing file. Without them (FAT, exFAT, some network
  mounts) `renameNoReplace` looks first and renames then
  (`rename_unix.go:28`) and relies on takeout being the only writer: a file that
  another program adds between the two is lost. `Link` of Placement and of
  Albums and `Move` of Unzip look and take the name in one step, so
  `LibrarySpec`, `NothingReplaced`, `AlbumLibrary` and `UnzipKeeps` hold there
  for takeout's own files only.
* Placement and Albums take `Records` without `torn`: a run there does not
  outlive a journal write that is cut short. What one that does may lose is in
  section 5.
* `ReadAll`'s feeder, its end at a fatal error and the merging of rows are not
  modelled; its batches are (`readBatch`).
* Equal size and CRC-32 mean equal content where the code says so
  (`movedBeforeCrash`); `Groups` and `Unzip` model files of which it is not true.
* The folder of a file (year, unknown, not-importable, placeholders) is part of
  its stem in Placement; `Review` has it as such. The number that a Live Photo
  pair shares when it can only changes which free name is picked.
* `placer.taken` adds nothing to a look at the disk in Placement, where each
  name taken exists; in Albums a failed copy's name stays taken and is modelled.
* Hidden `.takeout-*.partial` files that a killed copy leaves are not modelled:
  they have names of their own. A folder that cannot be made fails like the
  journal write after it.
* Zones are constant offsets: the hour a clock changes is not in the model.
* Names in unzipped folders go up to an index of `MaxIndex`, of which 3 is enough
  for the entries and the foreign file of MCReview; where it is not, `Unzip`
  stops before the entry, as it does when the program dies there.
* The system gives the number of a process that has ended to another only after
  `KillTree` is done with it.

Not modelled: the matching of sidecars, the sanitizing of names and the reading
of zip directories are string patterns with an order of precedence. They keep
no state, each is a function of its input that the unit tests take apart by
example, and a model that kept what matters of them would be a second copy of
the patterns. What the rest of the program makes of their results is in `Dates`
(a sidecar's date), `Placement` (classes of equal names) and `Archive` (an
entry's fields). Preflight, doctor and messages, the command line, the import
script for Apple Photos, processes and power, and the test corpus are
formatting and system calls.

## 7. Plan

1. All modules of section 2 with their runs and the proofs of section 4: done.
2. Proofs of all safety properties, action properties and refinements: done.
3. Open: `Client`'s outcomes as an implementation of what `Pool` takes of a
   process, which is now an argument of section 2 and `CallsReturn`.
4. Open: a run of `Dating` for the photo whose tags could not be written
   (section 5), and the New Year of a video without a sidecar.
