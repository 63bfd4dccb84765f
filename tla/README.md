# 3D print farm: a TLA+ verification project

TLA+ modules, TLC runs and TLAPS proofs for the print farm: the poller that keeps
jobs and printers in step, the request handlers that race it, the stores they
write, the validator every file passes, the accounts, reports and migrations, the
pages that poll the backend, and the mock printers it is developed against.

## 1. The system

A student uploads G-code for a printer; it is validated, stored and queued. A
background poller sweeps the printers, reads each one's state over PrusaLink,
moves the printing job along and sends the oldest queued job to a printer that
is free. Farmers pause, resume and collect; an administrator edits printers; all
are notified, and look at queues, histories and reports.

| Component | State it keeps | Operations | Hard part | What makes it correct | Module |
| --- | --- | --- | --- | --- | --- |
| Printer poller (`printer_sync_service.py`, `main.py`) | rows of `print_jobs`, `printers`, `notifications`; locals held over network calls | sweep, sync, dispatch, roll back | network calls between a read and its write; crashes; stale readings; lost replies | one print per printer; a job printed once; completed means printed; each change told once; progress | `PrintFarm` |
| Job control (`job_control_service.py`) | the same rows, the file store | pause, resume, collect | a command late for its job; commit before unlink | a command reaches its own job; the file outlives the print | `PrintFarm` |
| Job submission (`submission_service.py`) | a new row, its file, the estimates | validate, submit | file and row written in two places; a check grown stale | a queued job has its file and a printer that takes jobs | `FileStore`, `PrintFarm`, `QueueSchedule` |
| Uploads and storage (`upload_service.py`, `storage_service.py`) | files, directories, pending rows | store, tidy, remove | two stores without a transaction; shared directories; crashes | every row has its file, whole; no file without a row but for one that a failure nobody undoes strands | `FileStore` |
| Printer administration (`printer_service.py`) | `printers` | create, edit, delete | edits race the poller; a deletion races a submission | an administrator's status stays; a job's printer is not deleted (both broken: section 3) | `PrintFarm`, `FileStore` (partly) |
| PrusaLink adapter (`adapters/printer/`) | none | status, upload and start, pause, resume | a lost reply looks like no call | errors tell what may have happened | outcomes in `PrintFarm` |
| Mock PrusaLink server (`mockserver/app/`) | per printer: a print's thread, its events, state, job number; spools; results of validation | upload, start, status, pause, resume, stop, reset; analyse commands; record and take filament | handlers race the thread; a result kept too long | a state matches what runs; a number names one print; a file that passes does no harm; stock adds up | `MockPrinter`, `MockCommands`, `Spools` |
| G-code validation (`validation/`) | locals of one validation | parse text and blocks, extract, match, cross-check | one-pass parsers; cut-off files; values that do not parse; a converter's directory | accepted exactly if well formed; a file fits the one profile it is matched with | `GcodeText`, `GcodeBinary`, `UploadValidation` |
| Queue schedule and job pages (`job_service.py`) | estimate columns | compute, store and show the schedule | missing durations, overdue jobs, printers that are down | estimates in order, without gaps, not in the past, not stale | `QueueSchedule` |
| Accounts and authorisation (`auth_service.py`, `adapters/auth/`, `demo_accounts.py`, `deps.py`) | profiles; provider accounts; tokens | sign up, confirm, sign in, seed at a start, require roles | two stores; two first sign-ins at once; a restart that loses one store | one profile per account; no role that nobody gave | `Accounts` |
| Help assistant (`help_service.py`, `adapters/help/`) | times of each client's calls; cached document | chat | window edges; clients to close on every way out | at most N calls in any window; no secret leaves | `HelpChat` |
| Notifications (`notification_service.py`, the page and bell) | rows; what is shown | list, mark, mark all, poll | overlapping loads; writes that commit meanwhile | what is shown is one's own and comes to be current | `Inbox` |
| Upload page (`live-upload.tsx`) | picked file, check, form | pick, check, submit | answers for another file; lost answers | what is queued fits; one job a pick; the page never hangs | `UploadPage` |
| Reports and pricing (`report_service.py`, `pricing_service.py`) | none | five reports, statistics, history, costs | one figure computed in several places; rounding | the tabs agree up to their rounding; prices are pro rata | `Reports` |
| Data model and migrations (`models/`, `alembic/`) | the schema and its rows | ten revisions up and down | two branches and a merge; enum labels that stay; two kinds of first database | at the head the schema is the models' | `Migrations` |
| Materials, scripts | rows | create, edit; seed | | | not modelled |

Components interact through the database (poller and handlers share
`print_jobs` and `printers`, isolated only by READ COMMITTED and one row lock in
collection), through PrusaLink calls to the printers, through the file store, and
through the HTTP API that the pages poll. `PROJECT.json` lists the hazards, each
at its line, with the properties that would catch it.

## 2. Modules

Modules that end in `Proofs` hold theorems, modules that begin with `MC` the
instances for TLC. An operator marked "Mutant" is a plausible mistake in the
one after it, kept to show that a property notices it; no specification uses it.

| Module | What it is |
| --- | --- |
| `PrintFarm` | poller, handlers and printers together |
| `JobLifecycle` | abstract: what the farm promises about a job, whatever happens; implemented by `PrintFarm` |
| `PrinterContract` | abstract: the printer `PrintFarm` assumes; implemented by `MockCallers` for a plain caller |
| `MockPrinter` | the mock's print thread against the requests that race it |
| `MockCallers` | `MockPrinter` with one caller or with any, what holds of one, and the contract for a plain one |
| `MockCommands` | `analyze_commands`, beside the machine that runs the file |
| `Spools` | stock, the check against it, and what a print takes |
| `FileStore` | the database row and the file of a job, and their directories |
| `GcodeText`, `GcodeBinary`, `UploadValidation` | the two parsers and the six stages |
| `QueueSchedule` | `compute_queue_schedule`, its storing and the queue page |
| `Accounts` | sign-up to sign-in, seeding, roles, both adapters |
| `Reports` | the reports, statistics, histories and prices of one table |
| `HelpChat` | limiter, checks, provider |
| `Inbox` | notifications, their API, page and bell |
| `UploadPage` | the page, and the server's two answers |
| `Migrations` | the revisions as scripts of schema commands, and the ORM models |
| `FileReaders` | `MockCommands`, `GcodeText`, `GcodeBinary` and `UploadValidation` side by side: the readers of an uploaded file |
| `Portal` | `Accounts` over either adapter, `HelpChat` and `Inbox` side by side: who may do what over the API |
| `Books` | `Spools`, `QueueSchedule`, `Reports` and `Migrations` side by side: what is kept about the farm |
| `MCPrintFarm`, `MCMockPrinter`, `MCFileStore`, `MCFiles`, `MCRequests`, `MCBooks` | instances of `PrintFarm`, `MockCallers`, `FileStore`, `FileReaders` (with `FileStore` beside it), `Portal`, `Books` |
| `MCPages` | `UploadPage`, `HelpChat` and `Inbox` side by side, with fairness: what a browser's tab shows |
| `PrintFarmProofs`, `MockPrinterProofs`, `FileStoreProofs`, `FilesProofs`, `RequestsProofs`, `BooksProofs`, `UploadPageProofs` | theorems about `PrintFarm`, `MockCallers`, `FileStore`, `FileReaders`, `Portal`, `Books`, `UploadPage` |
| `MigrationsProofs` | lemmas about the `Schema` of `Books`, which `BooksProofs` extends |

`FileReaders`, `Portal`, `Books` and `MCPages` put components side by side that share
no state: the initial state chooses one, and a behaviour is that component's, so their
states add up instead of multiplying, and a property of one is stated "while it is the
one that runs". Each extends its first component, whose theorems carry over
(`BooksKeepSpools`, `ReadersAnalyse`, `PortalKeepsAccounts`), and takes the others as
instances.

### PrintFarm and the code

State: `status`, `printer_id`, `submitted_at`, `printer_job_id`, `paused`
(`paused_at IS NOT NULL`) and `notes` are the job's row and its owner's
notifications; `printer_status` is `printers.status`; `files` is the upload
directory. `pc`, `todo`, `at`, `seen`, `snap`, `pick`, `old`, `late` are where
the poller thread is and its locals. `req`, `cmd`, `clock` are the handlers in
progress. `reported`, `running`, `job_ids` are the printers; `runs` and
`printed` are history variables.

One action is one atomic step: a network call, a commit, or a file operation.

| Action | Code |
| --- | --- |
| `StartSweep`, `BeginSync` | `_poll_printers`, `sync_all_printers`, first lines of `sync_printer` |
| `ReadStatus`, `ReadStatusFails` | `port.get_status()` and its `except` branches |
| `Apply` | `_active_job`, `_apply_active_job`, the printer's status, the commit: one transaction |
| `Select` | the second `_active_job`, the removal hold, the queue's head |
| `Upload`, `UploadRefused`, `UploadFails` | `port.upload_and_start` and its `except` branches |
| `RecordStart`, `Confirm` | the two commits after it |
| `PollerRollsBack` | `except Exception: db.rollback()` |
| `SubmitCheck` .. `CommitSubmissionFails` | `submit_job` |
| `Send`, `Deliver` | `_send` up to the call, and the call |
| `MarkReady`, `RemoveFile` | `mark_ready_for_collection` |
| `SetPrinterStatus` | `update_printer` |
| `Crash` | the process dies; its locals and requests are lost |
| `BeginsPrinting` .. `StartsLocalPrint`, `GraceElapses` | the printers (external) and the clock |

Three details the model keeps because the properties turn on them:

- *A lost update needs a difference.* SQLAlchemy writes a column only when its
  new value differs from the one the session loaded; `WritePrinterStatus`
  compares with `seen`. The poller reads `printers.status` twice in a sync (the
  commit expires the row), and both readings are modelled.
- *Time is only START_GRACE.* `settled` holds the jobs whose grace is over,
  `old` the ones that were so at the poller's `now`. `GraceElapses` asks that
  the printer already reports a job it accepted: the grace is long enough for
  that. Only the adversity "slow upload" breaks it.
- *What Select reads is one moment.* Its three queries are separate statements,
  but only the poller adds printing or completed jobs, so what they return is
  what the last of them would find in all three.

The adversities (`"crash"`, `"lost reply"`, `"slow upload"`, `"local print"`,
`"maintenance"`) are a constant: each property is checked under all that it can
withstand. `MaxEvents` bounds the
unforced events of a behaviour (commands, faults, failures, crashes), in any mix
and at any points.

### The mock printer

`MockPrinter`: `thread[r]` is where `_run_print` is for the r-th print, `stop` and
`pause` the events, `state` and `phase` the transport's and the snapshot's, `req`
the requests in progress, each a sequence of steps between two reads or writes
outside the simulator's lock: `AskFile`, `Stores`, `Begins`, `Starts`, `Numbers`
are `upload`; `AskStatus`, `SetDefault`, `Tells` are `status` and `job`;
`AskControl`, `MatchesId`, `Checks`, `Acts` are pause, resume and stop; `AskReset`,
`Joins`, `ClearsSnapshot` are `reset`, whose join may time out ("slow join").
`AskFile` also has what Connect asks for, `AskCommand` what `/control` does. `MockCallers`
chooses at the start who calls: anybody, one client (`alone`), or a `plain` one, which
neither pauses nor stores a file apart and whose resets wait long enough.

`MockCommands` reads a line at a time; `position`, `absolute`, `used`, `nozzle`,
`issues` are the function's locals and `at`, `went`, `heated`, `told` what a
homed machine does with the same lines. The function treats G0 to G3 alike and looks at
where they end (`Reach`); the machine goes straight (`Move`) or swings by any place on the
way (`Arc`, `Circle`), and `went` tells a bed left at the end of a move from one left in
an arc. `Spools` has one action per entry point;
`kept` is `_validation_by_virtual_path`, and what a print takes is fixed at its
start and taken at its end; `forced` says that an old result was used or a spool
recorded during a print. In `MockCommands`, `renamed` says that G92 or a homing has
given the place another name.

### Stores and validation

`FileStore`: a request is the job it makes, `progress` how far it is. `Submission` and
`Upload` are `submit_job` and `upload_gcode` up to the file; `Storing` the steps they
share: make the directory, write, commit, undo, tidy. What a written file may meet is told
apart: `Commit`, `CommitFails` (undone), `CommitUnheard` (committed, undone all the same),
`FailsUndone` (the query before the `try`, or a rollback that fails: nothing is undone),
and in the undoing `UnlinkFails`, since `os.remove` raises and `delete_if_exists` returns
before either removes the directory. `PrinterRow` has the deletion in the two steps the
code has: the look for jobs, then the delete. `Crash` drops every request. A file is
`"partial"` between its first and last byte. Two history variables say where the code
keeps no promise: `unread` (a commit whose request did not learn of it, or could not read
the row back, and took the file away) and `stranded` (nobody will look at the file or its
directory again: a crash, a removal that failed, a failure out of reach of the undo).

`GcodeText`: an action per kind of line, `Ends` for the checks at the end of the
file, `Extracts` for `extract_metadata`. `GcodeBinary`: `Header`, one `TakesBlock`
per block, with every bounds check in order (`Problem`), `Ends`.
`UploadValidation`: one action per stage and way out; the parsers' verdicts are
choices there.

### Schedule, reports, accounts, help, migrations

`QueueSchedule`: `get_print_queue` is the whole request, including the storing of
estimates; `Submit`, `Starts`, `Ends`, `PrinterStatus` are what the other modules make
of the jobs, `Tick` the clock. In a behaviour that is `punctual` from the start the farm
is on time and every job has its printer from its submission.

`Reports`: `Apply` is the staff page's button, all requests of one filter over one
table. A sum is the library's `SumFunction` over the rows or jobs it is taken of. Times and
filament are floats in the code: here they are counted in parts of a minute and a gram,
`Grain` of them to the one, and rounded where the code calls `round`, per row, per day and
in total, a tie to the even neighbour (`RoundDiv`).

`Accounts`: `Start` is a start of the backend with its seeding; a client's request
goes through `req` step by step: `ReadsProfile`, `CommitsProfile`,
`ReloadsProfile` are `get_or_create_profile` around its unique constraint. `Fake…`
and `Supabase…` are the two adapters, of which the settings choose one for all starts
(`adapter`). `Asks` is any guarded route. `Promote` is the SQL that testing.md has an
operator type to give a profile a role; `granted` keeps which roles above student were
given, to whom and since which start.

`HelpChat`: `Receive` opens the client's HTTP client, `Check` is the limiter with all
that runs up to the provider's call, `Reply` the provider, `Close` the dependency's exit.

`Migrations`: `Can` and `Do` say what PostgreSQL makes of a schema command, `Run` what
of a script, which stops at the first that is refused, and `Up[r]` and `Down[r]` are the
scripts. `HeadIsModels` compares with the models'
own definitions, translated separately.

### Pages

`Inbox`: `Poll`, `Answer`, `Receive` are a timer's load, its answer in the database
and its arrival; loads overlap and arrive in any order (`Receive(x, i)`). `UpdateAll`
and `CommitAll` are the statement and the commit of read-all. `UploadPage`: `Pick`,
`Checked`, `Submit`, `Served` are the handlers of `live-upload.tsx`, `Serve` is
`submit_job` at the server, `Turn` a printer going up or down; `hasty` (a file picked
while one is checked or submitted) and `lost` (an answer to a submission lost) are
history.

## 3. Runs

| Run | Instance | Shows |
| --- | --- | --- |
| `farm_adverse` | 2 jobs, 1 printer; crash, lost reply, slow upload, local print; 2 events | the database stays in order whatever happens; the notifications of a job tell one story; a file is kept while it may be printed; `JobLifecycle` is implemented |
| `farm_prints` | 2 jobs, 1 printer; maintenance; 2 events | while nothing blinds the backend, database and printers agree, a job is printed once and only onto a clear bed, a command reaches its job |
| `farm_live` | 2 jobs, 1 printer; crash, lost reply; 1 event | an ended print is recorded; the queue moves |
| `farm_lost_start` | lost reply; 1 event | *violation*: a job is printed twice |
| `farm_maintenance` | maintenance; 1 event | *violation*: the poller ends an administrator's maintenance |
| `mock_calls` | one caller of any kind, a plain one, or two that interleave; 2 prints | never two prints; one caller is told right numbers and reaches the print it means; for a plain one the mock is the printer that `PrintFarm` assumes; a stop ends a print |
| `files` | every file of up to 6 lines, 4 settings, 2 blocks, 5 commands; two fields of the metadata wrong; a submission and 2 uploads of a user | what is accepted is well formed, whole, coherent and within its printer; rows, files and directories stay in step through failures and crashes |
| `store_delete` | the same submission and uploads | *violation*: a printer is deleted under a job |
| `requests` | 2 addresses, 2 clients, 2 starts, a promotion by hand; 3 calls; 3 notifications | one profile per account and no role nobody gave; at most N calls in a window; one reads one's own |
| `requests_roles` | the same | *violation*: a start changes the role of a saved profile |
| `pages` | 2 picks, 2 submissions; 2 calls; 2 overlapping loads | what is shown and queued is right, and nothing hangs |
| `books` | 2 toolheads, 4 files; 3 and 4 jobs; tables of up to 3 of 10 jobs with fractions of a gram; all orders of 10 revisions | filament adds up; plans are in order, without gaps, kept when all is punctual; tabs agree; every path of revisions ends at the models |

*Bounds.* In the farm each hazard concerns a job and its predecessor or successor on a
printer, and printers are coupled by nothing but the poller's one thread; the theorems
hold for any number of both. Two events let a failure hit the recovery from another. At
the mock a fault needs a print and the next; numbers go one further, for a file stored
without a print. In the store submissions share nothing but their printer's row, so one
is enough, beside the two uploads that share a directory. One promotion, of the student
to farmer, comes between any two starts; three listings leave out, confirm and
contradict it. Six lines hold two config blocks, complete or not, and a tail longer than
`TailLength`; two blocks are one that is walked over and one that is cut. The limiter's
bound is 2 calls in a window of 2 units, so the third call may be inside, at the edge or
past it. Three jobs that may be late are one that runs, one that waits behind it and one
without a printer, over two ticks of the clock; only the first may lack a duration.
Punctual farms have four jobs and the whole clock. Tables hold one job of every status,
place, day and kind of gap, and figures are sums over single jobs, pairs or three; grams
are counted in eighths, with ties and both sides of them. Times in `QueueSchedule` are
multiples of a tick on either side of the grace and the default duration.

*Symmetry.* Jobs of the farm and printers of the plan are only compared. In `requests`
the clients of the accounts are exchanged by `UsersAlike`. Two of the three calls to the
assistant are one client's; one of these says anything, and then the clock stops at 1. A
service seeds nobody, and its ids end at 3. `UsersAlike` and the `Swaps` of `books` are
used with action properties, never with liveness. `pages`, `farm_live` and `mock_calls`,
which check liveness, use none. In `mock_calls`, `Restricted` keeps two callers to the
requests whose interleaving can do harm: prints, stops, commands and resets, not pause,
status or a file that is only stored, and caps the numbers one lower; one caller makes
all but those over Connect, which come from elsewhere.

*Composed properties.* A run of several components states the promises that belong
together as one property, a conjunction of the components' own, each of them named and
defined in its module: `ParsersAreExact` and `PassedFitsThePrinter` of `files`,
`NothingSlipsThrough` and `EveryoneOnTheirOwn` of `requests`, `NothingHangs` of
`pages`, `PlanIsSound`, `ReportsAgree` and `PromisesKept` of `books`.

*Deadlock* is checked in the farm and the mock: the poller can always take a step,
and so can a caller. The other systems stop: a file has been read, every bounded
request has been made, every revision has been refused.

*Fairness.* Weak only. `farm_live`: `BackendFairness`, as `_poll_printers` survives
every exception, an accepted request is carried through and time passes;
`WorldFairness` is assumed of people and printers: a print is reported and ends, a
paused print is resumed, a display is cleared, farmers collect. A commit may fail for
ever only within `MaxEvents`. `mock_calls`: the print's thread runs. `pages`: a
request is answered or fails (`httpx` and the browser have timeouts), a timer
ticks, a dependency's exit runs. Nothing is assumed of what users do.

### What the violations say

- `farm_lost_start`: the start is recorded only after the upload's answer. A
  lost answer leaves the job queued; the next sweep that finds the printer ready
  sends it again. The risk register (R04) names the ambiguity; the docstring
  "It is safe to call repeatedly" does not hold of it.
- `farm_maintenance`: the check for maintenance and the writes of
  `printer.status` are on both sides of network calls.
- `store_delete`: `delete_printer` answers "409 if referenced" for jobs it finds in its
  look. A submission that read the printer before commits between the look and the
  delete; `Printer.print_jobs` has no cascade and `printer_id` may be NULL, so the delete
  clears the job's printer and succeeds. The job stays queued and no printer looks for it.
- `requests_roles`: the docstring of `demo_accounts.py` and testing.md say that a profile
  which was saved keeps its role. `seed_demo_accounts` sets the role of the settings, at
  every start: a promotion by hand of a listed address lasts until the next one. The
  repository's test of it expects the role to be updated.

### What the code does not promise

Some properties hold only beside a condition, an adversity that is left out or a
history variable, because the code does otherwise. Where a text of the repository says
more than the code does it is quoted, here or above:

- A slow upload uses up `START_GRACE`, since `started_at` is taken before it: the job
  may be completed by its predecessor's reading. `CompletedWasPrinted` is stated
  without slow uploads.
- Two callers of the mock: an upload that passed the running check before another
  began overwrites its file and is told of its print; a number raised after a start
  may be read with the print before; a reset may clear the state of a print that has
  just begun. One caller (the backend) meets none of these.
- A pause that passes the running check as its print ends leaves PAUSED behind with
  nothing running: a `plain` caller does not pause.
- A commit whose answer is lost, and a refresh that fails after an upload's: the file of a
  row that stays is removed (`unread`).
- `submit_job` writes its file, then asks whom to notify, and only then enters the `try`
  that takes the file back: when the query fails (submission_service.py:213), file and
  directory stay. So they do when the write itself is cut short, when the rollback or
  `os.remove` raises, and, for an upload or a collection, when the unlink fails, which
  `delete_if_exists` swallows though it is to remove the directory next. Nothing looks for
  such files again (`stranded`); `StrandedForAReason` says that each belongs to a request
  that was answered with a failure or not at all, or to a collected job.
- `delete_printer` takes no lock on the printer (`store_delete`). The parent directories of
  an upload are made and tidied by requests that race, so a write may fail for want of one;
  it is then answered as any failed write.
- The printer's availability is checked before a validation that takes seconds, and
  not again.
- A `.bgcode` file that cannot be copied for the converter leaves the converter's
  directory. A list of `filament_abrasive` that is empty, or does not parse and so
  counts as empty, is taken as "not abrasive". The safe end of a text file asks for
  M104 S0 among its last commands, not for none after it that heats again.
- After a seeding that failed roles are those of the seeding before, and a sign-up
  cannot repair a profile whose account is gone: `DemoAccountsAreReady` speaks of a start
  that `seeded` all. It says nothing of the role, which a later promotion may change and a
  start sets against what is written of it (`requests_roles`). A role that was given stays
  with its profile when the settings no longer name it; what `StaffAreListed` promises is
  that with the fake adapter its owner then has no account to use it with.
- Figures of filament and hours are rounded for each row, each day and the total, so what
  a page shows adds up within the rounding only: analytics-frontend.md says "Rounded series
  may differ slightly from totals." `TabsAgree` and `ChartsAgree` say by how much at most.
  The last bit of a sum of floats, which may decide a tie, is left out.
- The limiter's window slides with each client's calls, though a comment calls it
  fixed; `AtMostMaxPerWindow` is the stronger promise and the one that is checked.
- A stock check is kept with the file: a spool changed after it, or a print begun on
  it, may run dry (`forced`). A file with one weight for two tools takes it of one.
- `analyze_commands` looks at the end of a move. An arc (G2, G3) whose ends are on the bed
  may swing off it in between, and the file passes: `StaysOverTheBed` leaves "arc" open,
  and a circle, which names no target at all, is not looked at. It takes G92 as a move of
  the coordinates and keeps to the named ones; `StaysOverTheBed` ends at the first
  (`renamed`). A target is compared at the command that sets it.
- Page loads overlap: until the next poll the older answer may be shown (`Settles`
  is the promise), and a notification that commits during "mark all as read" is
  read unseen. On the upload page a file picked while another is checked takes that
  one's answer, and a lost answer makes the user submit twice (`hasty`, `lost`).
- Durations are rounded apart in hours and minutes, so 119.5 minutes read "1h 60m";
  `ShownIsClose` says it is right within half a minute. Shares are percentages of rounded
  hours and may pass 100.

## 4. Proofs

The inductive invariants are `IInv` where a module or its proofs define one, else named
below; `TypeCorrect` states `Spec => []TypeOK`. TLC checks `IInv` of `PrintFarm` and
`StoreInv` of `FileStore` as invariants too. Every invariant and action property of the
passing runs is stated by a theorem, but for those listed at the end of this section.

| Module | Theorems | For any |
| --- | --- | --- |
| `PrintFarmProofs` | `Invariant`, `TypeCorrect`, `BedHoldAlways`, `Implements` (`JobLifecycle`), `FileKept`, `StoryAlways` | jobs, printers, adversities, `MaxEvents`; the two "no job" values differ and are not jobs |
| `PrintFarmProofs` | `AgreementAlways`, `PrintedOnce`, `RunningKnown`, `CompletedPrinted`, `NoPrintOntoPrint`, `CommandReaches` | jobs, printers, `MaxEvents`; adversities outside `Blinding` (`Calm`) |
| `MockPrinterProofs` | `TypeCorrect`, `OneRunAlways`; `AloneIsTold`, `AloneReaches`; `Implements` (`PrinterContract`), for a `plain` caller | callers, operations, bounds |
| `FileStoreProofs` | `StoresInStep`, `FilesAreThere`, `NothingOrphaned`, `NothingLeft` | requests, printers, placing of files in directories |
| `FilesProofs` | `StaysOver`, `HeatsWithin`, `ToolsAreThere`, `DoesNoHarm`; `StagesAlways`, `PassedFits`; `WholeIsAccepted` | bed, steps, temperatures; uploads and their metadata; texts of any length, tails, and .bgcode files of any number of blocks, cut off anywhere |
| `UploadPageProofs` | `QueuedFitsAlways`, `ConfirmsAlways`, `SubmitsWhatWasChecked`, `QueuedOnce`, `TellsTheTruth` | files, places, picks and tries |
| `RequestsProofs` | `ProfilesAreTheirs`, `ProfilesRemain`, `SecondSignIn`, `DemoReady`, `StaffListed`, `AccountsFit`; `NothingGetsThrough`, `EachOnTheirOwn` | addresses, clients, settings, starts, either adapter; conversations, limit, window; notifications, owners, page size, loads |
| `BooksProofs` | `NeverDry`, `StockAccountedFor`, `TakesItsNeed`, `FilamentAccountedFor`; `QueuePageIsSound`, `PromisesAreKept`; `ReportsDoAgree`; `SchemaSound`, `DataSurvives` | toolheads, files, weights; jobs, printers, users, durations; tables of jobs and filters; names |

*Assumptions.* Each module names what it needs of its constants, and TLC evaluates it on
the instance of a run. They say of what kind the constants are (sets are finite where
they are counted, bounds and sizes are natural numbers, files are sequences of the kinds
of line the parser tells apart) and no more, but for these: a .bgcode file is a whole
file cut off anywhere, or whole (`BinaryAssumption`); whoever was staff before the first
start has one role (`StaffAssumption`); tables hold jobs whose times and grams are whole
numbers of parts, however small the part (`Grain`), and every submission is by a known user
(`ReportsAssumption`); a place is a printer or "any"
(`QueueAssumption`); a name has a word at least, be it the empty one
(`MigrationsAssumption`).

*The poller.* `BedHold` is not inductive: `RecordStart` writes "printing" after an
upload that takes seconds, on what `Select` read before it. `PickIsNext` carries it
over: while the poller holds a job, that job is still queued and its printer still
free, because every step that could change this is the poller's own. This is where
the proof would fail with two pollers. `RequestsAreNew` says that a submission in
progress has no row, so its commit cannot put back a job that was already printed;
`PausedIsPrinting` gives the refinement's `Resume` its guard. `FileKept` needs
`RequestsKeepFiles`: a submission about to commit has stored its file, and a removal
is under way only after its commit. `StoryAlways` goes by what each status and pause
says the notifications end with.

*Database and printers.* `Calm` is needed: `farm_lost_start` shows a property
violated without it. `Agreement` is what makes the grace of `_apply_active_job`
work. `StartedOnce` says that a printer gets a job exactly as it leaves the queue.
`FinishedIsItsOwn` and `GraceCoversTheStart` are the two halves of the argument
about a leftover FINISHED: a printer that no longer runs the job and says FINISHED
has finished it, and one that still runs it no longer says FINISHED once the grace
is over. `ReadingIsItsOwn` carries this from the status call to the commit, since
`old` was taken before the call and the printer may change after it.
`CommandReaches` adds `NumbersNameTheirJob`: a number the database or a command has
for a job is behind its printer's, or the printer runs that job or nothing.

*The mock.* `LatestOnly`: of all prints only the latest can be alive, since
`start()` looks at the latest thread under the lock. For the refinement a plain
caller must be assumed: the contract's accepting of a job is the simulator's start, and
between it and the number nobody else may look. `AloneIsTold` and `AloneReaches` allow the
one caller everything: what a request has seen is still so when it acts (`CallOK`), and a
number that was told is of the latest print, of an earlier one and smaller, or is
about to be raised (`ToldOK`).

*Stores.* `RequestsAndRows` ties each step of a request to what is in the row and on
disk: nobody but the request itself touches either before the commit, which is where
fresh ids are used. `AnsweredWithout` is the reason nothing is orphaned but what is
`stranded`, a set that only the failures named above add to. That files are
in directories that exist is inductive only because an empty directory alone is removed.
`DirsUsed` says that a directory that exists is in use, by a file or by a request that
has yet to write or to tidy; with no request under way, that is `NoEmptyDirs`.

*Readers of a file.* Of the commands, the code's position is the machine's until the
first renaming (`Followed`), and every harm leaves an issue behind (`Noticed`). Of the
stages, `ReportsOK` says how many have passed at each place of the function and
`MatchedOK` that past the matching the profile is one that fits; that it is the only one
is the profiles' own. A .bgcode file is walked with the offset at the end of a block and
within the data (`AtAnEnd`), and the length of the data is where a whole block ends
exactly if no block is cut (`CutOff`): where blocks end is a function by recursion, and
only grows. A text is read with markers counted as far as one (`MarkersOK`), every
command at its place from the end (`CommandsOK`) and every key's values in the order of
the file (`HistoryOK`); two values conflict in the set of what was said exactly if two
lines do.

*Spools.* `ValidNamesOneTool`: a single weight is found valid only for one tool, so what
is checked is what is taken.

*The plan.* `compute_queue_schedule` places one job after the other, so the proof is an
induction over the jobs placed (`Sched`): who has an estimate (`WhoIsPlanned`), each
printer's prints one after the other and free after the last (`OneByOne`), and no
printer idle while a job could run (`Busily`), which counts the printers that have
something to end: they differ because no job is the last of two (`LastOnes`). Promises
are kept because the punctual plan is determined: two plans in which every job starts as
soon as what is ahead of it has ended are equal (`TurnsAreUnique`), and what is stored
is one of the farm as it goes on (`Settled`).

*Reports.* A page is a function of the table (`ReportIInv`), so this is about data: a
figure and the sum of the rows' figures add up the same jobs. `SumFunction` takes one
element after the other by CHOOSE; `SumFunctionIs` shows that it counts units, one for
each that the function has at each element, and `SumOfParts` that a set sorted by a
key has in its parts together what it has as a whole. What remains is that each row is of
a part, that each chart's label is a card, that a price depends on the time alone, that
rounding a pro rata price is monotone, and that a rounded quotient is within half of the
quotient: summed over the rows that is what the tabs and the days may be apart.

*Migrations.* A script is a recursive function of its commands, so a revision is proved
by walking it: after the k-th command the database is this one (`Upto`, `CommandIs`).
The invariant `SchemaIInv` says the database outright, as a function of the revisions
applied: the tables of users, printers and jobs, the roles and the indexes. With it each
of the twenty scripts has one lemma, which says that it is not refused and that it leads
from the function's value before to its value after. What the revisions alone do not
determine is carried along: labels of enum types, which stay when their revision is taken
back (`StatusesOf`, `NewsOf`), so that applying it again must allow for them; the width of
Alembic's own column, which 0002 needs widened and nobody narrows (`WidthOf`); whether a
column is `department` or `unit_code` before 0003, by the kind of the first database; and
the rows, each of which has the columns of its table (`RowOk`). `PendingOk` says that a
job which waits for a selection has no material, and is why the downgrade of uploads is
refused exactly while there is one, so that no status is left that nobody knows. The
names are followed through the split at the first word and the join, for names of any
number of words: an empty rest joins with a space, which `FullName` takes off.

*Upload page.* `AnswersTellTheTruth`: an answer "queued" is of a job that is queued.
`Counted` bounds the jobs by what was sent. `FormGoes` gives `QueuedOnce`: a
pick that is queued has its answer on the way or shown, so its form is gone.

*Accounts.* `OnePerson`: account and profile that share the address or the id share
both. `Fresh`: the next id is nobody's, and a seeded account takes its profile's.
`StillSo` is what makes the race of two first sign-ins work: whatever a request read of
a confirmed account is still so, since accounts go only with the process that serves the
request. `Bounded` bounds the ids, and with them the accounts, by counting;
`AnsweredByRole` and `RolesAreGiven` say where a role above student can come from, and
`AccountsAreListed` that who has one of the fake's accounts and such a role is listed now or
was promoted since the start.

*Help chat and inbox.* `KeepsTheWindow`: of each client's calls since any time still in
the window, the list of times has exactly as many, whatever was cut off before; so the
limiter, which looks at one list, bounds every stretch. `Passed` follows a call from its
check to the provider. In the inbox, every page that is shown or under way is the
reader's own, in order and no longer than fits (`OwnPage`); that the query returns such
a page is an induction over its filter and limit (`Lists`).

*Side by side.* Where components share no state, the invariant is a conjunction: while one
runs, its own holds (`ReadersIInv`, `PortalIInv`, `BooksIInv`).

*Data.* What a fold or a recursive function computes is proved by induction with a set in
place of a predicate (`InductionUpTo`, `RecursionUpTo`, `InductionOnSubsets`), since the
library's induction theorems take an operator, which the installed provers cannot
instantiate. `FilesProofs`, `RequestsProofs` and `MigrationsProofs` each begin with the
few lemmas of this kind that they need.

Only model-checked: liveness (`EndedPrintIsRecorded`, `QueueMoves`, `StopEndsThePrint`,
`Settles`, `NothingHangs`), which needs fairness and ENABLED.

## 5. Not modelled

- Materials, and the creation and other columns of printers: writes of a single row
  that nothing waits for. Scripts: run once, by hand.
- Wording, farmers' copies of notifications, the `CollectionRecord`: written in the
  commit of the change they belong to. HTTP and Digest detail.
- The mock's rules about metadata (the same checks as the backend's, again), its
  monitor (temperatures for display), the download from Connect and the HTML page.
- Layout, charts, sign-in forms and the unused site template of the frontend; material
  and user filters of the reports, which are like the printer's.
- The update of a spool's `remaining_g` by two threads at once: `Spools` has whole
  requests, and how they interleave with a print is in `MockPrinter` without the filament.
- Two backend processes: the documents require one dispatching instance, and the
  proofs depend on it.

## 6. What is left

`Migrations` has one user and one job; its invariant already speaks of any rows, so more
would cost the model checker only. A second poller would show what the removal hold
loses: it needs the poller's locals per process, and the proofs of `PrintFarm` say which
step fails. The refinement of `PrinterContract` could be widened to a caller that pauses,
if the mock's late PAUSED were part of the contract.
