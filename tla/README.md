# Formal models of synthesist

TLA+ models, TLC runs and TLAPS proofs for synthesist and its claim substrate
(`claim/`). Paths below are relative to the repository's root: `claim/src/...`
is the substrate crate, `src/...` the command-line crate; a file named without
a directory is in one of the two.

## The system

synthesist keeps the state of a project as *claims*: JSON-LD documents, one per
line, in `claims/<asserter>/log.jsonl`. Claims are never changed. A later claim
*supersedes* an earlier one by naming its id; the claims nobody supersedes are
the live heads, and they are the current state. Every CLI command is a process
of its own. It answers queries from a redb index (`_view.gamma`), a disposable
cache that each process brings up to date when it opens it. Clones exchange
logs through git.

| Component | State | Operations | Properties that make it correct |
|---|---|---|---|
| Log writer/reader, `claim/src/log.rs` | `log.jsonl`, `log.jsonl.tmp`, directory entries | `append` (read, write tmp, fsync, rename, fsync dir), iterate | append-only; an acknowledged line survives kills and power loss; readers see whole lines |
| Heads signal, `claim/src/heads.rs` | none | `current_heads`: line count per log | equal signal means equal content |
| Gamma index, `claim/src/gamma.rs` | redb tables and stored signal, exclusive file lock | `open`/`sync`/`rebuild`, typed queries H1-H10 | an index taken to be current is current; it never goes back; readers see what was published before they opened it |
| Asserter grammar, `claim/src/asserter.rs` | none | normalise, parse, the writer's guard | no attribution is changed or dropped that need not be |
| Store, `src/store.rs` | cached index handle | discovery, `append`, lazy open | one estate per place; read-your-writes |
| Dispatch and gates, `src/main.rs` | none | rejection layer, session gate, phase gate | a command runs only where surface, session and phase allow it |
| Surface, `src/surface/`, `src/cmd_surface.rs` | sticky setting, manifest files | use, show, resolution | nothing runs that no surface permits; one can always switch back |
| Session, `src/cmd_session.rs` | Session claims | start, close, list, status | an opener is closed once |
| Phase, `src/cmd_phase.rs` | Phase claims | `phase set`, `phase show`, `check_phase` | one live phase per session; transitions follow the table |
| Task, `src/cmd_task.rs` | Task claims | add, claim, done, block, wait, cancel, update, acceptance, reset, ready, list, show | one live head per task; a claim is exclusive; no cycles by an update; work to do is listed |
| Spec, tree, campaign, discovery, outcome | their claims | add, update, close, show, list | nothing is lost by a revision; a revision of what was agreed is flagged |
| Conflicts, `src/cmd_conflicts.rs` | none | diamond listing | every unresolved fork is listed, and can be resolved |
| Status, check, export | none | projections of the live claims; schema walk; dangling references | readers agree; what was written passes |
| Schema, wire format, integrity, SHACL | none | validators, names of predicates and the way back, shapes | what is written is valid when read back, and the shapes ask for no more |
| Import, `src/cmd_import.rs` | none | replay in topological order with remapped ids | broken edges counted, live heads copied |
| Migrations, `src/migrations/` | schema record, backup | plan, apply, v2 to v3 | a stamped estate is complete; no head is lost to a crash |
| Jig, `src/cmd_jig.rs` | results under `claims/_jig` | run, aggregate, lists | what ran is found again |

Interaction: the rejection layer looks for the estate and its surface; the gate
opens a store and through it the index; the index reads the logs; the handler
opens the index again, reads, and appends through the store to the log of its
asserter (user and session). The only shared state between processes is the
estate: the logs, without any lock, the index under redb's exclusive lock, the
sticky setting and the manifests.

The hard behaviours are the interleavings of these processes (appends land
between any two steps of a rebuild; a second writer of the same log; the gate
and the handler read separately; an estate is created while others search for
one), crashes inside the append protocol and inside a migration, chains forked
by clones, and documents whose fields a chain of hand-written projections has
to carry. `PROJECT.json` lists them at their lines.

## Modules

    ClaimLog      what one log promises            <- implemented by LogWriter
    LogWriter     the append protocol on files
    GammaIndex    appends, heads signal, index       (grain justified by LogWriter)
    ClaimGraph    typed queries over a set of claims
    Phases        phases, transitions, what each forbids
    Workflow      sessions, phases, task commands    (grain justified by GammaIndex)
    Clones        forks and merges                 <- implemented by Board
    Board         tasks and dependencies, specs and snapshots, trees, on clones
    Documents     schema, wire form, revisions, export form of a document
    Views         what each reader shows of a document
    Shapes        the SHACL shapes
    Surface       surfaces and the sticky setting
    Cli           layer, gates and handlers over Surface, Documents, Views, Shapes
    Estates       where each command finds its estate
    Asserters     the asserter grammar
    Migration     v2 estate to v3 logs               (grain justified by ClaimLog)
    Import        sort and replay of an export
    Transfer      Migration and Import composed
    MC*           values for the constants of runs, and their parts
    Prefixes, GammaIndexProofs, BoardProofs, WorkflowProofs, EstatesProofs,
    CliProofs, LogWriterProofs, TransferProofs
                  theorems

**LogWriter** models `LogWriter::append` on one asserter directory with inodes,
a shared temporary file, per-descriptor offsets (a write past the end of a
truncated file leaves a hole), the page cache (`inode`, `dir`) and the disk
(`disk`, `diskDir`). One action per system call group, `Abort`, which is a
failed call or a kill, at any point, write-back at any time and `PowerLoss`. The
directory is there and its entry in `claims/` is on disk from the start.
Documents are tokens, and writes are of whole lines. `ClaimLog` is its abstract
specification: lines become readable one at a time, and a power failure goes
back to a state that holds every acknowledged line. The refinement maps
`visible` to what a reader of `log.jsonl` sees and `durable` to what it would
see after a power failure.

**GammaIndex** takes an append as a read and a publication, which is what the
rename makes of it, and models `Gamma::open`: lock, count each directory,
compare, begin the rebuild, read each log, commit. The tables are the lines they
were built from; the blake3 digest of the counts is taken to be injective, and
redb's lock and atomic commit are as redb documents them. `genesis.jsonld` is
one more log that nobody appends to, and is left out; blank and malformed lines
are skipped by the reader, and are left out too. `since` is a history variable:
the logs at the moment a process began to open the index.

**Workflow** runs commands on one clone. The gate is one step, because nothing
depends on how long it holds the index, except that others fail meanwhile, and
they may fail anyway. A handler is two steps: open and read under the lock, then
check and append. `read' = claims` in the first is `FreshSnapshot` of
GammaIndex; the lock keeps out every other command that reads, and
`session start`, which appends without reading, may come between. A claim
carries the data the commands tell apart: status or phase, owner, and whether
acceptance criteria are declared. `live_tasks` copies neither owner nor
criteria, hence `NewClaim`'s defaults in `Revise`. Two identical claims by one
asserter in one millisecond would share an id; ids are distinct here. Two
processes with the same asserter can lose an append to each other only when one
does not hold the index (LogWriter, run `log_shared`); that loss is not repeated
in this module.

**Clones** is what claims promise whatever they are about: a command appends one
claim that supersedes nothing or a live head that its clone has, and `Pull`
takes the union of two clones' logs. Ids are taken from a set in any order,
since they are hashes. **Board** implements it with the commands: tasks with
their dependencies and status, `task update` with the walk of its cycle search,
specs with the snapshot they were agreed against, trees; readiness, dangling
dependencies and the plan-at-risk overlay are operators. Here a command is one
step, which Workflow justifies. A lookup takes the first of the live heads by
id where the code does, and the last where it collects into a map. The clock is
`Now`, the number of claims made so far.

**Documents** has JSON values as tokens (a non-empty string, the empty string,
arrays by kind, null, a number, absent) and tells what each validator accepts,
how properties become predicates and come back, what each command adds or sets,
and which fields its projection copies when it rebuilds a claim. **Views** has
the projections of export, list and show, and of status but its list of trees,
**Shapes** the SHACL shapes with their cardinalities, by the names of
properties. **Surface** has the command registry, the builtin manifests,
resolution and the sticky setting, which is written in two steps. **Cli** runs
whole commands over them: `Begin`, the two steps of the rejection layer, the
gates, and one handler action for each way a command ends. A handler that writes
reads and appends in one step here, which Workflow takes apart. `Receive` is a
claim that comes by git or import, of an earlier version or from another
program.

**Estates** models the searches: `SynthStore::discover` for the layer and for
store commands, and the ways `overlay run`, `migrate`, `init`, `jig` and
`jig aggregate` have of their own, directory by directory, while other processes
create estates.

**Asserters** has asserters as sequences of segments: what the normaliser makes
of them, what the strict parser accepts and what the log writer makes a
directory of. Which segments are unsafe, and what they become, are constants.

**Migration** models `synthesist migrate` on an estate, the list of v2 claims
that `Store::load_claims` returns: plan, truncate and fill the archive, one step
per claim of the loop, truncate and fill `_schema.json`. `Abort` is a kill or an
error at any of these points. `Work` is a session that supersedes a live claim
between attempts: `discover_from` takes any `claims/` directory, migrated or
not. A claim is its id, the id it supersedes, whether its type lets it move, and
its asserter. A dry run writes nothing and is left out.

**Import** models `synthesist import` into a fresh store: the passes of
`topo_order_rows`, then one step per row, which is appended with a remapped edge,
refused for its asserter, or fails to be appended. A killed import is a
behaviour that stops. `dangling` and `skipped` are the counts the command
prints. **Transfer** runs both: `ExportLines` is what `synthesist export` emits
of the logs, at any point between attempts, and `ExportV2` the export of the v2
program, an external part that emits the estate's rows in any order.

Definitions commented `Mutant:` are faulty variants of the definition below
them. No specification uses them; substituting one shows that a property
notices that fault.

## Runs

| Run | Checks | Bounds |
|---|---|---|
| `log_one` | `TypeOK`, `AbstractSpec` | 1 writer, 3 lines: an append after a crash, after an append, and both |
| `log_shared` | `AckedLinesKept` is violated | 2 writers |
| `index_own` | `SyncInv`, `IndexMatchesHeads`, `FreshSnapshot`, `IndexGrows`, `OpenTerminates` | 2 processes and logs of up to 3 lines: lines before, between and after the steps of a sync |
| `workflow_any` | `TypeOK`, `OneHead`, `HeldIsCurrent`, `TaskClaimAtomic`, `PhaseSteps`, `BulkResetSpares` | 2 processes in the same sessions, every command, 5 claims: a task added, claimed, revised by the other and reset in bulk, and a second one under the same tree |
| `workflow_gate` | `PhaseGateHolds` is violated | 2 processes in one session, 4 claims |
| `workflow_verify` | `DoneVerified` is violated | 1 process, 4 claims |
| `board_any` | `TypeOK`, `NoDangling`, `NoStarvation`, `SearchExact`, `UpdateKeepsAcyclic`, `RevisionsFlagged` | 2 clones, 4 or 5 claims about one part of the board: dependencies, work, a spec and a task it pins, trees; all graphs of 3 tasks for the cycle search |
| `board_conflicts` | `ForksListed` is violated | 2 clones, 1 task |
| `board_resolve` | `ForksResolvable` is violated | the same |
| `cli_any` | `CliTypeOK`, `WrittenPassCheck`, `CheckedAreUsable`, `ShownIsKept`, `ListsMatchExport`, `ShapesFollowSchema`, `Confined`, `Recoverable`, `NotShadowed`, `OneEstate`, `RunsShown`, `Attributed` | see below |
| `transfer_any` | `TypeOK`, `CompleteWhenStamped`, `HeadsSurvive`, `BreaksReported`, `CopiesHeads`, `LegacyKept` | estates of up to 3 claims in any order, targets in or outside the estate, cycles too, one claim of a type or with an asserter that stays behind or needs repair; 4 lines: every claim moved, and one written twice or superseded meanwhile |
| `transfer_resume` | `NoDoubleWrite` is violated | the same |

`cli_any` has four parts, each behaviour being about one. *Surfaces*: one
process runs a command of each kind of permission while another switches the
surface and someone edits the manifest file. *Gates*: every kind of command with
no session, the empty session and a session, forced and not, in every phase.
*Documents*: a log of two claims, where the first comes from any command or from
elsewhere (every type with every field there, with one field missing, or with
one field of each odd kind) and the second is any revision of it. *Estates*:
three directories one below the other, any of which are estates, one may hold a
v1 database, two processes, and after a `jig run` an aggregate. These do not
interact beyond what each part has, so a run of their product would show nothing
more.

Deadlock is not checked: every process may be idle for good, and the bounds on
lines and claims end each behaviour. Two actors are enough for races over one
log, one index, one task or one estate; that no more are needed is proved of most
properties (see Proofs). In `board_any` a new id is the smallest
or the greatest of those left, which gives forks whose sides come in either
order; the task symmetry is sound because tasks differ by name only.

What the runs show:

- One writer per log implements the promised log. Two writers do not
  (`log_shared`): the read and the rename are not under a lock, so a line whose
  append returned Ok is overwritten.
- With one writer per log, counting lines is enough although the signal is
  computed before the logs are read, because a stored count never exceeds what
  was read.
- On one clone the index lock, held from a handler's first read until its append,
  makes `task claim` and `phase set` atomic, and what a handler goes by is all
  there is (`HeldIsCurrent`). It does not span the gate: a phase set by a second
  process of the session in between lets a command write in a phase that forbids
  it (`workflow_gate`).
- A bulk reset takes no task that its session has not had in progress itself,
  though it lists first and resets later. It does take one that was completed or
  claimed by another meanwhile: see below.
- `task done` never sees the criteria of a task, since the query it reads with
  does not copy them (`workflow_verify`).
- Across clones nothing is lost, but since a claim supersedes one claim no claim
  resolves a fork (`board_resolve`), and `conflicts` stops listing it as soon as
  one side moves on (`board_conflicts`).
- The cycle search of `task update` refuses exactly the updates that put their
  task on a cycle, in graphs with other cycles, too, so cycles come only from
  `task add`, which does not search, and from merges. Where there is none and no
  dependency dangles, and tasks are pending or done, one of them is listed as
  ready, forked or not.
- The plan-at-risk overlay flags a spec in the clone where a command supersedes
  what the spec pins, although a later version of the spec has lost the snapshot.
- What commands write is valid when it is read back, every claim that `check`
  accepts can be revised, whoever wrote it, and a revision changes nothing that
  export shows but the fields it sets. Lists show what export shows. The shapes
  ask for nothing, field by field, that the validators do not ensure.
- A command that passed the rejection layer was permitted by a surface in force
  since it began, and a switch to a builtin surface always goes through. Claims
  carry the session that was given.
- Whatever is created meanwhile, no estate is created below one that was there,
  and a handler works in the estate the layer has looked at, or a newer, nearer
  one.
- The schema record, written last, is a sound mark of completion: no estate that
  has one, even a torn one, lacks a claim. No head is lost, whatever is killed
  and whoever works in between, and no claim stays behind for a legacy asserter
  of a known shape. But a resumed migration writes its claims again
  (`transfer_resume`): queries do not notice, since ids are equal, but an export
  has the lines twice.
- An import counts every edge that breaks, and copies the live heads of an export
  of distinct claims. The double lines above are no such export: of two equal
  rows only the later id is remembered, and the other copy stays live.

Fairness: `OpenTerminates` assumes that a process in the middle of a sync keeps
running unless it is killed: the code waits for nothing there, and the operating
system schedules every process eventually. Nothing is assumed of commands being
started, of locks being obtained, of write-back or of crashes. `NoStarvation` is
the safety half of "work gets done": which task is taken is up to agents, so no
fairness is justified there.

## Seen while modelling

Each is visible in a module, or in the code next to what it models, and left
without a run of its own.

Logs and index
- A new asserter directory's entry in `claims/` is never synced (`log.rs:169`,
  `238-252`), so the first acknowledged line can be lost with the directory,
  where `log.rs:21` promises durability. LogWriter starts after that.
- A log overwritten by another process at equal length leaves the index stale:
  the signal only counts lines (`heads.rs:71`).
- Directory names of asserters collide (`user:local:a-b`, `user:local:a:b`),
  where `log.rs:46` says one-to-one.

Sessions, phases and tasks
- A bulk reset resets what it has listed without another look at status or owner
  (`cmd_task.rs:661-673`), so a task completed or claimed by another meanwhile
  goes back to pending, where `cli.rs:450` says "all in_progress tasks owned by
  this session". `BulkResetSpares` is what holds. When it finds the index locked
  after some appends it fails, and does not report the tasks it has reset.
- `done`, `reset`, `block` and `cancel` apply to a task in any status
  (`cmd_task.rs:340-362`), where `cli.rs:434-474` names the ones they start from.
- An update of a claimed task drops its owner (`cmd_task.rs:171`), and with it
  what `task reset --session` looks for.
- The first phase of a session is not checked (`cmd_phase.rs:104-108`): it may be
  EXECUTE, where `skill.rs:458` says that every session starts in ORIENT and must
  go on to PLAN. `PhaseSteps` exempts it.
- An empty session (`--session=""`) passes the session gate, and its claims are
  not attributed to a session (`cli.rs:34-36`).

The board
- `task add` does not look at dependencies (`cmd_task.rs:213`) and merges can
  close a cycle, so the "DAG" of `cli.rs:78` may have one.
- A pin that was stale when it was made, because the later claim was pulled
  afterwards, is never flagged: the overlay compares times (`gamma.rs:697`;
  `README.md:218-220`). Clearing or renewing a snapshot does not clear the flag,
  where `cli.rs:332-338` says that an empty string clears: the overlay reads every
  version of the spec (`FlagsPersist` states it, `FlagsNeverCleared` proves it).
  `README.md:115` pins task ids where claim ids are needed.
- `task ready` opens a second index while its store holds the first, so its
  at-risk annotation is never there (`cmd_task.rs:399-416`), and it would match
  by spec id alone.
- A spec update resets the topics and drops the snapshot.

Documents and readers
- `status` shows closed trees as active (`cmd_init.rs:358-359`), where `tree
  list` and `export` say closed; `ListsMatchExport` says nothing of its trees.
  `tree add --status` reports a status it does not store (`cmd_tree.rs:28-43`).
- The SHACL paths are in snake case (`emit_shacl.rs:225`) and documents in lower
  camel case, which `wire_format.rs:127-129` says makes predicates align with the
  ontology. As printed, the shape of a phase asks for a `session_id` that no
  document has, so no phase claim conforms, and the shapes say nothing of
  `dependsOn`, `agreeSnapshot`, `blockedBy` and `linkedSpec`.
  `ShapesFollowSchema` compares shapes and validators by property instead, where
  both use the same names.
- An outcome `superseded_by` with an empty `linked_spec` is valid
  (`schema/outcome.rs:41`). The list of envelope keys in `schema/mod.rs` lacks
  two that `integrity.rs:30` asks to keep in sync. The schema walk also
  validates superseded claims, where `integrity.rs:5` speaks of live ones.
- An import does not remap the members of a snapshot (`cmd_export.rs:20`), and
  keeps `nomograph:` keys other than `parentAsserter`.

Surfaces and estates
- `overlay run` and `task ready` look for the estate from the working directory
  and ignore `SYNTHESIST_DIR` (`cmd_task.rs:440`; `cmd_overlay.rs:127`);
  `migrate` looks only at the working directory. With the variable set, the
  surface that was checked is another estate's.
- Any filtered command in a place without an estate creates one
  (`store.rs:236-257`), against the comment at `main.rs:93-97`; two at once can
  nest, and the nearer hides the other.
- `surface use` reports success though `SYNTHESIST_MANIFEST` still wins; a
  relative path is resolved against the working directory of every later
  command; no builtin permits `jig run`; no command unsets the setting.

Asserters, migration and import
- The writer's guard accepts asserters that the parser rejects (five segments, an
  unknown class, empty segments), although `asserter.rs:271-274` says they agree:
  a session named `a:b` writes claims that an import of the export skips. The
  converse holds and is proved.
- The backup of a resumed migration replaces the one made of the untouched estate
  (`v2_to_v3.rs:279`), where `MIGRATION-v2-to-v3.md:140` describes the latter.
- A kill while `_schema.json` is written leaves a file that no later `migrate`
  can parse (`schema.rs:55`).

## Proofs

Each theorem holds for every value of the constants that satisfies the module's
assumption; each inductive invariant was checked by TLC before it was proved.

**GammaIndexProofs**, for any number of processes, directories and lines: type
correctness without further assumption, and under `OneWriterPerLog` (what
`src/skill.rs` asks agents to arrange) the invariants `SyncInv`,
`IndexMatchesHeads` and `FreshSnapshot` and the action property `IndexGrows`.
`IndexMatchesHeads` is not inductive: it says nothing of a rebuild in progress.
`SyncInv` adds that everything trails the append-only logs: a count taken is at
most the length now, lines read are a prefix of the log and at least as many as
were counted, the index is a prefix and at least as long as the stored signal
says. Then equal signals squeeze the index between count and length. Its
preservation has a lemma per action; `Prefixes` has the facts on `IsPrefix`.
`OneWriterPerLog` is used where an append publishes what it read.

**LogWriterProofs**. Type correctness holds for any number of writers. With one
(`OneWriter`), LogWriter implements ClaimLog, step by step, and no acknowledged
line is lost; `log_shared` refutes the latter for two writers. The invariant,
`LogInv`, has two parts: the file being written is neither the log nor the log
on disk, and both of these are synced (`Apart`); and the temporary file holds
what the append has put there so far (`Appending`). Then a rename is a
publication and everything else a stutter or a step of the disk. The assumption
on the constants is that there are more inodes than directories and descriptors
can refer to, so that opening a temporary file finds a free one.

**WorkflowProofs**, for any processes, sessions and commands: types, `OneHead`,
`HeldIsCurrent`, `TaskClaimAtomic`, `PhaseSteps` and `BulkResetSpares`. The
invariant `IInv` says that ids are handed out in order and targets exist and are
superseded once (`Graph`), that a handler works under the lock, and what it read
there is still all there is but for session openers, which need no lock
(`Exclusive`), and that a process runs what it is given (`Assigned`). So what a
handler goes by still holds when it appends. A bulk reset goes by a list made
under an earlier lock; of that it is invariant that each task listed was in
progress under its session (`ListedWasHeld`), in a claim that may be superseded
since. Nothing is assumed of which processes share a session or of what they
run.

**BoardProofs**, for any clones, tasks, specs, trees and ids. Every command
writes one claim, dated now, which supersedes nothing or a live head of the same
thing (`Writes`), so the board implements Clones (`BoardImplementsClones`), with
`TypeOK` and `NoDangling`. `NoStarvation` follows from the types: of the tasks
whose last head is pending an acyclic graph has one that depends on none of
them, and since no dependency dangles and all others are done, it is ready.
`FlagsPersist` follows because logs only grow and `AtRisk` is monotone. Of this
and `ForksPersist` no run asks: they are proved as what the code does where its
documents say otherwise. The other properties rest on `History`: an id stands
for one claim, and an edge leads to an earlier claim of the same thing in the
same logs. *Revisions*: a new claim is dated after every spec there is, and only
specs pin. *Forks*: what a head has become is the least set that contains it and
is closed under being superseded; those of two heads of the old logs are
disjoint, because a claim supersedes one claim, and the latest claim of each is
live. So heads map one to one into the heads of any later logs. *Cycles*: after
as many rounds as there are tasks the walk is closed, since each round before
meets another one; so `Reached` is the least closed set, which holds the task
itself just when it is on a cycle (`OnCycle`), whatever other cycles there are.
Rounds are counted by the least exception among the naturals (`UpTo`), so no
induction over an operator is needed. An update may be hidden by a fork's other
head that comes last, which leaves the graph as it was. `BoardAssumption` says
that bodies hold the data of commands and that the graphs of `SearchExact` are
finite.

**CliProofs**, for any commands, manifests and processes: `Confined`,
`Recoverable` and `Attributed`. The invariant follows a command through the
layer: the reference it resolves is one that was in force since it began, what
got past the layer was granted or is exempt, a switch of the surface is never
filtered and is alone in writing the setting, and past the gate a session was
given or none is needed. Then the documents, of logs of any length. `LogInv`
says of every claim that what is not its envelope is a value and that it
supersedes an earlier claim, and of one that a command wrote, that its document
is the wire form of valid properties over the fields that commands set. Such
properties come back from the wire form as they were (`PropsComeBack`), since no
field's name is taken for another's or for the envelope's, in either direction.
From it follow `CliTypeOK`, `WrittenPassCheck`. `CheckedAreUsable`,
`ShownIsKept`, `ListsMatchExport` and `ShapesFollowSchema` need no invariant:
they hold of any properties whatever, the last of any that are valid, and are
proved field by field, from what each projection copies (`GetTexts`,
`GetStrings`, `GetLists`, `GetOver`) and what each validator asks (`TaskSchema`
and the like). The assumptions are that `surface use` has its argument, as clap
requires, that arguments are strings, and that what comes from elsewhere holds
JSON values and is attributed to no command.

**EstatesProofs**, for any directories, estates, calls and number of processes:
`NotShadowed` (`init` is exempt), `OneEstate` (for `overlay`, `migrate` and `jig`
when no directory is given) and `RunsShown`. The invariant says of each walk that
it stays above the working directory and has left no estate below it, save those
created since the command began; of the handler's walk, that it ends where the
layer's did or at a newer one.

**TransferProofs**. For segments of any kind and number: normalisation leaves
what the grammar accepts as it is (`NormalIsKept`), what v2 estates are known to
hold is accepted once normalised (`LegacyIsParsed`), and what is accepted is
writable (`ParsedIsWritable`). For any estate, and a migration that is killed and
resumed at will: `CompleteWhenStamped`, `HeadsSurvive` and `LegacyKept`, since the
claims before `next` are in the logs, which only grow (`MigrationInv`). For the
import of any export: `BreaksReported`, since the map leads to claims that are
there and a broken chain is counted in the step that makes it (`ImportInv`).
The sort puts every row once into the order, and if the rows have no cycle, each
after its target (`SortIsTopological`): a pass emits some row as long as one is
left, because of the rows that are left one supersedes none of them, so after as
many passes as there are rows none is. What a pass emits is counted by the least
position where a claim about it fails, so again no induction over an operator is
needed. Then `CopiesHeads` follows from `CopyInv`: while no row was refused, no
id is taken twice, what a row supersedes is written before it, and the claims are
the rows so far under the map's ids, which is one to one. Heads and dangling
edges are counted through that map. `TypeOK` needs of the sort only that rows
come once (`TransferInv`).
The assumptions are that estates and asserters are sequences, that ids of rows
are in their range and new ids above it, that the replacement of an unsafe
segment is safe and not empty, and that the words of the grammar are safe.

Only model-checked is liveness (`OpenTerminates`), which is out of the prover's
reach. Every other property of a passing run is a theorem, for all values of the
constants that satisfy the assumptions above; the type invariant of Estates is
one that no run checks (`TypesHold`). What the proofs do not change is what the
models leave out: the tokens that stand for JSON values, and which commands are
one step.

Functions are merged with an infix of Documents' own, `++`, and the sort's passes
are a recursive function, because the provers know neither TLC's `@@` nor
operators that take operators.

## Plan

1. Done: log, index, workflow, clones and board, documents with their readers,
   surfaces, gates, estates, asserters, migration, import. Proved: every safety
   property that a passing run checks.
2. Extend: runs of their own for the disagreements above that only need one
   (bulk reset, SHACL paths, first phase, snapshots cleared); ids that collide
   within a millisecond on import, and a second import into the same store;
   forked phases across clones; the first line of a new asserter directory.

## Not modelled

Telemetry (`telemetry.rs`) keeps normalised copies of query texts that no other
part reads; the skill text and the output helpers are text. Of jig, scenario
files and the layout of tables are left out, of overlays the rendering, of the
index the counting and acceptance queries (H1, H8), of the heads signal the
sidecar file that no command uses. JSON-LD contexts, PROV terms and the ontology
are tables of names; of them only the clock is modelled. The write surface of
the v1/v2 store is retired in the code. Argument parsing is clap's.
