# A TLA+ development of show-me-the-work

`show-me-the-work` (smtw) is a set of hooks for coding agents. Every event of a
host (a prompt, a tool call about to run, a tool call that ended, the agent's
wish to stop) starts a short Python process that reads and writes files under
`.smtw/`, and the last of them, the Stop gate, decides whether the agent may
stop: not while it owes a check of files that changed in its turn.

There is no daemon. All coordination goes through files, any number of hook
processes run at the same time (several tool calls of one agent, several
agents, several hosts), any of them may be killed by the host's timeout, and
the files of the workspace change under all of them. This directory models that
part of the program: what is locked, what is read before a lock and used after
it, what a killed process leaves behind and what the gate then decides.

Contents: [the system](#the-system), [the plan](#the-plan),
[modules](#modules-and-the-code-they-model), [runs](#runs-and-what-they-show),
[where the code disagrees](#where-the-code-disagrees-with-what-is-said-of-it),
[bounds](#bounds), [fairness](#fairness), [proofs](#proofs),
[what is not modelled](#what-is-not-modelled).

## The system

### Components

| component | state | operations | what makes it correct |
|---|---|---|---|
| owner lock (`core/file_lock.py`, `core/agent_log.py`) | a lock file with `pid:token`, its age, an flock | acquire, inspect and reclaim a stale owner, release, time out | at most one process inside; a holder's file is not taken from it; dead owners do not block for ever |
| ledger store (`core/ledger.py`, `ledger_storage.py`, `ledger_schema.py`) | `ledger.json`, a per-process read cache, damaged copies | load, save by replacement, set aside what is corrupt, mend what can be derived | a transaction reads what the previous one wrote; nothing recorded is lost, nothing good set aside |
| coordination outbox (`core/ledger.py`, `scorecard_coordination.py`) | outbox, receipts and their order, drain cursor in the ledger; `coordination.jsonl` | accept, drain, deliver, acknowledge | accepted events reach the journal, once each, with the body that was accepted |
| workspace manifest and lifecycle (`core/provenance_*.py`) | `workspace-current`, `manifest_generation`, `manifest_pending`; locals of a hook | view, scan, commit, rebase once, recover | the manifest never goes backward; a cut commit is finished or dropped; a change is recorded once, in a turn that answers for it |
| turn baselines (`provenance_lifecycle.py`, `provenance_lifecycle_scope.py`, `provenance_turn_resume.py`, `adapter_observation.py`) | a file for each turn, the turn's `baseline_status` and id | bootstrap, claim, prime, advance, degrade | a turn called ready has the baseline it names; a baseline hides no change |
| hook adapters (`adapters/claude_code/*`, `core/adapter_observation.py`, `adapter_change_events.py`) | invocation records | begin, finish, status, verification evidence, Stop | a check covers what it ran on and no more |
| turn ledger (`core/ledger_v2.py`, `verification_covers.py`) | active, closed and retired turns; pending revisions, results, attribution | apply an event, close, replace, retire | the pending revisions of a turn are what it changed and has not checked; a turn that is over stays over |
| Stop gate (`core/verify_state.py`, `design_gate_state.py`) | block counters, design results | judge a turn, block, give up | no pass without current evidence; a turn ends |
| gates before a tool (`core/contract.py`, `gate_counters.py`) | counters of intent and goals, a task contract | ask, block, count | blocks are capped; no high-risk call without a contract |
| scorecard (`core/scorecard_store.py`, `scorecard_cache.py`) | a journal of gate transitions, a bounded cache in the ledger | record, evict, show | what is shown as complete misses nothing |
| layout and its migration (`core/state_layout.py`, `state_migration.py`) | the state directory's place, a barrier lock, stagings | enter a write scope, migrate, resume, roll back | no writer uses the old place after the move; no write is lost |
| ledger migration and maintenance (`core/ledger_migration.py`, `ledger_maintenance.py`) | versions 1 and 2, backups, archives and their index | convert, archive, evict, retire | nothing owed is dropped; the index names only what is there |
| sessions of the Claude adapter (`adapters/claude_code/session_registry.py`, `bootstrap.py`, `activation_policy.py`) | a record for each session, remembered prompts | latch, rebuild, promote, end | a session's hooks work in one root; a prompt opens one turn |
| command guards (`core/destructive_guard.py`, `shell_command.py`) | none of their own; they read the attribution index | split a text into commands, say what each destroys, reaches or only reads, decide | a command is read as it is meant; nobody else's unverified work is destroyed |
| quarantine (`core/quarantine.py`) | copies of blocked commands | keep, read back, collect, clear | what is told to be kept is kept until crowded out |
| process reaper (`contrib/codex_process_reaper`) | none; the table of processes | read, decide, end | only left-overs of its own session are ended |
| release gate, goals, other adapters, classification, command line, evaluation | files of their own or none | see [below](#what-is-not-modelled) | |

### How they interact

```
host ── UserPromptSubmit ──> start_turn ── observe ── save baseline ── prompt event
     ── PreToolUse ────────> gates (R1, R2, intent, goals) ── bootstrap ── prime ── record invocation
     ── PostToolUse ───────> resume ── observe ── status ── verification event
     ── Stop ──────────────> resume ── observe ── status ── evaluate_stop ── scorecard
     ── SessionEnd ────────> record removed            (Codex: process reaper)
                                         │                        │
        state_write_scope (layout barrier) > ledger_transaction (owner lock)
                                         │
               ledger.json, workspace-current, baselines, scorecard/gates.jsonl
                                         │
                     after the lock: drain the outbox ─> coordination.jsonl
```

A hook takes the ledger lock for each short transaction and holds nothing in
between. Scanning the workspace takes seconds and is done without the lock, so
the observation is optimistic: the manifest generation is compared at the
commit. Change events do not travel through a queue: the commit that writes a
new manifest applies them to the turn of the hook that commits.

### What is hard in it

* A hook holds values over an unlock: the manifest it scans against, the
  candidates it adds to a baseline, the batch of events it delivers, the covers
  of a check, the registry record it was bound by, the verdict a Stop acts on.
* A commit touches two or three files and is three saves; a hook may be killed,
  or its store may fail, between any two, and a later hook of another turn or
  another agent finishes it. The migrations are longer chains of such steps.
* Lock files are judged stale by other processes, by pid and by age.
* A file may change and change back, keep its size and mtime, or change while
  the check runs.
* Lists are bounded (receipts, closed turns, attribution, cache entries,
  archives): what fell out must not be taken for what never was.
* The command guards read shell texts with several scanners, each with its own
  tables of options; where two disagree a command is read for another.

`PROJECT.json` lists these under `hazards`, each at its line of code with the
properties that would break.

## The plan

Done, in this order: `OwnerLock` (everything rests on it),
`CoordinationOutbox`, `ProvenanceGate` (the program's purpose), each with its
proofs; then `StopGate`, `StateMigration`, `GateScorecard`, `PreToolGates`,
`TurnLedger`, `PathAttribution`, `LedgerFile`, `StatusArchive`, `LedgerRepair`,
`SessionHooks`, `QuarantineStore`, `ProcessReaper`, the five modules of the
command guards, and `TurnBaseline`; the safety properties of all these that the
prover can reach, as theorems (see [proofs](#proofs)). The most valuable things
left:

1. `KeptUntilCrowded` of `QuarantineStore` as a theorem, with the sizes counted
   in a way that needs no induction over data.
2. `ProvenanceGate` and `TurnBaseline` as one module, with priming between the
   scans of other hooks.
3. The goals file and the release gate, with their unlocked reads.

## Modules and the code they model

`PROJECT.json` maps every definition to its lines. In outline:

**`Mutex`** is the abstract lock: one holder, entered and left.
**`OwnerLock`** is `core/file_lock.py`, one action per system call. `file` is
the file at the path, named by the token of its creator; `rec` the text that
reads back (none while it is empty); `old` whether its mtime is past
`STALE_LOCK_SECONDS`; `seen` the local `stale`; `guard` the flock of
`_posix_guard`. Comparing the record (`Match`) and unlinking the path
(`Unlink`) are two steps, because they are in the code, and what is at the path
may change in between. `Guarded` chooses between `ledger_transaction` on POSIX,
which holds the flock around all of it, and bare `owner_lock`, which
`state_layout.state_write_scope` uses for the layout barrier. A live process's
token is written in one write; a failed write leaves an empty record. Pids are
not reused (a reused pid makes a dead owner look alive, and waiters time out).

**`AuditLog`** is what the outbox promises: an event is published after it was
accepted, once per id, and never changes. **`CoordinationOutbox`** is the
outbox part of `core/ledger.py` with the journal of
`core/scorecard_coordination.py`. An action is one ledger transaction, which
`OwnerLock` shows to be exclusive, or the delivery of one event, which holds
the coordination lock. `Record` and `RecordPeer` are the two ways to accept;
`DrainRead`, `Deliver`, `Ack` one drain; `DeliverFails` and `Abandon` every
error path of it. The journal starts empty or with lines appended by version 1
of the ledger, which had no outbox (`Legacy`). `fragment` is a torn line:
`_append_coordination_event` writes a newline before the next one. `CutsText`
says whether the tear may fall inside a UTF-8 sequence.

**`ProvenanceGate`** is an agent's turn from prompt to Stop. Files have
contents, numbered as they are written (`disk`); `Text` says which of them are
the same bytes, and every comparison the code makes (digests, snapshot ids)
compares texts, while the properties may compare the numbers. A `Slot` is one
tool call in flight; the hooks of a slot run one after the other with locals
in `hook[s]`, and `pc` is where they are. An action is one ledger transaction,
or a scan of one file, or an effect outside:

| actions | code |
|---|---|
| `BeginStart`, `SaveBaseline`, `Prompt` | `user_prompt_submit.main`, `save_manifest_baseline`, the prompt event |
| `BeginTool`, `Capture`, `Invoke`, `PreFails` | `begin_invocation`: bootstrap, covers, invocation, its failure |
| `ToolEnds`, `Resume`, `Status`, `Verify` | `observe_post_tool`, `resume_turn`, `_record_status`, the verification event |
| `View`, `ScanPath`, `ScanFails`, `Commit`, `CommitLost`, `CommitCut` | `_observe`, `_generation_current`, `capture_regular`, `_commit_locked`, rebase, a commit that stops half-way |
| `BeginStop`, `Decide` | `stop.main`, `evaluate_stop`; a block is followed by another observation |
| `HookDies`, `Write` | the host kills a process; a program changes a file |

`Recover` (`RTurn`, `RGen`) is `_recover_locked`. The code calls it at the head
of every manifest transaction, so it is part of those actions and not an action
of its own, and not part of those that do not call it (`Prompt`, `Status`,
`Verify`, `Decide`). `turn[a]` is the entry of `active_turns`: status, baseline
flag, `inc` and `cap` (incomplete; the host has shown it can report tools),
blocks, pending revisions (`rev`; 0 for none), the first text seen of each file
(`first`), stored covers per call (`inv`) and results. `author` is history.

**`TurnBaseline`** takes apart what `ProvenanceGate` does in one step: the
baseline of a turn, a file (`baselines`) that the ledger's turn names
(`turns[x].status`, `.baseline`). A hook is a record with its stage: a prompt
goes `start`, `save`, `tell`; a call `ensure`, `resume` (a read of the ledger
and one of the file, without a lock), `prime`, `commit`, `record`, `tool` and
`observe`. `Advance` is the commit with a baseline update, whole or cut after
any of its three writes; `RecoverPending` finishes it. `ClaimLegacy` takes over
the file of an older version, which carried no name; `AgentKey` may map the names
of two agents to one file's name, as `_safe_key` may.

**`StopGate`** is `verify_state.evaluate_stop` with the design gate, what it
reads of remote targets and checks, and saves that fail; tools, hooks' scans,
the lint and reads before the lock are steps of their own. **`GateScorecard`**
is one line in the journal and one increment of a cache entry per transition,
with every failure between them; the report counts the journal's lines as a set
(`Aggregate`). **`PreToolGates`** is
`evaluate_pretool_contract`: the intent gate and the goals gate, each of which
reads the checkpoints (`present`) without the lock and then counts under it, and
R1, which asks a high-risk call for a contract unless it writes only contracts
(`writes`). Any of them may raise (`Raises`); then the hook fails open
(`FailOpen`) and the call runs.

**`TurnLedger`** is which turns are open, `apply_v2_event` with its early
returns, garbage collection, and `smtw maintenance`. **`PathAttribution`** is
the index that tells an agent's own change from a peer's; `OwnerIsName` says
whether events name the owner as they name the agent (they do not, see
`OwnerIsKey`). **`DestructiveGate`** extends it with rule R2's decision and with
`flight`, the call of an agent that the ledger calls open: the latest one that
named a path, until any event of the agent closes it.

**`LedgerFile`** is `ledger.json` as a file: whole or torn, of version 1 or 2,
read by processes before and after they hold the lock. A transaction asks whether
there is a file (`Look`) before it reads it (`Load`), as the code does. **`LedgerRepair`** is
`_validate_v2_with_derived_cache_fail_open` on a damaged one. **`StatusArchive`**
is the archive of the invocation-status migration with its index and limits.

**`StateMigration`** has the three directories (`legacy`, `target`, `staging`),
what is in them, and the two locks; `Layout` and `StateDir` are read off the
disk each time, as in the code. A process writes in a scope (`Enter`, `Write`,
`Leave`) or migrates (`Prepare` to `Release`, one action per step of
`_copy_verify_publish`); writers of an older version take only `ledger.lock`.

**`SessionHooks`** is the latch of a session to its root and the prompts that
may open a turn late. **`QuarantineStore`** is one hook's save of a blocked
command, in its parts, beside the collection by others. **`ProcessReaper`** is
the table as read (`seen`), the decision and the kill, while `procs` goes on.

**`ShellSegments`**, **`GuardedCommand`**, **`RemoteCommand`** and
**`ReadOnlyCommand`** are algorithms. In each, a text is written lexeme by
lexeme or phrase by phrase by someone who knows the shell or the command and
notes the meaning; the program's scanners are operators over the words alone,
and the property says that they come to the same meaning. The scanners keep
the code's order and tables; they were also run beside the program's own
functions on all inputs of the runs (12,443 guarded commands, 37,430 shell
texts, 105,126 remote commands, 59,591 read-only texts), without a difference.

Definitions called *variants* (`CommitUnfinished`, `AckById`, ...) are plausible
mistakes in the operation after them. No specification uses them. With one in
place of the operation the named property must fail, which shows that the
property depends on that code; `PROJECT.json` pairs them under `mutants`.

`Nothing` declares `None`, which modules that share a model have in common.
`Picking` is what is left of a list that code filters (`Picked`), as a function
from the places it keeps: `SelectSeq` says the same recursively, and nothing
could be proved of it. For the same reason the closed list of `TurnLedger` takes
the turns of one event as a batch where the code goes one by one; TLC was asked
whether both come to the same list, for limits of one to three, and they do.
`GateScorecard` says of a whole set of lines which blocks are open and which
recoveries closed one, where `_resolved_blocks` goes through the lines with a
dictionary; TLC compared that with the loop, line by line, for every journal of
up to three lines and in every state with four transitions.

`MCOwnerLock`, `MCCoordinationOutbox` and `MCProvenanceGate` give the modules
constants for TLC, one each. `MCProgress` and `MCComponents` hold small instances
of the others, with `which` telling the one that runs; the components share no
state, so a product would only multiply their steps. There are two, since the
first is checked for liveness and the second for safety. Both extend the modules
that have theorems, so that the runs check the very definitions that are proved,
and instantiate the rest; that is why those modules have names of their own for
what others call `Init`, `Next`, `Agents` or `pc`. The `*Proofs` modules hold the
theorems.

## Runs and what they show

| run | what it checks | states |
|---|---|---|
| `LedgerLock` | guarded lock: implements `Mutex`, every call returns, a dead owner's file goes | 5.5 k |
| `BarrierReclaim` | the same lock without guard: `MutualExclusion` fails | |
| `Outbox` | nothing accepted is lost, receipts are what the journal says, the ledger fits its own schema, implements `AuditLog` | 0.9 M |
| `OneAgentGate` | one agent, two calls, two files, silent writes, contents that return: pending is exactly the net delta, and a passing Stop saw what there was | 2.8 M |
| `TwoAgentGate` | two agents and a fault anywhere: the manifest moves forward, a passing Stop judged all of its own turn | 1.9 M |
| `CrashGate` | one fault, overlapping calls, prompts that interrupt a turn: recovery always succeeds, nothing is lost or invented, a passing Stop has its evidence | 3.0 M |
| `PeerDelta`, `OwnerIsKey`, `ContractGate`, `DamagedLedger` | statements of the documents, comments and tests that the code does not keep | |
| `Progress` | Stop gate, layout migration, outbox: what must end does, and a Stop that passes has current evidence | 0.8 M |
| `Components` | small instances of all other components, safety | 1.4 M |

The properties, in words:

* `ImplementsMutex`, `MutualExclusion`: one process in the body, with its own
  record on disk until it releases it. `EveryCallReturns`, `DeadOwnerReclaimed`.
* `AcceptedNotLost`: accepted events are pending or written, through refused
  and repeated submissions, stale acknowledgements, evicted receipts, crashes.
  `DeliveredIsJournaled`: a receipt holds the line readers see.
  `LedgerStaysValid`, `EventuallyJournaled` as named; `ImplementsAuditLog`
  includes that no event is written twice.
* `TypeOK`, of `ProvenanceGate` and of each component: types, and that what is
  saved stays valid by the program's own schema.
* `ManifestMovesForward`: no scan replaces a newer content by an older one,
  although only generations and digests are compared, which agree again when a
  content comes back. `PendingResolvable`: recovery never meets a manifest that
  is neither side of the transition (the code would raise from then on).
  `OwedIsCommitted`: what an open turn's hook committed is owed by that turn,
  now or after the next recovery, and only what the manifest has or had is.
  `PendingIsNetDelta`: a turn's pending revisions are exactly the files that
  differ from its baseline, whoever changed them how often.
* `StopSawEarlierWrites`: a Stop that passes has everything in its manifest
  that was on disk when it began. `StopIsEvidenced`: and a successful check
  that started when all that was pending was on disk. `StopJudgesCommitted`:
  and the ledger it judged held every change of its turn. The three speak of
  Stops that pass on evidence; one that gives up after two blocks does not.
* `ReadyIsBound`: a turn called ready has the file it names, whatever died or
  failed, or a pending transition leads between the two. `BaselineOnlyGrows`: a
  baseline takes back nothing it said, takes in nothing the turn answers for
  (once the turn has a baseline), and a degraded turn is not made good.
* `EvidenceIsCurrent`: the check and the lint a passing Stop rests on began
  after the last observed change of what they check. `GateTurnEnds`.
* `WritesSurvive`: the authority holds every write, and going back where that
  is called safe loses none. `PublishIsQuiescent`: the authority does not move
  while a turn is active. `MigrationCompletes`: repeating the command completes.
* `CompleteIsGapless`: what Stop shows of a session agrees with the journal
  from the first transition its entry knows.
* `GateBlocksCapped`, `OpenIsNotTerminal`, `OnlyPromptsReopen` (a closed turn is
  opened by a prompt only, unless as many were closed after it as the list
  holds), `AllowedSparesPeers` (a destructive command that is let pass undoes no
  unverified work of others, nor what an open call of theirs names).
* `SavedSurvives`: what a save reported is in the ledger, or in a copy after
  damage. `RepairIsExact`: mending drops what is damaged and nothing else.
  `ArchivesHold`: the index names no archive that is gone.
* `TurnsOpenOnce`, `LatchHolds` of sessions; `KeptUntilCrowded` of the
  quarantine; `ReapsLeftOvers`.
* `ReadAsMeant`: every command a shell text runs is found, and a destructive
  one read as it is meant. `EffectAsMeant`: the same of remote and read-only
  commands.

## Where the code disagrees with what is said of it

Five runs end in a counterexample, each against a quoted line
(`PROJECT.json`, `findings`).

* `BarrierReclaim`. Two processes read the record of the same dead owner and
  both find it still matching. One unlinks and creates its own file; the other
  unlinks that. Both are inside. `ledger_transaction` is safe on POSIX because
  of its flock (a theorem here); `state_write_scope` has none.
* `PeerDelta` (`NoPassOverHidden`). B's prompt commits a change made during A's tool call. It is a
  change of no turn of A's; A's Stop passes with nothing pending although its
  workspace differs from its baseline.
* `OwnerIsKey` (`OwnIsSelf`). The adapters name the owner of a change by its key and its agent
  by its plain name. The two never agree: an agent's own change is external in
  its turn and never enters the attribution index. All other runs of
  `PathAttribution` take them to agree (`OwnerIsName`), as the unit tests do.
* `ContractGate` (`RiskNeedsContract`). A high-risk call that comes to the goals gate and is let pass
  by it is not asked for a contract. The property leaves out the two ways that are
  meant: an edit that writes only contracts, and a hook that fails open (in the
  run none does). `ContractOrExcused` proves that there is no fourth.
* `DamagedLedger` (`DamageIsRecovered`). A damaged ledger is replaced by an empty one of version 1.
  Where an archive of an earlier migration is in place it cannot be converted
  again, and no event is taken before it is.

Others were met while modelling and have no run of their own:

* Covers taken late: PreTool fails, so no covers are stored; a file changes
  while the check runs; PostTool commits that change, takes the pending
  revisions of that moment as the check's covers, and Stop passes
  (`PreMayFail`; the runs with `StopIsEvidenced` have it FALSE).
* A commit that fails: a prompt's events wait in `manifest_pending` with the
  id of the turn the prompt then opens, and dirt from before the turn becomes
  its change; and a hook may record changes as committed though their commit
  failed (`StoreFails`, FALSE in `OneAgentGate` and `CrashGate`).
* A journal torn inside a character (`CutsText`) no longer decodes, reads as
  empty, and an event that is there is appended again.
* `apply_maintenance_plan` writes the ledger without the ledger lock, although
  `ledger_maintenance.py:363` says otherwise; a hook's save between its
  comparison and its replacement is lost (`Supervised`, the premise that no
  hook runs beside it). `_preserve_corrupt_ledger` without the lock can move a
  good ledger aside; it survives as a copy.
* Any event of an agent closes every call that is open in its turn, a call still
  at work beside it included (`ledger_v2.py:772`). Then a destructive command of
  another agent may pass over what that call is changing, although
  `docs/design/multiagent-gate.md:129` protects what an open call names and
  line 109 there means lost calls. `AllowedSparesPeers` speaks of the calls the
  ledger calls open.
* In `PathAttribution`, an owner that overflowed the index and whose change is
  settled later is no longer protected (`uncounted`).
* A session ended and begun again while its hooks run may be bound anew
  (`Orderly`); a promotion that fails leaves a prompt normal without a turn.
* `TurnBaseline`: (i) a call beside another one primes a path that the other
  has just created and hides its creation in the baseline, which
  `docs/design/f2-atomicity-final.md:22` excludes; (ii) `resume_turn` reads the
  ledger and the file without a lock and may degrade a healthy turn while
  another call advances it; (iii) a first prompt that sees changes opens a turn
  that is ready without a baseline; (iv) a failed save at the end of the
  bootstrap degrades the turn for good; (v) RECOVERED may be told twice with
  different evidence, or without ENTERED; (vi) two turns of one file name may
  share an unclaimed old file; (vii) priming commits its whole scan without a
  change event, so that a watched file that changed meanwhile belongs to no
  turn (`provenance_lifecycle_scope.py:144`).
* `RemoteCommand` (excluded by `Plain`): of repeated ports and users ssh takes
  the first and the program the last; `-oPort=...` attached and clusters such
  as `-vp2222` are not seen; options that take a value in one program only
  (`ssh -X`, `scp -p/-B/-O/-R`) swallow the next word in `_option_value`; scp's
  limit `-l` is taken for a user.
* `GuardedCommand`: of `find -exec ... -fprint f` the file f is dropped;
  `New-Item dir -Name n` is known by dir only. `ReadOnlyCommand`: its branch for
  `command -v` is never reached.
* `ProcessReaper`: the servers of a Codex below another are ended with those
  of the outer one, although `decision.py:128` says that other panes are
  structurally untargetable; a server without a date below a stale one goes
  with its tree; a left-over whose parent exits between table and kill stays.

The passing runs set the constants that bring these about so that they cannot
occur; each is checked with those faults wherever the property survives them.

## Bounds

Every bound is a constant used in a guard, and named `Max...`. The limits of
the program (`MAX_BLOCKS`, `MAX_CLOSED_TURNS`, ...) are constants too and
smaller in the runs than in the code, so that they are reached. Why they
suffice:

* Three processes are a dead or slow owner, one that reclaims and one that
  comes in between; the race of `BarrierReclaim` takes exactly these. Two faults
  are a death and the failed write or death of who cleans up.
* With room for two events and three ids an acceptance can be refused, a receipt
  evicted and its id accepted again. Batches of two make overlapping drains;
  `MaxAccept` 5 and `MaxCursor` 7 leave room for a whole second delivery of
  everything. The outbox of `Progress` uses batches of one, where a failing
  head would starve the rest.
* Two calls in flight make all pairs of hooks interleave; an observation
  rebases once, and one other hook suffices to force it. Two turns are needed
  for a recovery in the wrong turn. Two writes of one file make a content
  go and come back (`Texts` 2), two files make partial evidence. `Texts` 9
  makes all contents different in the runs about loss. `MaxBlocks` is the
  code's `MAX_STOP_BLOCKS`, 2; `TwoAgentGate` takes 1, since a second block of
  the same turn adds only another round of the same hooks.
* `StopGate`: three calls are a change, its check and a change beside it; one
  remote target is judged apart from UI files; one failed save or lost report.
* `StateMigration`: two processes, two files and three writes are a write before
  the copy, one during it and one after the rename; one fault leaves a staging
  to be recovered. A ledger and a snapshot make a half-copied tree.
* The lists of `TurnLedger`, `PathAttribution`, `GateScorecard`, `StatusArchive`,
  `QuarantineStore` and `LedgerRepair` hold one or two entries with two or three
  to be kept, so that each overflows. Under `DestructiveGate` one path has the two
  contents that a check and a change may differ in; the instance of
  `PathAttribution` alone has two paths with room for one. Three closings crowd a turn out of a
  list of two.
* `TurnBaseline`: two hooks at a time, one path, and one of three parts of the
  steps (`Part`): two turns of an agent with a write and a fault, one turn with
  three hooks and a write, and two agents of one file name with a fault. A path
  that is absent or present tells the cases apart, and other hooks are needed
  rather than other paths, since hooks compare whole snapshots. The hooks of
  `Components` differ in their names only (`HookSymmetry`).
* Commands of three phrases put an option, its value and an operand in any
  order, with the end of the options among them; shell texts of six lexemes
  nest a substitution in a quotation and continue after it.
* `ProcessReaper`: five processes have room for one session, the hook and tool
  servers above and below each other, six for two sessions; one of them starts or
  exits between two steps of the hook.
* `LedgerRepair`: a ledger that is refused for the rest of it (`rest`) is tried
  without an outbox only, since nothing of it is mended.

`CHECK_DEADLOCK FALSE` is set throughout: an instance whose bounds are used up
has nothing left to do, and hooks are not obliged to run.

## Fairness

`OwnerLock!Fairness`: a process that can take its next step takes it (the
scheduler), a with-body ends (bodies are short, and the host kills those that
are not), and deadlines pass. The last are strong: a waiter polls, so its
deadline is not enabled all the time, only again and again; the same holds of
an flock taken by a poll. Deaths, failed writes and new acquisitions are not
assumed to happen. A waiter may starve: `EveryCallReturns` says that it returns
(`TimeoutError`), not that it gets the lock.

`CoordinationOutbox!Fairness`: while something is pending there is a further
hook event, each of which drains, and a process that is not killed runs on.
Faults are finite in number; an event that conflicts with the journal fails
for ever, and is not waited for by the others.

`StopGate!Fairness`: the host calls Stop again when it was blocked, and a Stop
hook that has begun comes to its judgement; saves fail a bounded number of
times. Tools are not obliged to run.

`StateMigration!Fairness`: the user repeats the command and a process that runs
goes on; `MigrationCompletes` asks besides that the project stays quiet
(`Quiet`): no active turn, no writer in a scope, no older version with the
ledger.

`MCProgress` restates the three for the component that runs. All other modules
have safety properties only: no hook is obliged to come.

## Proofs

Eight modules, checked by TLAPS, for every value of the constants that meets
the named assumptions. These are ASSUMEd where the constants are declared
(`LockAssumption`, `OutboxAssumption`, `ProvenanceAssumption`, `NoneAssumption`,
`BaselineAssumption`, `ScorecardAssumption`) or are definitions that the
theorems take as a hypothesis and `MCProgress` and `MCComponents` ASSUME for
their instances
(`MigrationAssumption`, `PreToolAssumption`, `StopGateAssumption`,
`TurnAssumption`, `FileAssumption`, `ArchiveAssumption`,
`AttributionAssumption`, `GuardAssumption`, `SessionAssumption`). They say that
`None`, `NoBody`, `"corrupt"` and the like are no processes, bodies, digests or
roots, that sets of files are finite where the code counts them, and that bounds
are naturals, those of the program's lists at least one.

Each inductive invariant was first checked with TLC on the instances above.

* `OwnerLockProofs`, under `Guarded`. `IInv` adds to the types: whoever is past
  the guard holds it (`GuardInv`), whoever is about to write its token has
  its own file at the path (`CreatorInv`), and between comparing and unlinking
  the file is still what was compared (`WaiterInv`). The last is the heart: it
  is inductive because only the holder of the flock touches the path, and false
  without it. `TypeCorrect` and `GuardedInvariant` are these; from them follow
  `GuardedMutualExclusion`, `GuardedHolderOwnsFile`, `GuardedWait` and the
  refinement of `Mutex` (`GuardedImplementsMutex`).
* `CoordinationOutboxProofs`. `IInv` ties a worker's locals to the shared state:
  what it still has to deliver was accepted (`TodoInv`), what it is about to
  acknowledge is in the journal with the body in its receipt (`DoneInv`), what
  is pending was accepted (`PendingInv`). So an acknowledgement, however late,
  removes only what is written: `OutboxInvariant`, `AcceptedIsNotLost` and
  `ReceiptsAreJournaled`. `OneLinePerEvent` and the refinement of `AuditLog`
  (`OutboxImplementsAuditLog`) need `CutsText = FALSE`, and fail without.
  `LedgerIsValid`: the ledger's own schema (`LedgerStaysValid`) holds because the
  order of the receipts lists each receipt once (`OneReceipt`), which the filter
  of `Ack` keeps.
* `ProvenanceGateProofs`, nine theorems, in layers.
  * `GateTypes`, with the number of tries and the completeness of a scan at the
    commit (`Typed`).
  * `ManifestIsResolvable` and `ManifestForward` rest on `FreshInv`: a generation
    number names one snapshot, that is, a hook that loaded generation g and finds
    generation g at its commit finds the very snapshot it loaded, and its scan is
    nowhere older than that. Needed because the code compares digests, and equal
    digests do not say which of two equal contents it was. `PendInv` keeps
    generations of pending transitions ahead of the manifest's, which makes a
    number that was dropped by a recovery and used again harmless;
    `ObservedBefore` says that the manifest is never ahead of the disk.
  * `StopSaw`. `Sight` follows a Stop from its first step to its decision: what
    the disk held when it began (`from`) is in its scan, then in the manifest, as
    long as the turn says that evidence is captured and not incomplete. `Roles`
    says which steps a kind of hook can be at, `Alone` that beside a Stop only a
    prompt of the same agent may run; without it another call's commit could
    take the mark "incomplete" off the turn. It needs that neither a change event
    nor a prompt takes the marks of a turn over.
  * `OwedHolds` and `StopJudges`, while the store does not fail
    (`StoreFails = FALSE`). `OwedInv`: the manifest is one side of the pending
    transition exactly (`PendExact`), and a hook that does not observe carries
    no scan of a commit that failed (`Unhurt`).
    With a failing store both are false: a commit that failed leaves its
    transition to a later hook, and TLC finds a late `record_observed_changes`
    that puts an older revision over a newer one.
  * `StopEvidence`, while every PreTool hook can save its record (`PreMayFail =
    FALSE`). `EvidenceInv` follows the covers of a check from the pending
    revisions they were taken of (`RevInv`, `CoversInv`) to the results Stop reads
    (`ResultsInv`): a check covers no content that was not on disk before it
    began, unless its turn is degraded.
  * `NetDelta` and `NothingIsHidden`, for one agent whose prompts do not come
    into an open turn and whose store does not fail (`Lone`). `CalmInv` adds to
    `OwedInv`, file by file, that a file is pending just if it differs from the
    baseline, and that the first text the turn remembers of it is the baseline's
    (`NetOf`), also for a baseline whose turn is still to come (`Awaited`). With prompts that interrupt, or a
    failing store, `PendingIsNetDelta` is violated; with a second agent
    `NoPassOverHidden` is, which is the run `PeerDelta`.
* `StateMigrationProofs`: `MigrationTypes`, `NoWriteIsLost` (`WritesSurvive`),
  `MovesWhenQuiescent` (`PublishIsQuiescent`). `Layouts` says which directory is
  the authority; `Locks`, `Scopes`, `Sources`, `Ledgers` and `Stagings` what a
  holder of the barrier may rely on at its step: that the source has the
  manifest's content since it was taken, that the staging has what was copied,
  that whoever is in a scope has the authority of now. `Held = expect` is the
  conclusion. The barrier and the lock are abstract mutexes here, so the window
  of `BarrierReclaim` is not in it.
* `GateProofs`, of four modules about hooks that gate a call.
  * `GatesAreCapped`: a block is told only with a counter that was saved; and
    `ContractOrExcused`: a high-risk call without a contract was let pass by the
    goals gate, which `ContractGate` shows, or writes only contracts, or had a
    hook that raised (`RaisedShows`: never without a failure).
  * `StopTypes` and `EvidenceHolds` (`EvidenceIsCurrent`). A check that runs
    while its target changes does not cover the change: either the turn has
    recorded a later mutation than the check's number, or the change has not been
    observed (`StaleShows`, and `LintShows` of the lint). That needs event
    numbers in order (`Numbered`).
  * `SessionTypes` and `OpensTurnsOnce` (`TurnsOpenOnce`), if the host sends a
    prompt only when no tool call is in its hook (`Orderly`): the hook of a
    prompt is alone, who promotes a quick turn holds the claim (`Alone`), and
    what a hook has loaded of its turn is what is remembered (`Knows`), so that
    the openings can be counted (`Counts`). `LatchIsKept` (`LatchHolds`) by
    `Rooted`, if besides at most one thing goes wrong: with two damages of the
    record a hook that has read the first one binds the session to an older root.
  * `ScorecardTypes` and `NothingIsMissed` (`CompleteIsGapless`), for any sessions,
    reasons, limits and number of failures. `ScorecardInv` says more of a complete
    entry than Stop shows: its scopes and its open blocks are those of the
    journal, not only as many (`CompleteTallies`), since a recovery closes blocks
    by their ids. It also says that no line and no entry is later than the clock
    (`JournalDated`, `EntriesDated`), so that a new entry knows all its lines.
    The heart is `UpdatedTallies`: a line does to the journal's counts what
    `updated_entry` does to the entry's. That there is an oldest entry to evict
    comes from the finiteness of the cache (`OldestIs`).
* `LedgerProofs`, of the modules of the ledger.
  * `RetiredIsForGood`: every event and prompt is refused for a retired id, and
    everything else only closes turns. `OpenIsApart` (`OpenIsNotTerminal`) by
    `ClosedInv`: no open turn is on the closed list, which is duplicate-free and
    bounded. `TurnTypes`. `PromptsReopen` (`OnlyPromptsReopen`) by `ReopenInv`:
    the closed list is the tail of the history of closings, so a turn that fell
    off has `MAX_CLOSED_TURNS` others behind it.
  * `FileTypes`, and `SavedIsKept` (`SavedSurvives`) where every event passes the
    supervised bootstrap first (`Supervised`): who is about to save holds the
    lock and has in memory all that is in the file (`Carries`, `Remembers`; who
    found no file still finds none when it reads), and
    the file is as the upkeep read it while no hook is past the lock (`Tended`).
    Unsupervised, maintenance that runs beside a hook loses its save.
  * `ArchiveTypes` and `ArchivesAreKept` (`ArchivesHold`): from the step that
    enters it, a conversion's archive is in the index and on the disk, and what it
    unlinks is no longer in the index (`Sourced`).
  * `IndexTypes`, `GuardTypes`: no history of changes breaks
    `_validate_path_attribution`. `PeersAreSpared` (`AllowedSparesPeers`): what
    the guard spares is tied to who changed a path last by `Credited`: the last
    change by a call of an agent's own has an entry of its owner that is
    unsettled until it is verified, or it is counted as having found no room
    (`uncounted`), or the index is full, and then the guard lets nothing pass.
* `TurnBaselineProofs`: `BaselineTypes`, `BoundWhereReady` (`ReadyIsBound`) and
  `NothingTakenBack` (`BaselineOnlyGrows`), for any agents, file names, paths and
  number of hooks, by one invariant (`BaselineInvariant`). Its `IInv` adds to the
  types:
  * `LegacyIsOnes`: of two agents with one file name none has a file without a
    name, so that nobody claims what may be another's;
  * `HooksInv`: `Staged` says what a hook has read by the stage it is at; `Apart`
    that a prompt's turn has no call and no pending transition beside it, without
    which the prompt would open anew a turn whose baseline has moved on;
    `TellsTrue` that the baseline a prompt is going to tell is in the file;
  * `TurnsHold`: a ready turn's file holds the baseline it names (`Holds`), or is
    between the two ends of the pending transition (`Between`);
  * `PendingFits`: how far a pending transition has come, so that its recovery
    can tell the end it is at from the beginning.

  TLC checked `IInv` first, also with two agents, two contents, two writes or three
  hooks (up to 7.2 million states). `DegradedIsForGood`, the first part of
  `GrowsOnly`, needs none of this.
* `PickingProofs`: what `Picked` keeps of a list (length, order, members,
  injectivity), for the two above that filter.

Only model-checked:

* all liveness (`EveryCallReturns`, `DeadOwnerReclaimed`, `EventuallyJournaled`,
  `GateTurnEnds`, `MigrationCompletes`): the prover does no fairness or ENABLED
  here;
* what the modules of the command guards compute (`ReadAsMeant`,
  `EffectAsMeant`) and which processes are below which (`ReapsLeftOvers`):
  recursion;
* `KeptUntilCrowded` and `RepairIsExact`: they fold over a list (how large the
  kept entries are, what is left of a damaged list), and an equation between
  folds takes induction over data;
* `TypeOK` of `MCComponents`, which chooses among the components' type
  invariants: those of the modules with theorems are proved, each by itself.

## What is not modelled

Not at all: `core/release_gate.py` and `goals` (reports computed from files;
`smtw goals` reads its file without a lock and writes it in place, so that two
commands may lose an update; a model would show nothing but that); the other
hosts' adapters (they call the same core); classification of prompts and answers,
design lint, scorecard rendering (functions of text without state); command
line, packs, scripts, evaluation, documents.

In the modelled components:

* Owner lock, outbox, journal: the Windows pid probe and pid reuse; the text of
  records, events and logs.
* `ProvenanceGate`: peer exclusions, budgets of time and size, policy changes, a
  workspace without a manifest; `_record_status` and the counters always save
  (their failures are in `StopGate`); every closed turn is remembered (the
  capped lists are in `TurnLedger`); priming is in `TurnBaseline`.
* `TurnBaseline` takes an ordinary observation as one step, a scan without budget
  or issue, and a workspace with a manifest; a prompt given again does not meet
  hooks of its own turn; `_restore_legacy_pending_baseline`,
  `delete_turn_baseline`, closed turns without an open one and the number of
  retries of a record are left out.
* `StopGate`: a save of PreTool that fails for a check; more than one turn; what
  follows after the turn is closed. `PreToolGates`: what is high-risk,
  read-only or a valid contract is one bit each; the checks before the gates
  (state directory, R2) and the stale turn after them; a conflict of the
  environment, which denies the call instead of failing open.
* `StateMigration`: the barrier and `ledger.lock` are mutexes; the last comparison
  and the rename are one step; `config.json` and lock and temporary files are
  not copied; a staging without marker or left over after the move is never
  cleaned up; one `smtw migrate` is one process.
* `GateScorecard`: "complete" is judged from the first transition an entry knows;
  after an eviction it is not the whole journal.
* `PathAttribution`: contended sources are never made by the program; a ledger
  marked `attribution_degraded`, which takes no change for a peer's; changes
  come in the order of their commits; paths that need no verification.
  `DestructiveGate`: calls whose lease expired and owners that overflowed are
  exempt, a call names one path, the calls that a later event has closed are not
  followed, and nothing is after damage.
* `LedgerFile`, `LedgerRepair`: damage from outside only; a map that is missing is
  read as an empty one, and so is a ledger that was degraded before.
* `SessionHooks`: removal of a lock file under one that waits for it, expiry by
  age, the home directory as a root.
* Command guards: one verdict per command, the first detector's (a redirection
  comes before the command's own detector, except tee's); at most one
  redirection, or one target where a command takes one; a Move or Copy whose
  value is missing destroys nothing; categories and reasons are left out. Shell
  texts have no functions, no redirection, substitution or quotation in place
  of a command name, one here-document to a line and none after a line that
  ends within quotes, no shell that reads its input inside "(". Not modelled:
  `_structured_execution_bodies`, literals bound over a pipeline, attached
  here-strings, options after the host of ssh, quoted scripts within quoted
  scripts (which are refused), nested shells that are quoted.
* `ProcessReaper`: pid reuse, a Codex below another, a hook started by a tool
  server, a clock that runs backwards.
