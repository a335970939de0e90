---------------------------- MODULE TurnBaseline ----------------------------
(***************************************************************************)
(* The baseline of a turn: what the workspace was like when the turn began.*)
(* It is a file of its own; the ledger's turn says whether there is one and*)
(* which.  The hooks keep the two together: a prompt writes the file and   *)
(* then opens the turn, a tool call whose turn has none makes up for it    *)
(* (ensure_turn_bootstrap), and what a call is about to touch that nobody  *)
(* has looked at yet is added (prime_candidate_scope), by a transaction of *)
(* two ledger saves and two files.  Where the two do not agree the turn is *)
(* degraded for good.                                                      *)
(*                                                                         *)
(* Premises: there is a workspace-current snapshot; a prompt that is given *)
(* again does not meet hooks of its own turn.  Ordinary observations are   *)
(* one step here (ProvenanceGate takes them apart).                        *)
(***************************************************************************)
EXTENDS Integers, FiniteSets, Nothing

CONSTANTS
  Peers,       \* the agents
  Slots,       \* the hooks that run at a time
  Keys,        \* paths outside the scope that tools name
  Contents,
  TurnIds,     \* numbered in the order they are begun
  AgentKey,    \* what an agent's name makes of a file's (_safe_key)
  MaxBegun, MaxEdits, MaxHarm,
  Broken       \* what is read of a damaged file

VARIABLES
  worktree,    \* the files
  current,     \* workspace-current: of the paths that are watched
  generation,
  pending,     \* manifest_pending
  baselines,   \* the turns' files
  turns,       \* active_turns
  announced,   \* coordination events accepted
  hooks,
  hurt,        \* the files that were damaged from outside
  bounds       \* what has happened so far of what is bounded

baselineVars == <<worktree, current, generation, pending, baselines, turns,
                  announced, hooks, hurt, bounds>>

Snapshot == [Keys -> Contents \cup {None}]
turn_baseline_path(agent, id) == <<AgentKey[agent], id>>
BaselinePaths == {turn_baseline_path(x, t) : x \in Peers, t \in TurnIds}
Baseline == [snap : Snapshot, own : (Peers \X TurnIds) \cup {None}]
TurnState ==
  [id : TurnIds, status : {"missing", "ready", "degraded"},
   baseline : Snapshot \cup {None}, fresh : BOOLEAN,
   revised : SUBSET Keys, recovered : Slots \cup {None}]
HookRun ==
  [prompt : BOOLEAN, agent : Peers, id : TurnIds, keys : SUBSET Keys,
   stage : {"ensure", "start", "save", "tell", "resume", "ledger", "file", "prime",
            "commit", "record", "final", "tool", "observe", "status"},
   seen : Snapshot, base : Snapshot \cup {None}, scan : Snapshot \cup {None},
   gen : Nat, tries : 0..1, post : BOOLEAN, mismatch : BOOLEAN]
Transition ==
  [before : Snapshot, after : Snapshot, generation : Nat, agent : Peers, id : TurnIds,
   baseBefore : Snapshot, baseAfter : Snapshot, keys : SUBSET Keys]

\* The marks of what is not there or is damaged are none of the values.
ASSUME BaselineAssumption ==
  /\ TurnIds \subseteq Nat /\ DOMAIN AgentKey = Peers
  /\ MaxBegun \in Nat /\ MaxEdits \in Nat /\ MaxHarm \in Nat
  /\ None # Broken /\ None \notin Contents
  /\ {None, Broken} \cap (Snapshot \cup Baseline) = {}
  /\ None \notin TurnState \cup HookRun \cup Transition \cup (Peers \X TurnIds)

-----------------------------------------------------------------------------
(* The store                                                               *)

File(agent, id) == baselines[turn_baseline_path(agent, id)]
Unclaimed(agent, id) ==
  File(agent, id) \notin {None, Broken} /\ File(agent, id).own = None

\* load_turn_baseline: another turn's file is an error like a damaged one.
Physical(agent, id) ==
  IF File(agent, id) \in {None, Broken} THEN File(agent, id)
  ELSE IF File(agent, id).own \in {None, <<agent, id>>} THEN File(agent, id).snap
  ELSE Broken

SaveFile(agent, id, snap) ==
  baselines' = [baselines EXCEPT ![turn_baseline_path(agent, id)] =
                  [snap |-> snap, own |-> <<agent, id>>]]

\* initialize_turn_baseline: the first that was written stays.
Initialize(agent, id) ==
  IF Physical(agent, id) = None THEN SaveFile(agent, id, current) ELSE UNCHANGED baselines
\* advance_turn_baseline
AdvanceFrom(agent, id, base, snap) ==
  Physical(agent, id) = base /\ SaveFile(agent, id, snap)

\* _baseline_path_collision
Collides(agent, id) ==
  \E x \in Peers :
    /\ turns[x] # None /\ <<x, turns[x].id>> # <<agent, id>>
    /\ turn_baseline_path(x, turns[x].id) = turn_baseline_path(agent, id)

\* merge_turn_baseline
Merge(base, snap, keys) ==
  [k \in Keys |-> IF k \in keys /\ base[k] = None THEN snap[k] ELSE base[k]]

\* What an incremental scan sees: the watched paths and those it is told of.
Watched == {k \in Keys : current[k] # None}
Scanned(forced) == [k \in Keys |-> IF k \in forced \cup Watched THEN worktree[k] ELSE None]

Mine(agent, id) == turns[agent] # None /\ turns[agent].id = id
Ready(agent, id) == Mine(agent, id) /\ turns[agent].status = "ready"
\* _turn_binding_is_ready
Bound(agent, id) ==
  Ready(agent, id) /\ Physical(agent, id) = turns[agent].baseline
\* A variant: what a turn has changed is not remembered.
ObservedNever(agent, id) == {}

\* The paths the turn answers for already.
Observed(agent, id) == IF Mine(agent, id) THEN turns[agent].revised ELSE {}

Degraded(turn) == [turn EXCEPT !.status = "degraded"]

-----------------------------------------------------------------------------
(* A transition that was left pending                                      *)

\* _restore_pending_baseline: the file's snapshot after it, Broken if it
\* cannot be told.
Restored ==
  LET base == Physical(pending.agent, pending.id)
  IN  IF base = pending.baseAfter
         \/ /\ base = pending.baseBefore
            /\ Merge(base, current, pending.keys) = pending.baseAfter
      THEN pending.baseAfter ELSE Broken

\* A variant: the turn keeps the baseline it had before the transition.
FinalizedStale(base) ==
  IF ~Mine(pending.agent, pending.id) THEN turns
  ELSE [turns EXCEPT ![pending.agent] = IF base = Broken THEN Degraded(@) ELSE @]

\* _degrade_pending_baseline, _finalize_locked
Finalized(base) ==
  IF ~Mine(pending.agent, pending.id) THEN turns
  ELSE [turns EXCEPT ![pending.agent] =
         IF base = Broken \/ @.status = "degraded" THEN Degraded(@)
         ELSE [@ EXCEPT !.status = "ready", !.baseline = pending.baseAfter]]

Fault == bounds.faults < MaxHarm /\ bounds' = [bounds EXCEPT !.faults = @ + 1]
NoFault == UNCHANGED bounds

\* _recover_locked, which every operation begins with, and its save; the
\* process may die before that or the save fail.
RecoverPending ==
  /\ pending # None
  /\ IF current = pending.after
     THEN /\ IF Restored \in {Broken, Physical(pending.agent, pending.id)}
               THEN UNCHANGED baselines
             ELSE SaveFile(pending.agent, pending.id, Restored)
          /\ \/ /\ turns' = Finalized(Restored)
                /\ generation' = pending.generation /\ pending' = None /\ NoFault
             \/ Fault /\ UNCHANGED <<turns, generation, pending>>
     ELSE /\ current = pending.before
          /\ pending' = None /\ NoFault
          /\ UNCHANGED <<baselines, turns, generation>>
  /\ UNCHANGED <<worktree, current, announced, hooks, hurt>>

-----------------------------------------------------------------------------
(* The hooks.  A tool call's goes from its bootstrap over resume_turn and  *)
(* the priming of its candidates to the record of its invocation, and then *)
(* from resume_turn to its observation; a prompt's from its scan to the    *)
(* record of the prompt.  A step holds the ledger lock or reads once; what *)
(* Prime reads is compared again when it commits.                          *)

AtStage(h, stage) == hooks[h] # None /\ hooks[h].stage = stage
Locked(h, stage) == AtStage(h, stage) /\ pending = None
Me(h) == hooks[h].agent
Id(h) == hooks[h].id
To(h, stage) == hooks' = [hooks EXCEPT ![h].stage = stage]
LeaveHook(h) == hooks' = [hooks EXCEPT ![h] = None]
\* _record_status comes next, which degrades the turn where the two disagree.
Report(h, mismatch) ==
  hooks' = [hooks EXCEPT ![h].stage = "status", ![h].mismatch = mismatch]
KeepManifest == UNCHANGED <<worktree, current, generation, pending, hurt>>

Running(prompts, agent, id) ==
  \E h \in Slots : /\ hooks[h] # None /\ hooks[h].prompt = prompts
                   /\ hooks[h].agent = agent /\ hooks[h].id = id

NewHook(prompt, agent, id, keys, stage) ==
  [prompt |-> prompt, agent |-> agent, id |-> id, keys |-> keys, stage |-> stage,
   seen |-> current, base |-> None, scan |-> None, gen |-> generation, tries |-> 0,
   post |-> FALSE, mismatch |-> FALSE]

StartHook(h, hook) ==
  /\ hooks[h] = None /\ pending = None
  /\ bounds.begun < MaxBegun /\ bounds' = [bounds EXCEPT !.begun = @ + 1]
  /\ hooks' = [hooks EXCEPT ![h] = hook]
  /\ KeepManifest /\ UNCHANGED <<baselines, turns, announced>>

\* _active_invocation: a call works for the open turn of its agent if there
\* is one.
BeginTool(h, agent, id, keys) ==
  /\ turns[agent] # None => turns[agent].id = id
  /\ ~Running(TRUE, agent, id)
  /\ StartHook(h, NewHook(FALSE, agent, id, keys, "ensure"))

BeginPrompt(h, agent, id) ==
  /\ turns[agent] # None => turns[agent].id <= id
  /\ ~Running(FALSE, agent, id) /\ \A t \in TurnIds : ~Running(TRUE, agent, t)
  /\ StartHook(h, NewHook(TRUE, agent, id, {}, "start"))

\* Which turn there is after _record_bootstrap_state_locked.
Unstarted(id) == [id |-> id, status |-> "missing", baseline |-> None, fresh |-> FALSE,
                  revised |-> {}, recovered |-> None]
SettledTurn(turn, id) == IF turn = None THEN Unstarted(id) ELSE turn

\* claim_legacy_turn_baseline
Claimable(agent, id) == Unclaimed(agent, id) /\ ~Collides(agent, id)
Usable(agent, id) ==
  Physical(agent, id) # Broken /\ (Unclaimed(agent, id) => ~Collides(agent, id))

\* _validated_candidate: the snapshot the hook has looked at is still the
\* workspace's.
Validated(h) == hooks[h].seen = current

ClaimLegacy(h) ==
  /\ Locked(h, "ensure") \/ Locked(h, "final")
  /\ turns[Me(h)] # None => Mine(Me(h), Id(h))
  /\ Claimable(Me(h), Id(h))
  /\ SaveFile(Me(h), Id(h), Physical(Me(h), Id(h)))
  /\ KeepManifest /\ UNCHANGED <<turns, announced, hooks, bounds>>

\* ensure_turn_bootstrap where there is nothing to be saved.
EnsureSettled(h) ==
  /\ Locked(h, "ensure") \/ Locked(h, "final")
  /\ LET turn == turns[Me(h)]
         base == Physical(Me(h), Id(h))
         final == hooks[h].stage = "final"
     IN  \/ /\ IF turn = None THEN final ELSE turn.id # Id(h)
            /\ LeaveHook(h)
         \/ /\ Mine(Me(h), Id(h)) /\ ~Claimable(Me(h), Id(h))
            /\ \/ turn.status = "degraded" /\ Report(h, TRUE)
               \/ /\ turn.status = "ready" /\ base \notin {None, Broken}
                  /\ base = turn.baseline
                  /\ IF final THEN Report(h, TRUE) ELSE To(h, "resume")
               \/ /\ turn.status = "missing" /\ base = None /\ (final \/ ~Validated(h))
                  /\ IF final THEN Report(h, TRUE) ELSE To(h, "start")
  /\ KeepManifest /\ UNCHANGED <<baselines, turns, announced, bounds>>

\* Without a baseline and a snapshot to make one of, the turn waits for one.
EnsurePending(h) ==
  /\ Locked(h, "ensure") /\ turns[Me(h)] = None
  /\ Physical(Me(h), Id(h)) = None /\ ~Validated(h)
  /\ \/ /\ turns' = [turns EXCEPT ![Me(h)] = [Unstarted(Id(h)) EXCEPT !.fresh = TRUE]]
        /\ NoFault
     \/ Fault /\ UNCHANGED turns
  /\ To(h, "start")
  /\ KeepManifest /\ UNCHANGED <<baselines, announced>>

\* What cannot be proved is not made good.
EnsureDegraded(h) ==
  /\ Locked(h, "ensure") \/ Locked(h, "final")
  /\ LET turn == SettledTurn(turns[Me(h)], Id(h))
         base == Physical(Me(h), Id(h))
     IN  /\ IF turns[Me(h)] = None THEN hooks[h].stage = "ensure" ELSE turn.id = Id(h)
         /\ \/ /\ turn.status = "ready" /\ ~Claimable(Me(h), Id(h))
               /\ base = None \/ base # turn.baseline
            \/ turn.status = "missing" /\ ~Usable(Me(h), Id(h))
         /\ \/ /\ turns' = [turns EXCEPT ![Me(h)] = Degraded(turn)]
               /\ NoFault
            \/ Fault /\ UNCHANGED turns
  /\ Report(h, TRUE)
  /\ KeepManifest /\ UNCHANGED <<baselines, announced>>

\* _coordination_event_for_payload: said once, with the evidence the turn holds.
Evidence(turn, h) == IF turn.recovered = None THEN h ELSE turn.recovered
Recovered(turn, h) ==
  IF turn = None THEN None
  ELSE IF turn.fresh THEN turn.recovered ELSE Evidence(turn, h)

\* _finish_recoverable_bootstrap
Finished(turn, id, base, said) ==
  [SettledTurn(turn, id) EXCEPT !.status = "ready", !.baseline = base,
                            !.fresh = FALSE, !.recovered = said]

EnsureReady(h) ==
  /\ Locked(h, "ensure") \/ Locked(h, "final")
  /\ LET turn == turns[Me(h)]
         base == Physical(Me(h), Id(h))
         there == IF base = None THEN current ELSE base
         said == Recovered(turn, h)
     IN  /\ IF turn = None THEN hooks[h].stage = "ensure"
            ELSE turn.id = Id(h) /\ turn.status = "missing"
         /\ Usable(Me(h), Id(h)) /\ ~Claimable(Me(h), Id(h))
         /\ base = None => hooks[h].stage = "ensure" /\ Validated(h)
         /\ Initialize(Me(h), Id(h))
         /\ \/ /\ turns' = [turns EXCEPT ![Me(h)] = Finished(turn, Id(h), there, said)]
               /\ announced' = IF said = None THEN announced
                          ELSE announced \cup {<<Me(h), Id(h), "recovered", said>>}
               /\ IF hooks[h].stage = "final" THEN Report(h, TRUE) ELSE To(h, "resume")
               /\ NoFault
            \/ /\ Fault /\ UNCHANGED <<turns, announced>> /\ Report(h, TRUE)
  /\ KeepManifest

-----------------------------------------------------------------------------
(* Observations                                                            *)

\* calculate_net_delta, by path
Delta(before, after) == {k \in Keys : before[k] # after[k]}

\* What a change that is seen makes of the turn it is written to, which it
\* opens if there is none; a turn that is not the agent's open one gets none.
Revise(agent, id, snap) ==
  LET changed == Delta(current, snap)
      turn == IF turns[agent] = None
                THEN [Unstarted(id) EXCEPT !.status = "ready"] ELSE turns[agent]
      same == IF turn.baseline = None THEN {} ELSE changed \ Delta(turn.baseline, snap)
  IN  IF changed = {} \/ turn.id # id THEN turns
      ELSE [turns EXCEPT ![agent] =
              [turn EXCEPT !.revised = (@ \cup changed) \ same]]

\* A commit without a baseline update, as a step.
CommitScan(h, snap) ==
  /\ current' = snap
  /\ generation' = IF snap = current THEN generation ELSE generation + 1
  /\ turns' = Revise(Me(h), Id(h), snap)
  /\ UNCHANGED <<worktree, pending, baselines, announced, hurt>>

\* The observation of lifecycle.start_turn; changes are not written to a turn
\* that is not ready.
StartTurn(h) ==
  /\ Locked(h, "start")
  /\ \/ /\ Scanned({}) = current \/ ~Mine(Me(h), Id(h)) \/ Bound(Me(h), Id(h))
        /\ CommitScan(h, Scanned({}))
        /\ hooks' = [hooks EXCEPT ![h].stage = "save", ![h].seen = Scanned({}),
                                  ![h].gen = generation']
     \/ /\ Scanned({}) # current /\ Mine(Me(h), Id(h)) /\ ~Bound(Me(h), Id(h))
        /\ IF hooks[h].prompt THEN To(h, "tell") ELSE Report(h, FALSE)
        /\ KeepManifest /\ UNCHANGED <<baselines, turns, announced>>
  /\ NoFault

Adopt(h, base) ==
  hooks' = [hooks EXCEPT ![h].stage = IF hooks[h].prompt THEN "tell" ELSE "ensure",
                         ![h].base = base]

\* save_manifest_baseline: the first that was written stays.
SaveBaseline(h) ==
  /\ Locked(h, "save")
  /\ LET base == Physical(Me(h), Id(h))
         fits == generation = hooks[h].gen /\ current = hooks[h].seen
     IN  \/ base = None /\ fits /\ SaveFile(Me(h), Id(h), current) /\ Adopt(h, current)
         \/ /\ base # None /\ Usable(Me(h), Id(h)) /\ Adopt(h, base)
            /\ UNCHANGED baselines
         \/ /\ IF base = None THEN ~fits ELSE ~Usable(Me(h), Id(h))
            /\ IF hooks[h].prompt THEN To(h, "tell") ELSE Report(h, FALSE)
            /\ UNCHANGED baselines
  /\ KeepManifest /\ UNCHANGED <<turns, announced, bounds>>

\* _missing_bootstrap
Enters(base) == base = None

\* The record of the prompt opens the turn (_new_turn), but does not make a
\* degraded one good; ENTERED is told of a turn that has no baseline.
Tell(h) ==
  /\ AtStage(h, "tell")
  /\ LET again == Mine(Me(h), Id(h)) /\ turns[Me(h)].status = "degraded"
         base == hooks[h].base
     IN  \/ /\ turns' = IF again THEN turns
                        ELSE [turns EXCEPT ![Me(h)] =
                               [Unstarted(Id(h)) EXCEPT !.baseline = base,
                                  !.status = IF Enters(base) THEN "missing" ELSE "ready"]]
            /\ announced' = IF again \/ ~Enters(base) THEN announced
                       ELSE announced \cup {<<Me(h), Id(h), "entered", None>>}
            /\ NoFault
         \/ Fault /\ UNCHANGED <<turns, announced>>
  /\ LeaveHook(h)
  /\ KeepManifest /\ UNCHANGED baselines

\* A lifecycle is made of the manifest, under the lock; resume_turn then reads
\* the ledger and the file without one.
View(h) ==
  /\ Locked(h, "resume") /\ To(h, "ledger")
  /\ KeepManifest /\ UNCHANGED <<baselines, turns, announced, bounds>>

ReadTurn(h) ==
  /\ AtStage(h, "ledger")
  /\ LET turn == turns[Me(h)]
     IN  \/ ~Mine(Me(h), Id(h)) /\ Report(h, FALSE)
         \/ /\ Mine(Me(h), Id(h)) /\ turn.status # "ready"
            /\ Report(h, turn.status = "degraded")
         \/ /\ Ready(Me(h), Id(h))
            /\ hooks' = [hooks EXCEPT ![h].stage = "file", ![h].base = turn.baseline]
  /\ KeepManifest /\ UNCHANGED <<baselines, turns, announced, bounds>>

ReadFile(h) ==
  /\ AtStage(h, "file")
  /\ LET base == Physical(Me(h), Id(h))
     IN  IF base \notin {None, Broken} /\ hooks[h].base \in {None, base}
           THEN To(h, IF hooks[h].post THEN "observe" ELSE "prime")
         ELSE Report(h, TRUE)
  /\ KeepManifest /\ UNCHANGED <<baselines, turns, announced, bounds>>

-----------------------------------------------------------------------------
(* prime_candidate_scope and commit_manifest with a BaselineUpdate         *)

\* _new_existing_candidates
NewCandidates(h, base) ==
  {k \in hooks[h].keys : base[k] = None /\ worktree[k] # None}

\* Candidates that are there and that neither the baseline nor the turn's
\* changes know; then the scan.
Prime(h) ==
  /\ Locked(h, "prime")
  /\ LET base == Physical(Me(h), Id(h))
         new == NewCandidates(h, base) \ Observed(Me(h), Id(h))
     IN  IF base \in {None, Broken} THEN Report(h, FALSE)
         ELSE IF new = {}
           THEN hooks' = [hooks EXCEPT ![h].stage = "record", ![h].base = base,
                                       ![h].tries = 0]
         ELSE hooks' = [hooks EXCEPT ![h].stage = "commit", ![h].base = base,
                          ![h].seen = current, ![h].gen = generation,
                          ![h].scan = Scanned(new), ![h].keys = new]
  /\ KeepManifest /\ UNCHANGED <<baselines, turns, announced, bounds>>

StillFits(h) ==
  /\ generation = hooks[h].gen /\ current = hooks[h].seen
  /\ Bound(Me(h), Id(h)) /\ turns[Me(h)].baseline = hooks[h].base
  /\ hooks[h].keys \cap Observed(Me(h), Id(h)) = {}

\* Another hook was faster: once more, and then the report is incomplete.
PrimeAgain(h) ==
  /\ Locked(h, "commit") /\ ~StillFits(h)
  /\ IF hooks[h].tries = 0
       THEN hooks' = [hooks EXCEPT ![h].stage = "prime", ![h].tries = 1]
     ELSE Report(h, FALSE)
  /\ KeepManifest /\ UNCHANGED <<baselines, turns, announced, bounds>>

\* _commit_locked: the transition is saved, then the snapshot, then the
\* baseline's file, then the ledger without the transition; after any of them
\* the process may die or a save fail.
Advance(h) ==
  /\ Locked(h, "commit") /\ StillFits(h)
  /\ LET merged == Merge(hooks[h].base, hooks[h].scan, hooks[h].keys)
         target == IF hooks[h].scan = current THEN generation ELSE generation + 1
     IN  \/ /\ current' = hooks[h].scan /\ generation' = target
            /\ AdvanceFrom(Me(h), Id(h), hooks[h].base, merged)
            /\ turns' = [turns EXCEPT ![Me(h)].baseline = merged]
            /\ hooks' = [hooks EXCEPT ![h].stage = "record", ![h].base = merged,
                                      ![h].tries = 0]
            /\ NoFault /\ UNCHANGED pending
         \/ \E steps \in 1..3 :
              /\ pending' = [before |-> current, after |-> hooks[h].scan,
                             generation |-> target, agent |-> Me(h), id |-> Id(h),
                             baseBefore |-> hooks[h].base, baseAfter |-> merged,
                             keys |-> hooks[h].keys]
              /\ current' = IF steps > 1 THEN hooks[h].scan ELSE current
              /\ IF steps > 2 THEN AdvanceFrom(Me(h), Id(h), hooks[h].base, merged)
                 ELSE UNCHANGED baselines
              /\ LeaveHook(h) \/ Report(h, FALSE)
              /\ Fault /\ UNCHANGED <<generation, turns>>
  /\ UNCHANGED <<worktree, announced, hurt>>

-----------------------------------------------------------------------------
(* record_turn_event_if_ready, and the tool                                *)

Recorded(h) ==
  LET turn == turns[Me(h)]
      base == Physical(Me(h), Id(h))
  IN  IF ~Mine(Me(h), Id(h)) THEN "stale"
      ELSE IF turn.status = "missing"
        THEN IF base \in {None, Broken} THEN "degraded" ELSE "exhausted"
      ELSE IF ~Bound(Me(h), Id(h)) THEN "degraded"
      ELSE IF turn.baseline = hooks[h].base THEN "recorded" ELSE "retry"

\* What begin_invocation makes of it: a last look at the baseline, or a
\* report; a retry is with the baseline that is there now.
Record(h) ==
  /\ Locked(h, "record")
  /\ CASE Recorded(h) = "stale" -> LeaveHook(h)
       [] Recorded(h) = "degraded" -> To(h, "final")
       [] Recorded(h) = "exhausted" -> Report(h, FALSE)
       [] Recorded(h) = "recorded" -> To(h, "tool")
       [] OTHER -> hooks' = [hooks EXCEPT ![h].base = turns[Me(h)].baseline]
  /\ KeepManifest /\ UNCHANGED <<baselines, turns, announced, bounds>>

\* The tool has ended: observe_post_tool.
Return(h) ==
  /\ AtStage(h, "tool")
  /\ hooks' = [hooks EXCEPT ![h].stage = "resume", ![h].post = TRUE]
  /\ KeepManifest /\ UNCHANGED <<baselines, turns, announced, bounds>>

Observe(h) ==
  /\ Locked(h, "observe")
  /\ IF Bound(Me(h), Id(h))
     THEN CommitScan(h, Scanned(hooks[h].keys)) /\ LeaveHook(h)
     ELSE Report(h, FALSE) /\ KeepManifest /\ UNCHANGED <<baselines, turns, announced>>
  /\ NoFault

\* _record_status
Status(h) ==
  /\ AtStage(h, "status")
  /\ \/ /\ turns' = IF hooks[h].mismatch /\ Mine(Me(h), Id(h))
                    THEN [turns EXCEPT ![Me(h)] = Degraded(@)] ELSE turns
        /\ NoFault
     \/ hooks[h].mismatch /\ Fault /\ UNCHANGED turns
  /\ LeaveHook(h)
  /\ KeepManifest /\ UNCHANGED <<baselines, announced>>

-----------------------------------------------------------------------------
\* The hook's process dies, or a save before any other change fails.
HookFails(h) ==
  /\ hooks[h] # None /\ hooks[h].stage \notin {"tell", "status"}
  /\ Fault
  /\ \/ LeaveHook(h)
     \/ IF hooks[h].prompt
          THEN hooks' = [hooks EXCEPT ![h].stage = "tell", ![h].base = None]
        ELSE Report(h, FALSE)
  /\ KeepManifest /\ UNCHANGED <<baselines, turns, announced>>

\* Tools, editors and programs.
Edit(k, content) ==
  /\ bounds.writes < MaxEdits /\ bounds' = [bounds EXCEPT !.writes = @ + 1]
  /\ content # worktree[k]
  /\ worktree' = [worktree EXCEPT ![k] = content]
  /\ UNCHANGED <<current, generation, pending, baselines, turns, announced, hooks, hurt>>

DamageFile(path, left) ==
  /\ Fault
  /\ baselines[path] # None
  /\ baselines' = [baselines EXCEPT ![path] = left]
  /\ hurt' = hurt \cup {path}
  /\ UNCHANGED <<worktree, current, generation, pending, turns, announced, hooks>>

BaselineInit ==
  /\ worktree \in Snapshot
  /\ current = [k \in Keys |-> None]
  /\ generation = 0 /\ pending = None
  \* an older version wrote no names into the files; names that share a file
  \* begin without one
  /\ baselines \in [BaselinePaths -> {None, [snap |-> current, own |-> None]}]
  /\ \A x, y \in Peers, t \in TurnIds :
       x # y /\ AgentKey[x] = AgentKey[y] => File(x, t) = None
  /\ turns = [x \in Peers |-> None]
  /\ announced = {} /\ hurt = {}
  /\ hooks = [h \in Slots |-> None]
  /\ bounds = [begun |-> 0, writes |-> 0, faults |-> 0]

BaselineNext ==
  \/ RecoverPending
  \/ \E h \in Slots :
       \/ \E x \in Peers, t \in TurnIds :
            BeginPrompt(h, x, t) \/ \E keys \in SUBSET Keys : BeginTool(h, x, t, keys)
       \/ ClaimLegacy(h) \/ EnsureSettled(h) \/ EnsurePending(h) \/ EnsureDegraded(h)
       \/ EnsureReady(h) \/ StartTurn(h) \/ SaveBaseline(h) \/ Tell(h)
       \/ View(h) \/ ReadTurn(h) \/ ReadFile(h) \/ Prime(h) \/ PrimeAgain(h) \/ Advance(h)
       \/ Record(h) \/ Return(h) \/ Observe(h) \/ Status(h) \/ HookFails(h)
  \/ \E k \in Keys, content \in Contents \cup {None} : Edit(k, content)
  \/ \E path \in BaselinePaths, left \in {None, Broken} : DamageFile(path, left)

BaselineSpec == BaselineInit /\ [][BaselineNext]_baselineVars

-----------------------------------------------------------------------------
BaselineTypeOK ==
  /\ worktree \in Snapshot /\ current \in Snapshot /\ generation \in Nat
  /\ pending \in Transition \cup {None}
  /\ baselines \in [BaselinePaths -> Baseline \cup {None, Broken}]
  /\ turns \in [Peers -> TurnState \cup {None}]
  /\ announced \subseteq Peers \X TurnIds \X {"entered", "recovered"} \X (Slots \cup {None})
  /\ hooks \in [Slots -> HookRun \cup {None}]
  /\ hurt \subseteq BaselinePaths
  /\ bounds \in [begun : 0..MaxBegun, writes : 0..MaxEdits, faults : 0..MaxHarm]

\* A turn the ledger calls ready has the baseline it names: whatever died or
\* failed in between, its file holds that or, while a transition is pending,
\* one of the two the transition leads between; nobody else's file is taken
\* for it.  And what the turn says of its recovery has been told.
ReadyIsBound ==
  \A x \in Peers :
    LET turn == turns[x]
    IN  turn # None /\ turn.status = "ready" /\ turn.baseline # None
        /\ turn_baseline_path(x, turn.id) \notin hurt =>
          /\ LET base == Physical(x, turn.id)
             IN  \/ base = turn.baseline
                 \/ /\ pending # None /\ pending.agent = x /\ pending.id = turn.id
                    /\ turn.baseline = pending.baseBefore /\ base = pending.baseAfter
          /\ turn.recovered # None =>
               <<x, turn.id, "recovered", turn.recovered>> \in announced

Names(base, k) == base \notin {None, Broken} /\ base[k] # None

\* What the baseline of a turn says of a path it goes on saying, and a path
\* the turn answers for is not taken into it afterwards, so that no change is
\* hidden; a degraded turn is not made good.  (A turn that an observation has
\* opened has no baseline yet: the prompt that writes one opens the turn anew,
\* and for a call the two do not agree.)
GrowsOnly ==
  \A x \in Peers, t \in TurnIds :
    Mine(x, t) /\ turns'[x] # None /\ turns'[x].id = t =>
      /\ turns[x].status = "degraded" => turns'[x].status = "degraded"
      /\ turn_baseline_path(x, t) \notin hurt' => \A k \in Keys :
           /\ Names(Physical(x, t), k) =>
                Names(Physical(x, t)', k) /\ Physical(x, t)'[k] = Physical(x, t)[k]
           /\ turns[x].baseline # None
              /\ Names(Physical(x, t)', k) /\ ~Names(Physical(x, t), k) =>
                k \notin turns[x].revised

BaselineOnlyGrows == [][GrowsOnly]_baselineVars
=============================================================================
