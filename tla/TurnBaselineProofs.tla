-------------------------- MODULE TurnBaselineProofs --------------------------
(***************************************************************************)
(* What holds of a turn's baseline for any agents, hooks, paths and bounds.*)
(*                                                                         *)
(* A turn that was called degraded is not made good while it is open: not  *)
(* by the recovery of a pending transition, not by a bootstrap, and not by *)
(* its prompt when it comes again (_preserve_degraded_baseline).           *)
(*                                                                         *)
(* A turn that is ready is bound to the baseline it names, and its file    *)
(* only grows.  Both follow from one invariant, IInv, which says what every*)
(* hook has read by the stage it is at, that a prompt's turn has no call   *)
(* and no transition under way, that what a prompt is going to tell is in  *)
(* the file, and to which of its two ends a pending transition has brought *)
(* the file and the snapshot.                                              *)
(***************************************************************************)
EXTENDS TurnBaseline, TLAPS

Fields == {"id", "status", "baseline", "fresh", "revised", "recovered"}

\* An agent has no turn or one with these fields.
Shaped(turn) == turn = None \/ (turn = [f \in DOMAIN turn |-> turn[f]] /\ DOMAIN turn = Fields)

TurnsShaped ==
  /\ turns = [x \in Peers |-> turns[x]]
  /\ \A x \in Peers : Shaped(turns[x])

\* The first part of GrowsOnly.
DegradedStays ==
  \A x \in Peers, t \in TurnIds :
    /\ Mine(x, t) /\ turns[x].status = "degraded"
    /\ turns'[x] # None /\ turns'[x].id = t
    => turns'[x].status = "degraded"

-----------------------------------------------------------------------------
(* What becomes of one turn.                                               *)

\* What a step may make of a turn.
Follows(turn, next) ==
  /\ Shaped(next)
  /\ turn # None /\ next # None /\ next.id = turn.id /\ turn.status = "degraded" =>
       next.status = "degraded"

LEMMA SameFollows == ASSUME NEW turn, Shaped(turn) PROVE Follows(turn, turn)
  BY DEF Follows

LEMMA OneChanges ==
  ASSUME TurnsShaped, NEW y, NEW next, Follows(turns[y], next) \/ y \notin Peers,
         turns' = [turns EXCEPT ![y] = next]
  PROVE  TurnsShaped' /\ DegradedStays
<1>1. turns' = [x \in Peers |-> IF x = y THEN next ELSE turns[x]]
  BY DEF TurnsShaped
<1>2. ASSUME NEW x \in Peers PROVE Follows(turns[x], turns'[x])
  <2>1. CASE x = y
    BY <1>1, <2>1
  <2>2. CASE x # y
    BY <1>1, <2>2, SameFollows DEF TurnsShaped
  <2> QED
    BY <2>1, <2>2
<1> QED
  BY <1>1, <1>2 DEF TurnsShaped, DegradedStays, Mine, Follows

LEMMA NoneChanges == ASSUME TurnsShaped, turns' = turns PROVE TurnsShaped' /\ DegradedStays
  BY DEF TurnsShaped, DegradedStays, Mine

LEMMA DegradedFollows ==
  ASSUME NEW turn, Shaped(turn), turn # None
  PROVE  Follows(turn, Degraded(turn)) /\ Degraded(turn).status = "degraded"
<1>1. /\ DOMAIN Degraded(turn) = Fields
      /\ Degraded(turn) = [f \in DOMAIN Degraded(turn) |-> Degraded(turn)[f]]
      /\ Degraded(turn).status = "degraded"
  BY DEF Degraded, Shaped, Fields
<1> QED
  BY <1>1 DEF Follows, Shaped

LEMMA NewTurnShaped ==
  ASSUME NEW id
  PROVE  Shaped(Unstarted(id)) /\ Unstarted(id).id = id /\ Unstarted(id).status = "missing"
  BY DEF Unstarted, Shaped, Fields

LEMMA StartsFollow ==
  ASSUME NEW turn, NEW next, turn = None \/ turn.status # "degraded" \/ turn.id # next.id,
         Shaped(next)
  PROVE  Follows(turn, next)
  BY DEF Follows

LEMMA FinalizedTurn ==
  ASSUME NEW turn, Shaped(turn), turn # None, NEW base
  PROVE  Follows(turn, IF base = Broken \/ turn.status = "degraded" THEN Degraded(turn)
                       ELSE [turn EXCEPT !.status = "ready", !.baseline = pending.baseAfter])
<1>1. CASE base = Broken \/ turn.status = "degraded"
  BY <1>1, DegradedFollows
<1>2. CASE ~(base = Broken \/ turn.status = "degraded")
  <2> DEFINE next == [turn EXCEPT !.status = "ready", !.baseline = pending.baseAfter]
  <2>1. Shaped(next)
    BY DEF Shaped, Fields
  <2>2. ASSUME NEW new, Shaped(new) PROVE Follows(turn, new)
    BY <1>2, <2>2 DEF Follows
  <2> QED
    BY <1>2, <2>1, <2>2
<1> QED
  BY <1>1, <1>2

LEMMA RevisedTurn ==
  ASSUME NEW turn, Shaped(turn), turn # None, NEW revised
  PROVE  Follows(turn, [turn EXCEPT !.revised = revised])
<1> DEFINE next == [turn EXCEPT !.revised = revised]
<1>1. Shaped(next) /\ next.status = turn.status
  BY DEF Shaped, Fields
<1>2. ASSUME NEW new, Shaped(new), new.status = turn.status PROVE Follows(turn, new)
  BY <1>2 DEF Follows
<1> QED
  BY <1>1, <1>2

LEMMA AdvancedTurn ==
  ASSUME NEW turn, Shaped(turn), turn # None, NEW base
  PROVE  Follows(turn, [turn EXCEPT !.baseline = base])
<1> DEFINE next == [turn EXCEPT !.baseline = base]
<1>1. Shaped(next) /\ next.status = turn.status
  BY DEF Shaped, Fields
<1>2. ASSUME NEW new, Shaped(new), new.status = turn.status PROVE Follows(turn, new)
  BY <1>2 DEF Follows
<1> QED
  BY <1>1, <1>2

-----------------------------------------------------------------------------
(* The steps that write the turns.                                         *)

LEMMA RecoverKeeps == ASSUME TurnsShaped, RecoverPending PROVE TurnsShaped' /\ DegradedStays
<1>1. CASE turns' = turns
  BY <1>1, NoneChanges
<1>2. ASSUME turns' = Finalized(Restored), turns' # turns
      PROVE  TurnsShaped' /\ DegradedStays
  <2> DEFINE y == pending.agent
             next == IF Restored = Broken \/ turns[y].status = "degraded"
                     THEN Degraded(turns[y])
                     ELSE [turns[y] EXCEPT !.status = "ready", !.baseline = pending.baseAfter]
  <2>1. turns' = [turns EXCEPT ![y] = next] /\ turns[y] # None
    BY <1>2 DEF Finalized, Mine
  <2>2. y \in Peers => Follows(turns[y], next)
    BY <2>1, FinalizedTurn DEF TurnsShaped
  <2> HIDE DEF next, y
  <2> QED
    BY <2>1, <2>2, OneChanges
<1> QED
  BY <1>1, <1>2 DEF RecoverPending

LEMMA EnsurePendingKeeps ==
  ASSUME TurnsShaped, NEW h \in Slots, EnsurePending(h) PROVE TurnsShaped' /\ DegradedStays
<1>1. CASE turns' = turns
  BY <1>1, NoneChanges
<1>2. CASE turns' = [turns EXCEPT ![Me(h)] = [Unstarted(Id(h)) EXCEPT !.fresh = TRUE]]
  <2> DEFINE next == [Unstarted(Id(h)) EXCEPT !.fresh = TRUE]
  <2>1. Shaped(next)
    BY DEF Unstarted, Shaped, Fields
  <2>2. turns[Me(h)] = None
    BY DEF EnsurePending
  <2> HIDE DEF next
  <2> QED
    BY <1>2, <2>1, <2>2, OneChanges, StartsFollow DEF next
<1> QED
  BY <1>1, <1>2 DEF EnsurePending

LEMMA EnsureDegradedKeeps ==
  ASSUME TurnsShaped, NEW h \in Slots, EnsureDegraded(h) PROVE TurnsShaped' /\ DegradedStays
<1> DEFINE turn == SettledTurn(turns[Me(h)], Id(h))
<1>1. CASE turns' = turns
  BY <1>1, NoneChanges
<1>2. CASE turns' = [turns EXCEPT ![Me(h)] = Degraded(turn)]
  <2>1. CASE turns[Me(h)] = None
    <3>1. Shaped(Degraded(turn))
      <4>1. turn = Unstarted(Id(h))
        BY <2>1 DEF SettledTurn
      <4> QED
        BY <4>1 DEF Unstarted, Degraded, Shaped, Fields
    <3> HIDE DEF turn
    <3> QED
      BY <1>2, <2>1, <3>1, OneChanges, StartsFollow
  <2>2. CASE turns[Me(h)] # None
    <3>1. turn = turns[Me(h)]
      BY <2>2 DEF SettledTurn
    <3>2. Me(h) \in Peers => Follows(turns[Me(h)], Degraded(turn))
      BY <2>2, <3>1, DegradedFollows DEF TurnsShaped
    <3> HIDE DEF turn
    <3> QED
      BY <1>2, <3>2, OneChanges
  <2> QED
    BY <2>1, <2>2
<1> QED
  BY <1>1, <1>2 DEF EnsureDegraded

LEMMA EnsureReadyKeeps ==
  ASSUME TurnsShaped, NEW h \in Slots, EnsureReady(h) PROVE TurnsShaped' /\ DegradedStays
<1>1. CASE turns' = turns
  BY <1>1, NoneChanges
<1>2. ASSUME NEW base, NEW said,
             turns' = [turns EXCEPT ![Me(h)] = Finished(turns[Me(h)], Id(h), base, said)]
      PROVE  TurnsShaped' /\ DegradedStays
  <2> DEFINE next == Finished(turns[Me(h)], Id(h), base, said)
  <2>1. turns[Me(h)] = None \/ turns[Me(h)].status = "missing"
    BY DEF EnsureReady
  <2>2. Me(h) \in Peers => Shaped(next)
    <3> SUFFICES ASSUME Me(h) \in Peers PROVE Shaped(next)
      OBVIOUS
    <3> DEFINE turn == SettledTurn(turns[Me(h)], Id(h))
    <3>1. Shaped(turn) /\ DOMAIN turn = Fields
      BY NewTurnShaped DEF SettledTurn, Unstarted, Fields, TurnsShaped, Shaped
    <3>2. next = [turn EXCEPT !.status = "ready", !.baseline = base,
                              !.fresh = FALSE, !.recovered = said]
      BY DEF Finished
    <3> HIDE DEF next, turn
    <3> QED
      BY <3>1, <3>2 DEF Shaped, Fields
  <2> HIDE DEF next
  <2> QED
    BY <1>2, <2>1, <2>2, OneChanges, StartsFollow DEF next
<1> QED
  BY <1>1, <1>2 DEF EnsureReady

LEMMA CommitKeeps ==
  ASSUME TurnsShaped, NEW h \in Slots, NEW snap, CommitScan(h, snap)
  PROVE  TurnsShaped' /\ DegradedStays
<1> DEFINE y == Me(h)
           turn == IF turns[y] = None THEN [Unstarted(Id(h)) EXCEPT !.status = "ready"]
                   ELSE turns[y]
<1>1. CASE turns' = turns
  BY <1>1, NoneChanges
<1>2. ASSUME NEW revised, turns' = [turns EXCEPT ![y] = [turn EXCEPT !.revised = revised]]
      PROVE  TurnsShaped' /\ DegradedStays
  <2> DEFINE next == [turn EXCEPT !.revised = revised]
  <2>1. CASE turns[y] = None
    <3>1. Shaped(next)
      BY <2>1 DEF Unstarted, Shaped, Fields
    <3> HIDE DEF next, turn
    <3> QED
      BY <1>2, <2>1, <3>1, OneChanges, StartsFollow DEF next
  <2>2. CASE turns[y] # None
    <3>1. turn = turns[y]
      BY <2>2
    <3>2. y \in Peers => Follows(turns[y], next)
      BY <2>2, <3>1, RevisedTurn DEF TurnsShaped
    <3> HIDE DEF next, turn, y
    <3> QED
      BY <1>2, <3>2, OneChanges DEF next
  <2> QED
    BY <2>1, <2>2
<1> QED
  BY <1>1, <1>2 DEF CommitScan, Revise

LEMMA TellKeeps ==
  ASSUME TurnsShaped, NEW h \in Slots, Tell(h) PROVE TurnsShaped' /\ DegradedStays
<1>1. CASE turns' = turns
  BY <1>1, NoneChanges
<1>2. ASSUME NEW base, NEW status,
             ~(Mine(Me(h), Id(h)) /\ turns[Me(h)].status = "degraded"),
             turns' = [turns EXCEPT ![Me(h)] =
                         [Unstarted(Id(h)) EXCEPT !.baseline = base, !.status = status]]
      PROVE  TurnsShaped' /\ DegradedStays
  <2> DEFINE next == [Unstarted(Id(h)) EXCEPT !.baseline = base, !.status = status]
  <2>1. Shaped(next) /\ next.id = Id(h)
    BY DEF Unstarted, Shaped, Fields
  <2> HIDE DEF next
  <2>2. Follows(turns[Me(h)], next)
    BY <1>2, <2>1, StartsFollow DEF Mine
  <2> QED
    BY <1>2, <2>2, OneChanges DEF next
<1> QED
  BY <1>1, <1>2 DEF Tell

LEMMA AdvanceKeeps ==
  ASSUME TurnsShaped, NEW h \in Slots, Advance(h) PROVE TurnsShaped' /\ DegradedStays
<1>1. CASE turns' = turns
  BY <1>1, NoneChanges
<1>2. ASSUME NEW base, turns' = [turns EXCEPT ![Me(h)].baseline = base]
      PROVE  TurnsShaped' /\ DegradedStays
  <2> DEFINE next == [turns[Me(h)] EXCEPT !.baseline = base]
  <2>1. turns[Me(h)] # None
    BY DEF Advance, StillFits, Bound, Ready, Mine
  <2>2. Me(h) \in Peers => Follows(turns[Me(h)], next)
    BY <2>1, AdvancedTurn DEF TurnsShaped
  <2>3. turns' = [turns EXCEPT ![Me(h)] = next]
    BY <1>2
  <2> HIDE DEF next
  <2> QED
    BY <2>2, <2>3, OneChanges
<1> QED
  BY <1>1, <1>2 DEF Advance

LEMMA StatusKeeps ==
  ASSUME TurnsShaped, NEW h \in Slots, Status(h) PROVE TurnsShaped' /\ DegradedStays
<1>1. CASE turns' = turns
  BY <1>1, NoneChanges
<1>2. ASSUME Mine(Me(h), Id(h)), turns' = [turns EXCEPT ![Me(h)] = Degraded(turns[Me(h)])]
      PROVE  TurnsShaped' /\ DegradedStays
  <2>1. Me(h) \in Peers => Follows(turns[Me(h)], Degraded(turns[Me(h)]))
    BY <1>2, DegradedFollows DEF Mine, TurnsShaped
  <2> QED
    BY <1>2, <2>1, OneChanges
<1> QED
  BY <1>1, <1>2 DEF Status

-----------------------------------------------------------------------------
LEMMA InitShaped == ASSUME BaselineInit PROVE TurnsShaped
  BY DEF BaselineInit, TurnsShaped, Shaped

LEMMA NextKeeps ==
  ASSUME TurnsShaped, [BaselineNext]_baselineVars PROVE TurnsShaped' /\ DegradedStays
<1>1. CASE UNCHANGED baselineVars
  BY <1>1, NoneChanges DEF baselineVars
<1>2. CASE RecoverPending
  BY <1>2, RecoverKeeps
<1>3. ASSUME NEW h \in Slots, NEW x \in Peers, NEW t \in TurnIds,
             \/ BeginPrompt(h, x, t)
             \/ \E keys \in SUBSET Keys : BeginTool(h, x, t, keys)
      PROVE  TurnsShaped' /\ DegradedStays
  BY <1>3, NoneChanges DEF BeginPrompt, BeginTool, StartHook
<1>4. ASSUME NEW h \in Slots, StartTurn(h) \/ Observe(h)
      PROVE  TurnsShaped' /\ DegradedStays
  BY <1>4, CommitKeeps, NoneChanges DEF StartTurn, Observe
<1>5. ASSUME NEW h \in Slots,
             ClaimLegacy(h) \/ EnsureSettled(h) \/ SaveBaseline(h) \/ View(h) \/ ReadTurn(h)
               \/ ReadFile(h) \/ Prime(h) \/ PrimeAgain(h)
      PROVE  TurnsShaped' /\ DegradedStays
  BY <1>5, NoneChanges DEF ClaimLegacy, EnsureSettled, SaveBaseline, View, ReadTurn, ReadFile,
                           Prime, PrimeAgain
<1>6. ASSUME NEW h \in Slots, Record(h) \/ Return(h) \/ HookFails(h)
      PROVE  TurnsShaped' /\ DegradedStays
  BY <1>6, NoneChanges DEF Record, Return, HookFails
<1>7. ASSUME NEW k \in Keys, NEW content, Edit(k, content)
      PROVE  TurnsShaped' /\ DegradedStays
  BY <1>7, NoneChanges DEF Edit
<1>8. ASSUME NEW path \in BaselinePaths, NEW left, DamageFile(path, left)
      PROVE  TurnsShaped' /\ DegradedStays
  BY <1>8, NoneChanges DEF DamageFile
<1> QED
  BY <1>1, <1>2, <1>3, <1>4, <1>5, <1>6, <1>7, <1>8, EnsurePendingKeeps,
     EnsureDegradedKeeps, EnsureReadyKeeps, TellKeeps, AdvanceKeeps, StatusKeeps DEF BaselineNext

\* No step makes a degraded turn of an agent good while it is open: neither
\* _finalize_locked nor _finish_recoverable_bootstrap nor the prompt's event.
THEOREM DegradedIsForGood == BaselineSpec => [][DegradedStays]_baselineVars
<1>1. BaselineInit => TurnsShaped
  BY InitShaped
<1>2. TurnsShaped /\ [BaselineNext]_baselineVars => TurnsShaped' /\ DegradedStays
  BY NextKeeps
<1> QED
  BY <1>1, <1>2, PTL DEF BaselineSpec

-----------------------------------------------------------------------------
(* Types.                                                                  *)

LEMMA Marks ==
  /\ None # Broken
  /\ \A s \in Snapshot : s # None /\ s # Broken
  /\ \A f \in Baseline : f # None /\ f # Broken
  /\ \A n \in TurnState : n # None
  /\ \A r \in HookRun : r # None
  /\ \A w \in Transition : w # None
  /\ \A o \in Peers \X TurnIds : o # None
  BY BaselineAssumption

LEMMA PathType ==
  ASSUME NEW x \in Peers, NEW t \in TurnIds PROVE turn_baseline_path(x, t) \in BaselinePaths
  BY DEF BaselinePaths

LEMMA PhysicalType ==
  ASSUME BaselineTypeOK, NEW x \in Peers, NEW t \in TurnIds
  PROVE  /\ File(x, t) \in Baseline \cup {None, Broken}
         /\ Physical(x, t) \in Snapshot \cup {None, Broken}
         /\ Physical(x, t) = None <=> File(x, t) = None
<1>1. File(x, t) \in Baseline \cup {None, Broken}
  BY PathType DEF BaselineTypeOK, File
<1> QED
  BY <1>1, Marks DEF Physical, Baseline

LEMMA MergeType ==
  ASSUME NEW base \in Snapshot, NEW snap \in Snapshot, NEW keys
  PROVE  /\ Merge(base, snap, keys) \in Snapshot
         /\ \A k \in Keys : base[k] # None => Merge(base, snap, keys)[k] = base[k]
         /\ \A k \in Keys : Merge(base, snap, keys)[k] # None /\ base[k] = None => k \in keys
  BY DEF Merge, Snapshot

LEMMA ScanType == ASSUME BaselineTypeOK, NEW forced PROVE Scanned(forced) \in Snapshot
  BY DEF BaselineTypeOK, Scanned, Snapshot

LEMMA SavedType ==
  ASSUME BaselineTypeOK, NEW x \in Peers, NEW t \in TurnIds, NEW snap \in Snapshot,
         SaveFile(x, t, snap)
  PROVE  baselines' \in [BaselinePaths -> Baseline \cup {None, Broken}]
<1>1. [snap |-> snap, own |-> <<x, t>>] \in Baseline
  BY DEF Baseline
<1> QED
  BY <1>1 DEF SaveFile, BaselineTypeOK

Stages == {"ensure", "start", "save", "tell", "resume", "ledger", "file", "prime",
           "commit", "record", "final", "tool", "observe", "status"}

\* The same hook, further on.
Goes(r, n) ==
  n \in HookRun /\ n.prompt = r.prompt /\ n.agent = r.agent /\ n.id = r.id

LEMMA HookType ==
  ASSUME BaselineTypeOK, NEW h \in Slots, hooks[h] # None
  PROVE  hooks[h] \in HookRun /\ Me(h) \in Peers /\ Id(h) \in TurnIds
<1>1. hooks[h] \in HookRun
  BY DEF BaselineTypeOK
<1> QED
  BY <1>1 DEF HookRun, Me, Id

LEMMA HookGoes ==
  ASSUME NEW r \in HookRun, NEW st \in Stages
  PROVE  /\ Goes(r, [r EXCEPT !.stage = st])
         /\ [r EXCEPT !.stage = st].stage = st
         /\ [r EXCEPT !.stage = st].base = r.base
         /\ [r EXCEPT !.stage = st].scan = r.scan
  BY DEF Goes, HookRun, Stages

LEMMA ReportGoes ==
  ASSUME NEW r \in HookRun, NEW mismatch \in BOOLEAN
  PROVE  LET n == [r EXCEPT !.stage = "status", !.mismatch = mismatch]
         IN  Goes(r, n) /\ n.stage = "status"
  BY DEF Goes, HookRun

LEMMA BaseGoes ==
  ASSUME NEW r \in HookRun, NEW st \in Stages, NEW base, base \in Snapshot \cup {None}
  PROVE  LET n == [r EXCEPT !.stage = st, !.base = base]
         IN  Goes(r, n) /\ n.stage = st /\ n.base = base
  BY DEF Goes, HookRun, Stages

LEMMA AgainGoes ==
  ASSUME NEW r \in HookRun, NEW st \in Stages
  PROVE  LET n == [r EXCEPT !.stage = st, !.tries = 1]
         IN  Goes(r, n) /\ n.stage = st /\ n.base = r.base
<1>1. 1 \in 0..1
  OBVIOUS
<1> QED
  BY ZenonT(30), <1>1 DEF Goes, HookRun, Stages

LEMMA RetryGoes ==
  ASSUME NEW r \in HookRun, NEW base, base \in Snapshot \cup {None}
  PROVE  LET n == [r EXCEPT !.base = base]
         IN  Goes(r, n) /\ n.stage = r.stage /\ n.base = base
  BY DEF Goes, HookRun, Stages

LEMMA ReturnGoes ==
  ASSUME NEW r \in HookRun, NEW st \in Stages
  PROVE  LET n == [r EXCEPT !.stage = st, !.post = TRUE]
         IN  Goes(r, n) /\ n.stage = st /\ n.base = r.base
  BY DEF Goes, HookRun, Stages

-----------------------------------------------------------------------------
(* The inductive invariant.                                                *)

Whole(x, t) == turn_baseline_path(x, t) \notin hurt

\* A file without a name is not one that two agents could mean.
LegacyIsOnes ==
  \A x, y \in Peers, t \in TurnIds :
    x # y /\ AgentKey[x] = AgentKey[y] => ~Unclaimed(x, t)

\* Where a hook is, and what it has by then.
Staged(r) ==
  /\ r.prompt => /\ r.stage \in {"start", "save", "tell"}
                 /\ r.stage # "tell" => r.base = None
  /\ r.stage = "tell" => r.prompt
  /\ r.stage = "commit" => r.base # None /\ r.scan # None

\* A prompt and the calls of its turn are not under way together, and what is
\* pending is not of a prompt's turn.
Apart ==
  \A g \in Slots : hooks[g] # None /\ hooks[g].prompt =>
    /\ \A h \in Slots : hooks[h] # None /\ ~hooks[h].prompt => <<Me(g), Id(g)>> # <<Me(h), Id(h)>>
    /\ pending # None => <<pending.agent, pending.id>> # <<Me(g), Id(g)>>

\* What a prompt is going to tell is in the file.
TellsTrue ==
  \A g \in Slots, x \in Peers, t \in TurnIds :
    /\ hooks[g] # None /\ hooks[g].prompt /\ hooks[g].base # None
    /\ Me(g) = x /\ Id(g) = t /\ Whole(x, t)
    => Physical(x, t) = hooks[g].base

HooksInv ==
  /\ \A g \in Slots : hooks[g] # None => Staged(hooks[g])
  /\ Apart /\ TellsTrue

\* The file is at one of the two ends of the pending transition of the turn.
Between(x, turn) ==
  /\ pending # None /\ pending.agent = x /\ pending.id = turn.id
  /\ turn.baseline = pending.baseBefore /\ Physical(x, turn.id) = pending.baseAfter

\* A turn that names a baseline has one, if it is ready the one it names.
Holds(x, turn) ==
  /\ turn.recovered # None => <<x, turn.id, "recovered", turn.recovered>> \in announced
  /\ turn.status = "missing" => turn.revised = {} /\ turn.baseline = None
  /\ turn.baseline # None /\ Whole(x, turn.id) =>
       /\ Physical(x, turn.id) \notin {None, Broken}
       /\ turn.status = "ready" => Physical(x, turn.id) = turn.baseline \/ Between(x, turn)

TurnsHold == \A x \in Peers : turns[x] # None => Holds(x, turns[x])

\* What is pending takes nothing back from the baseline and adds nothing that
\* its turn answers for; its file is not written before the snapshot is.
PendingFits ==
  \A x \in Peers, t \in TurnIds :
    pending # None /\ pending.agent = x /\ pending.id = t =>
      /\ current \in {pending.before, pending.after}
      /\ \A k \in Keys :
           pending.baseBefore[k] # None => pending.baseAfter[k] = pending.baseBefore[k]
      /\ Whole(x, t) =>
           /\ Physical(x, t) \in {pending.baseBefore, pending.baseAfter}
           /\ current # pending.after => Physical(x, t) = pending.baseBefore
      /\ Mine(x, t) =>
           /\ \A k \in Keys : pending.baseBefore[k] = None /\ pending.baseAfter[k] # None =>
                k \notin turns[x].revised
           /\ turns[x].status # "missing"
           /\ turns[x].status = "ready" => turns[x].baseline = pending.baseBefore

IInv ==
  BaselineTypeOK /\ LegacyIsOnes /\ HooksInv /\ TurnsHold /\ PendingFits

LEMMA HoldsIsBound == ASSUME IInv PROVE ReadyIsBound
  BY DEF IInv, TurnsHold, Holds, Whole, Between, ReadyIsBound

-----------------------------------------------------------------------------
(* What a step does to the files.                                          *)

\* What was there of a file that is not damaged is there.
Steady(x, t) ==
  Whole(x, t)' /\ Physical(x, t) \notin {None, Broken} => Physical(x, t)' = Physical(x, t)

LEMMA SavedFile ==
  ASSUME BaselineTypeOK, LegacyIsOnes, NEW y \in Peers, NEW u \in TurnIds,
         NEW snap \in Snapshot, SaveFile(y, u, snap), Physical(y, u) # Broken
  PROVE  /\ LegacyIsOnes'
         /\ Physical(y, u)' = snap
         /\ \A x \in Peers, t \in TurnIds :
              <<x, t>> # <<y, u>> =>
                \/ Physical(x, t)' = Physical(x, t)
                \/ Physical(x, t) = None /\ Physical(x, t)' = Broken
<1> DEFINE f == [snap |-> snap, own |-> <<y, u>>]
<1>1. f \in Baseline /\ f.snap = snap /\ f.own = <<y, u>>
  BY DEF Baseline
<1>2. <<y, u>> # None
  BY Marks
<1>3. turn_baseline_path(y, u) \in BaselinePaths
  BY PathType
<1>4. File(y, u)' = f
  BY <1>3 DEF SaveFile, File, BaselineTypeOK
<1>5. f # None /\ f # Broken
  BY <1>1, Marks
<1>6. Physical(y, u)' = snap
  BY <1>1, <1>4, <1>5 DEF Physical, turn_baseline_path
<1>7. ASSUME NEW x \in Peers, NEW t \in TurnIds, <<x, t>> # <<y, u>>
      PROVE  \/ Physical(x, t)' = Physical(x, t) /\ File(x, t)' = File(x, t)
             \/ /\ \/ Physical(x, t)' = Physical(x, t)
                   \/ Physical(x, t) = None /\ Physical(x, t)' = Broken
                /\ File(x, t)' = f
  <2>1. turn_baseline_path(x, t) \in BaselinePaths
    BY PathType
  <2>2. CASE turn_baseline_path(x, t) # turn_baseline_path(y, u)
    <3>1. File(x, t)' = File(x, t)
      BY <1>3, <2>1, <2>2 DEF SaveFile, File, BaselineTypeOK
    <3> QED
      BY <3>1 DEF Physical, File
  <2>3. CASE turn_baseline_path(x, t) = turn_baseline_path(y, u)
    <3>1. x # y /\ t = u /\ AgentKey[x] = AgentKey[y] /\ File(x, t) = File(y, u)
      BY <1>7, <2>3 DEF turn_baseline_path, File
    <3>2. File(x, t)' = f
      BY <1>3, <2>3 DEF SaveFile, File, BaselineTypeOK
    <3>3. Physical(x, t)' = Broken
      BY <1>1, <1>2, <1>5, <1>7, <3>2 DEF Physical, File
    <3>4. ~Unclaimed(y, u)
      BY <3>1 DEF LegacyIsOnes
    <3>5. Physical(x, t) \in {None, Broken}
      BY <1>7, <3>1, <3>4 DEF Physical, Unclaimed
    <3> QED
      BY <3>2, <3>3, <3>5
  <2> QED
    BY <2>2, <2>3
<1>8. LegacyIsOnes'
  <2> SUFFICES ASSUME NEW x \in Peers, NEW z \in Peers, NEW t \in TurnIds,
                      x # z, AgentKey[x] = AgentKey[z]
               PROVE  ~Unclaimed(x, t)'
    BY DEF LegacyIsOnes
  <2>1. CASE File(x, t)' = f
    BY <1>1, <1>2, <2>1 DEF Unclaimed, File
  <2>2. CASE File(x, t)' = File(x, t)
    BY <2>2 DEF LegacyIsOnes, Unclaimed, File
  <2> QED
    BY <1>4, <1>7, <2>1, <2>2
<1> QED
  BY <1>6, <1>7, <1>8

LEMMA SavedSteady ==
  ASSUME BaselineTypeOK, LegacyIsOnes, NEW y \in Peers, NEW u \in TurnIds,
         NEW snap \in Snapshot, SaveFile(y, u, snap), Physical(y, u) \in {None, snap},
         UNCHANGED hurt
  PROVE  \A x \in Peers, t \in TurnIds : Steady(x, t)
<1>1. Physical(y, u) # Broken
  BY Marks
<1>2. Physical(y, u)' = snap
  BY <1>1, SavedFile
<1> SUFFICES ASSUME NEW x \in Peers, NEW t \in TurnIds PROVE Steady(x, t)
  OBVIOUS
<1>3. CASE x = y /\ t = u
  BY <1>2, <1>3 DEF Steady, Whole
<1>4. CASE <<x, t>> # <<y, u>>
  BY <1>1, <1>4, SavedFile DEF Steady, Whole
<1> QED
  BY <1>3, <1>4

LEMMA FilesSame ==
  ASSUME UNCHANGED <<baselines, hurt>>
  PROVE  /\ \A x \in Peers, t \in TurnIds :
              Steady(x, t) /\ Physical(x, t)' = Physical(x, t) /\ Whole(x, t)' = Whole(x, t)
         /\ LegacyIsOnes' = LegacyIsOnes
  BY DEF Steady, Whole, Physical, File, LegacyIsOnes, Unclaimed

-----------------------------------------------------------------------------
(* What a step does to the turns and the hooks.                            *)

LEMMA TurnType ==
  ASSUME BaselineTypeOK, NEW x \in Peers, turns[x] # None
  PROVE  turns[x] \in TurnState /\ turns[x].id \in TurnIds
<1>1. turns[x] \in TurnState
  BY DEF BaselineTypeOK
<1> QED
  BY <1>1 DEF TurnState

\* A turn that a step does not write holds what it held.
LEMMA StaysHeld ==
  ASSUME BaselineTypeOK, NEW x \in Peers, turns[x] # None, turns'[x] = turns[x], Holds(x, turns[x]),
         announced \subseteq announced', hurt \subseteq hurt',
         \A t \in TurnIds : t = turns[x].id => Steady(x, t),
         pending' = pending
           \/ (Between(x, turns[x]) => ~Whole(x, turns[x].id)')
  PROVE  Holds(x, turns[x])'
<1> DEFINE t == turns[x].id
<1>1. t \in TurnIds /\ turns'[x].id = t
  BY TurnType
<1>2. Steady(x, t)
  BY <1>1
<1>3. PICK u \in TurnIds : u = t
  BY <1>1
<1>4. Steady(x, u)
  BY <1>3
<1>5. /\ Whole(x, turns[x].id) = Whole(x, u) /\ Physical(x, turns[x].id) = Physical(x, u)
      /\ Whole(x, turns[x].id)' = Whole(x, u)' /\ Physical(x, turns[x].id)' = Physical(x, u)'
  BY <1>1, <1>3 DEF Whole, Physical, File
<1>6. Whole(x, u)' => Whole(x, u)
  BY DEF Whole
<1> QED
  BY <1>1, <1>3, <1>4, <1>5, <1>6 DEF Holds, Between, Steady

\* What a step does to the turn's baseline where no file is advanced.
GrowsAt(x, t) ==
  Whole(x, t)' => \A k \in Keys :
    /\ Names(Physical(x, t), k) =>
         Names(Physical(x, t)', k) /\ Physical(x, t)'[k] = Physical(x, t)[k]
    /\ turns[x].baseline # None /\ Names(Physical(x, t)', k) /\ ~Names(Physical(x, t), k) =>
         k \notin turns[x].revised

Grows ==
  \A x \in Peers, t \in TurnIds :
    Mine(x, t) /\ turns'[x] # None /\ turns'[x].id = t => GrowsAt(x, t)

LEMMA SteadyGrows ==
  ASSUME TurnsHold, hurt \subseteq hurt', NEW x \in Peers, NEW t \in TurnIds, Mine(x, t), Steady(x, t)
  PROVE  GrowsAt(x, t)
<1>1. Whole(x, t)' => Whole(x, t)
  BY DEF Whole
<1>2. turns[x].baseline # None /\ Whole(x, t) => Physical(x, t) \notin {None, Broken}
  BY DEF TurnsHold, Holds, Mine
<1> QED
  BY <1>1, <1>2 DEF GrowsAt, Steady, Names

\* Of the file of a call's turn the prompts say nothing.
LEMMA HookLeads ==
  ASSUME BaselineTypeOK, HooksInv, NEW h \in Slots, hooks[h] # None,
         NEW n \in HookRun \cup {None}, hooks' = [hooks EXCEPT ![h] = n],
         n # None => Goes(hooks[h], n) /\ Staged(n),
         \A x \in Peers, t \in TurnIds : Steady(x, t) \/ (~hooks[h].prompt /\ Me(h) = x /\ Id(h) = t),
         hurt \subseteq hurt',
         \/ pending' \in {pending, None}
         \/ ~hooks[h].prompt /\ pending'.agent = Me(h) /\ pending'.id = Id(h),
         n # None /\ n.prompt /\ n.base # None =>
           \/ n.base = hooks[h].base
           \/ \A x \in Peers, t \in TurnIds : Me(h) = x /\ Id(h) = t => Physical(x, t)' = n.base
  PROVE  HooksInv' /\ hooks' \in [Slots -> HookRun \cup {None}]
<1>1. hooks' \in [Slots -> HookRun \cup {None}] /\ hooks'[h] = n
      /\ \A g \in Slots : g # h => hooks'[g] = hooks[g]
  BY DEF BaselineTypeOK
<1>2. \A g \in Slots : hooks'[g] # None =>
        /\ hooks[g] # None /\ hooks'[g].prompt = hooks[g].prompt
        /\ Me(g)' = Me(g) /\ Id(g)' = Id(g) /\ Staged(hooks'[g])
  BY <1>1 DEF Goes, HooksInv, Me, Id
<1>3. Apart'
  <2> SUFFICES ASSUME NEW g \in Slots, hooks'[g] # None, hooks'[g].prompt
               PROVE  /\ \A f \in Slots : hooks'[f] # None /\ ~hooks'[f].prompt =>
                                            <<Me(g), Id(g)>> # <<Me(f)', Id(f)'>>
                      /\ pending' # None => <<pending'.agent, pending'.id>> # <<Me(g), Id(g)>>
    BY <1>2 DEF Apart
  <2>1. \A f \in Slots : hooks'[f] # None /\ ~hooks'[f].prompt =>
                                            <<Me(g), Id(g)>> # <<Me(f)', Id(f)'>>
    BY <1>2 DEF HooksInv, Apart
  <2>2. pending' # None => <<pending'.agent, pending'.id>> # <<Me(g), Id(g)>>
    <3>1. CASE pending' \in {pending, None}
      BY <1>2, <3>1 DEF HooksInv, Apart
    <3>2. CASE ~hooks[h].prompt /\ pending'.agent = Me(h) /\ pending'.id = Id(h)
      BY <1>2, <3>2 DEF HooksInv, Apart
    <3> QED
      BY <3>1, <3>2
  <2> QED
    BY <2>1, <2>2
<1>4. TellsTrue'
  <2> SUFFICES ASSUME NEW g \in Slots, NEW x \in Peers, NEW t \in TurnIds,
                      hooks'[g] # None, hooks'[g].prompt, hooks'[g].base # None,
                      Me(g) = x, Id(g) = t, Whole(x, t)'
               PROVE  Physical(x, t)' = hooks'[g].base
    BY <1>2 DEF TellsTrue
  <2>1. Steady(x, t)
    BY <1>2 DEF HooksInv, Apart
  <2>2. CASE hooks'[g].base = hooks[g].base
    <3>1. hooks[g].base \in Snapshot /\ hooks[g] # None /\ hooks[g].prompt
      <4>1. hooks[g] \in HookRun
        BY <1>2 DEF BaselineTypeOK
      <4> QED
        BY <1>2, <2>2, <4>1 DEF HookRun
    <3>2. hooks[g].base # None /\ hooks[g].base # Broken
      BY <3>1, Marks
    <3>3. Whole(x, t) => Physical(x, t) = hooks[g].base
      BY <3>1, <3>2 DEF HooksInv, TellsTrue
    <3> QED
      BY <2>1, <2>2, <3>2, <3>3 DEF Steady, Whole
  <2>3. CASE hooks'[g].base # hooks[g].base
    BY <1>1, <2>3
  <2> QED
    BY <2>2, <2>3
<1> QED
  BY <1>1, <1>2, <1>3, <1>4 DEF HooksInv

LEMMA HookMoves ==
  ASSUME BaselineTypeOK, HooksInv, NEW h \in Slots, hooks[h] # None,
         NEW n \in HookRun \cup {None}, hooks' = [hooks EXCEPT ![h] = n],
         n # None => Goes(hooks[h], n) /\ Staged(n),
         \A x \in Peers, t \in TurnIds : Steady(x, t), hurt \subseteq hurt',
         \/ pending' \in {pending, None}
         \/ ~hooks[h].prompt /\ pending'.agent = Me(h) /\ pending'.id = Id(h),
         n # None /\ n.prompt /\ n.base # None =>
           \/ n.base = hooks[h].base
           \/ \A x \in Peers, t \in TurnIds : Me(h) = x /\ Id(h) = t => Physical(x, t)' = n.base
  PROVE  HooksInv' /\ hooks' \in [Slots -> HookRun \cup {None}]
<1>1. \A x \in Peers, t \in TurnIds : Steady(x, t) \/ (~hooks[h].prompt /\ Me(h) = x /\ Id(h) = t)
  OBVIOUS
<1> QED
  BY <1>1, HookLeads

LEMMA TurnsStay ==
  ASSUME BaselineTypeOK, TurnsHold, NEW W \in SUBSET Peers,
         \A x \in Peers \ W : turns'[x] = turns[x],
         \A x \in W : turns'[x] # None => Holds(x, turns[x])',
         announced \subseteq announced', hurt \subseteq hurt',
         \A x \in Peers \ W, t \in TurnIds : Steady(x, t),
         pending' = pending \/ pending = None \/ pending.agent \in W
  PROVE  TurnsHold'
<1> SUFFICES ASSUME NEW x \in Peers, turns'[x] # None PROVE Holds(x, turns[x])'
  BY DEF TurnsHold
<1>1. CASE x \notin W
  <2>1. Between(x, turns[x]) => pending' = pending
    BY <1>1 DEF Between
  <2>2. turns'[x] = turns[x] /\ Holds(x, turns[x])
    BY <1>1 DEF TurnsHold
  <2>3. \A t \in TurnIds : t = turns[x].id => Steady(x, t)
    BY <1>1
  <2> QED
    BY <2>1, <2>2, <2>3, StaysHeld
<1> QED
  BY <1>1

LEMMA NoTurnWritten ==
  ASSUME BaselineTypeOK, TurnsHold, turns' = turns, announced \subseteq announced',
         hurt \subseteq hurt', \A x \in Peers, t \in TurnIds : Steady(x, t),
         pending' = pending \/ pending = None
  PROVE  TurnsHold'
<1> DEFINE W == {}
<1>1. W \in SUBSET Peers /\ \A x \in W : FALSE
  OBVIOUS
<1> HIDE DEF W
<1> QED
  BY <1>1, TurnsStay

LEMMA PendingStays ==
  ASSUME BaselineTypeOK, PendingFits, UNCHANGED <<pending, current>>, hurt \subseteq hurt',
         \A x \in Peers, t \in TurnIds : Steady(x, t),
         \A x \in Peers, t \in TurnIds :
           pending # None /\ pending.agent = x /\ pending.id = t /\ Mine(x, t)' =>
             /\ Mine(x, t) /\ turns'[x].revised = turns[x].revised
             /\ turns'[x] = turns[x] \/ turns'[x].status = "degraded"
  PROVE  PendingFits'
<1> SUFFICES ASSUME NEW x \in Peers, NEW t \in TurnIds, pending # None,
                    pending.agent = x, pending.id = t
             PROVE  /\ current \in {pending.before, pending.after}
                    /\ \A k \in Keys :
                         pending.baseBefore[k] # None => pending.baseAfter[k] = pending.baseBefore[k]
                    /\ Whole(x, t)' =>
                         /\ Physical(x, t)' \in {pending.baseBefore, pending.baseAfter}
                         /\ current # pending.after => Physical(x, t)' = pending.baseBefore
                    /\ Mine(x, t)' =>
                         /\ \A k \in Keys : pending.baseBefore[k] = None /\ pending.baseAfter[k] # None =>
                              k \notin turns'[x].revised
                         /\ turns'[x].status # "missing"
                         /\ turns'[x].status = "ready" => turns'[x].baseline = pending.baseBefore
  BY DEF PendingFits
<1>1. pending.baseBefore \in Snapshot /\ pending.baseAfter \in Snapshot
  <2>1. pending \in Transition
    BY DEF BaselineTypeOK
  <2> QED
    BY <2>1 DEF Transition
<1>2. {pending.baseBefore, pending.baseAfter} \cap {None, Broken} = {}
  BY <1>1, Marks
<1>3. Whole(x, t)' => Whole(x, t)
  BY DEF Whole
<1>4. Whole(x, t)' => Physical(x, t) \in {pending.baseBefore, pending.baseAfter}
                      /\ Physical(x, t)' = Physical(x, t)
  BY <1>2, <1>3 DEF PendingFits, Steady
<1> QED
  BY <1>3, <1>4 DEF PendingFits

LEMMA AllGrow ==
  ASSUME TurnsHold, hurt \subseteq hurt', \A x \in Peers, t \in TurnIds : Steady(x, t)
  PROVE  Grows
  BY SteadyGrows DEF Grows

LEMMA Budget ==
  ASSUME BaselineTypeOK, Fault \/ NoFault
  PROVE  bounds' \in [begun : 0..MaxBegun, writes : 0..MaxEdits, faults : 0..MaxHarm]
  BY BaselineAssumption DEF BaselineTypeOK, Fault, NoFault

\* A hook goes on or ends, with nothing new to tell.
Moves(h) ==
  \E n \in HookRun \cup {None} :
    /\ hooks' = [hooks EXCEPT ![h] = n]
    /\ n # None => Goes(hooks[h], n) /\ Staged(n)
    /\ n # None /\ n.prompt /\ n.base # None => n.base = hooks[h].base

LEMMA CallsStage ==
  ASSUME HooksInv, NEW h \in Slots, hooks[h] # None,
         hooks[h].stage \notin {"start", "save", "tell"}
  PROVE  ~hooks[h].prompt
  BY DEF HooksInv, Staged

LEMMA LeaveMoves == ASSUME NEW h \in Slots, LeaveHook(h) PROVE Moves(h)
  BY DEF LeaveHook, Moves

LEMMA ReportMoves ==
  ASSUME BaselineTypeOK, NEW h \in Slots, hooks[h] # None, ~hooks[h].prompt,
         NEW mismatch \in BOOLEAN, Report(h, mismatch)
  PROVE  Moves(h)
<1> DEFINE n == [hooks[h] EXCEPT !.stage = "status", !.mismatch = mismatch]
<1>1. Goes(hooks[h], n) /\ n.stage = "status"
  BY HookType, ReportGoes
<1>2. hooks' = [hooks EXCEPT ![h] = n]
  BY DEF Report
<1> HIDE DEF n
<1> QED
  BY <1>1, <1>2 DEF Moves, Goes, Staged

LEMMA ToMoves ==
  ASSUME BaselineTypeOK, NEW h \in Slots, hooks[h] # None, NEW st \in Stages, To(h, st),
         IF hooks[h].prompt THEN st = "tell" ELSE st \notin {"commit", "tell"}
  PROVE  Moves(h)
<1> DEFINE n == [hooks[h] EXCEPT !.stage = st]
<1>1. Goes(hooks[h], n) /\ n.stage = st /\ n.base = hooks[h].base
  BY HookType, HookGoes
<1>2. hooks' = [hooks EXCEPT ![h] = n]
  BY DEF To
<1> HIDE DEF n
<1> QED
  BY <1>1, <1>2 DEF Moves, Goes, Staged

LEMMA MovedHooks ==
  ASSUME BaselineTypeOK, HooksInv, NEW h \in Slots, hooks[h] # None, Moves(h),
         \A x \in Peers, t \in TurnIds : Steady(x, t), hurt \subseteq hurt',
         \/ pending' \in {pending, None}
         \/ ~hooks[h].prompt /\ pending'.agent = Me(h) /\ pending'.id = Id(h)
  PROVE  HooksInv' /\ hooks' \in [Slots -> HookRun \cup {None}]
  BY HookMoves DEF Moves

\* A step of one hook that changes nothing else.
LEMMA HookOnly ==
  ASSUME IInv, NEW h \in Slots, hooks[h] # None, Moves(h),
         UNCHANGED <<worktree, current, generation, pending, baselines, turns, announced, hurt>>,
         Fault \/ NoFault
  PROVE  IInv' /\ Grows
<1>1. \A x \in Peers, t \in TurnIds : Steady(x, t)
  BY FilesSame
<1>2. HooksInv' /\ hooks' \in [Slots -> HookRun \cup {None}]
  BY <1>1, MovedHooks DEF IInv
<1>3. BaselineTypeOK'
  BY <1>2, Budget DEF IInv, BaselineTypeOK, BaselinePaths, turn_baseline_path
<1>4. LegacyIsOnes'
  BY FilesSame DEF IInv
<1>5. TurnsHold'
  BY <1>1, NoTurnWritten DEF IInv
<1>6. PendingFits'
  BY <1>1, PendingStays DEF IInv, Mine
<1> QED
  BY <1>1, <1>2, <1>3, <1>4, <1>5, <1>6, AllGrow DEF IInv

-----------------------------------------------------------------------------
(* The actions.                                                            *)

LEMMA BeginsGood ==
  ASSUME IInv, NEW h \in Slots, NEW x \in Peers, NEW t \in TurnIds,
         BeginPrompt(h, x, t) \/ \E keys \in SUBSET Keys : BeginTool(h, x, t, keys)
  PROVE  IInv' /\ Grows
<1>1. PICK n : /\ StartHook(h, n) /\ n \in HookRun /\ n.agent = x /\ n.id = t /\ n.base = None
               /\ n.stage = IF n.prompt THEN "start" ELSE "ensure"
               /\ ~Running(~n.prompt, x, t)
  <2>0. current \in Snapshot /\ generation \in Nat
    BY DEF IInv, BaselineTypeOK
  <2>1. CASE BeginPrompt(h, x, t)
    <3> DEFINE n == NewHook(TRUE, x, t, {}, "start")
    <3>1. /\ n \in HookRun /\ n.agent = x /\ n.id = t /\ n.base = None
          /\ n.prompt = TRUE /\ n.stage = "start"
      BY <2>0 DEF NewHook, HookRun
    <3>2. StartHook(h, n) /\ ~Running(FALSE, x, t)
      BY <2>1 DEF BeginPrompt
    <3> HIDE DEF n
    <3> QED
      BY <3>1, <3>2
  <2>2. ASSUME NEW keys \in SUBSET Keys, BeginTool(h, x, t, keys) 
      PROVE  \E m : /\ StartHook(h, m) /\ m \in HookRun /\ m.agent = x /\ m.id = t /\ m.base = None
                    /\ m.stage = IF m.prompt THEN "start" ELSE "ensure"
                    /\ ~Running(~m.prompt, x, t)
    <3> DEFINE n == NewHook(FALSE, x, t, keys, "ensure")
    <3>1. /\ n \in HookRun /\ n.agent = x /\ n.id = t /\ n.base = None
          /\ n.prompt = FALSE /\ n.stage = "ensure"
      BY <2>0 DEF NewHook, HookRun
    <3>2. StartHook(h, n) /\ ~Running(TRUE, x, t)
      BY <2>2 DEF BeginTool
    <3> HIDE DEF n
    <3> QED
      BY <3>1, <3>2
  <2> QED
    BY <2>1, <2>2
<1>2. \A y \in Peers, u \in TurnIds : Steady(y, u)
  BY <1>1, FilesSame DEF StartHook, KeepManifest
<1>3. /\ hooks' \in [Slots -> HookRun \cup {None}] /\ hooks'[h] = n
      /\ \A g \in Slots : g # h => hooks'[g] = hooks[g]
  BY <1>1 DEF IInv, BaselineTypeOK, StartHook
<1>4. HooksInv'
  <2>1. \A g \in Slots : hooks'[g] # None => Staged(hooks'[g])
    BY <1>1, <1>3 DEF IInv, HooksInv, Staged
  <2>2. Apart'
    <3> SUFFICES ASSUME NEW g \in Slots, hooks'[g] # None, hooks'[g].prompt,
                        NEW f \in Slots, hooks'[f] # None, ~hooks'[f].prompt
                 PROVE  <<Me(g)', Id(g)'>> # <<Me(f)', Id(f)'>>
      BY <1>1 DEF Apart, StartHook, KeepManifest
    <3>1. CASE g # h /\ f # h
      BY <1>3, <3>1 DEF IInv, HooksInv, Apart, Me, Id
    <3>2. CASE g = h
      <4>1. n.prompt = TRUE /\ Me(g)' = x /\ Id(g)' = t /\ f # h
        BY <1>1, <1>3, <3>2 DEF Me, Id, HookRun
      <4>2. hooks'[f] = hooks[f] /\ hooks[f].prompt = FALSE
        <5>1. hooks'[f] = hooks[f] /\ hooks[f] \in HookRun
          BY <1>3, <4>1, HookType DEF IInv
        <5> QED
          BY <5>1 DEF HookRun
      <4> QED
        BY <1>1, <4>1, <4>2 DEF Running, Me, Id
    <3>3. CASE f = h
      <4>1. n.prompt = FALSE /\ Me(f)' = x /\ Id(f)' = t /\ g # h
        BY <1>1, <1>3, <3>3 DEF Me, Id, HookRun
      <4>2. hooks'[g] = hooks[g] /\ hooks[g].prompt = TRUE
        <5>1. hooks'[g] = hooks[g] /\ hooks[g] \in HookRun
          BY <1>3, <4>1, HookType DEF IInv
        <5> QED
          BY <5>1 DEF HookRun
      <4> QED
        BY <1>1, <4>1, <4>2 DEF Running, Me, Id
    <3> QED
      BY <3>1, <3>2, <3>3
  <2>3. TellsTrue'
    BY <1>1, <1>3, FilesSame DEF IInv, HooksInv, TellsTrue, StartHook, KeepManifest, Me, Id
  <2> QED
    BY <2>1, <2>2, <2>3 DEF HooksInv
<1>5. BaselineTypeOK'
  BY <1>1, <1>3, BaselineAssumption
     DEF IInv, BaselineTypeOK, BaselinePaths, turn_baseline_path, StartHook, KeepManifest
<1>6. LegacyIsOnes'
  BY <1>1, FilesSame DEF IInv, StartHook, KeepManifest
<1>7. TurnsHold' /\ PendingFits'
  BY <1>1, <1>2, NoTurnWritten, PendingStays DEF IInv, StartHook, KeepManifest, Mine
<1> QED
  BY <1>1, <1>2, <1>4, <1>5, <1>6, <1>7, AllGrow DEF IInv, StartHook, KeepManifest

LEMMA CallStep ==
  ASSUME IInv, NEW h \in Slots, hooks[h] # None, hooks[h].stage \notin {"start", "save", "tell"}
  PROVE  /\ hooks[h] \in HookRun /\ ~hooks[h].prompt
         /\ hooks[h].base \in Snapshot \cup {None} /\ Me(h) \in Peers /\ Id(h) \in TurnIds
<1>1. hooks[h] \in HookRun /\ ~hooks[h].prompt /\ Me(h) \in Peers /\ Id(h) \in TurnIds
  BY HookType, CallsStage DEF IInv
<1> QED
  BY <1>1 DEF HookRun

LEMMA CallLeaves ==
  ASSUME IInv, NEW h \in Slots, hooks[h] # None, hooks[h].stage \notin {"start", "save", "tell"},
         \/ LeaveHook(h)
         \/ \E mismatch \in BOOLEAN : Report(h, mismatch)
         \/ \E st \in Stages \ {"commit", "tell"} : To(h, st)
  PROVE  Moves(h)
  BY CallStep, LeaveMoves, ReportMoves, ToMoves DEF IInv

LEMMA MovesOn ==
  ASSUME NEW h \in Slots, NEW r \in HookRun, hooks[h] = r, ~r.prompt, NEW n, Goes(r, n),
         n.stage # "tell", n.stage = "commit" => n.base # None /\ n.scan # None,
         hooks' = [hooks EXCEPT ![h] = n]
  PROVE  Moves(h)
  BY DEF Moves, Goes, Staged

LEMMA ReadsGood ==
  ASSUME IInv, NEW h \in Slots,
         EnsureSettled(h) \/ View(h) \/ ReadTurn(h) \/ ReadFile(h) \/ Prime(h) \/ PrimeAgain(h)
           \/ Record(h) \/ Return(h)
  PROVE  IInv' /\ Grows
<1>a. hooks[h] # None /\ hooks[h].stage \notin {"start", "save", "tell"}
  BY DEF EnsureSettled, View, ReadTurn, ReadFile, Prime, PrimeAgain, Record, Return, AtStage, Locked
<1>b. /\ hooks[h] \in HookRun /\ ~hooks[h].prompt
      /\ hooks[h].base \in Snapshot \cup {None} /\ Me(h) \in Peers /\ Id(h) \in TurnIds
  BY <1>a, CallStep
<1>c. /\ UNCHANGED <<worktree, current, generation, pending, baselines, turns, announced, hurt>>
      /\ NoFault
  BY DEF EnsureSettled, View, ReadTurn, ReadFile, Prime, PrimeAgain, Record, Return, KeepManifest, NoFault
<1> SUFFICES Moves(h)
  BY <1>a, <1>c, HookOnly
<1>1. CASE EnsureSettled(h)
  BY <1>a, <1>1, CallLeaves DEF EnsureSettled, Stages
<1>2. CASE View(h)
  BY <1>a, <1>2, CallLeaves DEF View, Stages
<1>3. CASE ReadTurn(h)
  <2>1. CASE /\ Ready(Me(h), Id(h))
             /\ hooks' = [hooks EXCEPT ![h].stage = "file", ![h].base = turns[Me(h)].baseline]
    <3> DEFINE n == [hooks[h] EXCEPT !.stage = "file", !.base = turns[Me(h)].baseline]
    <3>1. turns[Me(h)].baseline \in Snapshot \cup {None}
      <4>1. turns[Me(h)] \in TurnState
        BY <1>b, <2>1, TurnType DEF Ready, Mine, IInv
      <4> QED
        BY <4>1 DEF TurnState
    <3>2. Goes(hooks[h], n) /\ n.stage = "file"
      BY <1>b, <3>1 DEF Goes, HookRun
    <3>3. hooks' = [hooks EXCEPT ![h] = n]
      BY <2>1
    <3> HIDE DEF n
    <3> QED
      BY <1>b, <3>2, <3>3, MovesOn
  <2>2. CASE \E mismatch \in BOOLEAN : Report(h, mismatch)
    BY <1>a, <2>2, CallLeaves
  <2> QED
    BY <1>3, <2>1, <2>2 DEF ReadTurn
<1>4. CASE ReadFile(h)
  BY <1>a, <1>4, CallLeaves DEF ReadFile, Stages
<1>5. CASE Prime(h)
  <2> DEFINE base == Physical(Me(h), Id(h))
             new == NewCandidates(h, base) \ Observed(Me(h), Id(h))
  <2>1. CASE base \in {None, Broken}
    BY <1>a, <1>5, <2>1, CallLeaves DEF Prime
  <2>2. CASE base \notin {None, Broken}
    <3>1. base \in Snapshot
      BY <1>b, <2>2, PhysicalType DEF IInv
    <3>2. CASE hooks' = [hooks EXCEPT ![h].stage = "record", ![h].base = base, ![h].tries = 0]
      <4> DEFINE n == [hooks[h] EXCEPT !.stage = "record", !.base = base, !.tries = 0]
      <4>a. 0 \in 0..1
        OBVIOUS
      <4>1. Goes(hooks[h], n) /\ n.stage = "record"
        BY ZenonT(30), <1>b, <3>1, <4>a DEF Goes, HookRun
      <4>2. hooks' = [hooks EXCEPT ![h] = n]
        BY <3>2
      <4> HIDE DEF n
      <4> QED
        BY <1>b, <4>1, <4>2, MovesOn
    <3>3. CASE hooks' = [hooks EXCEPT ![h].stage = "commit", ![h].base = base,
                          ![h].seen = current, ![h].gen = generation,
                          ![h].scan = Scanned(new), ![h].keys = new]
      <4> DEFINE n == [hooks[h] EXCEPT !.stage = "commit", !.base = base, !.seen = current,
                         !.gen = generation, !.scan = Scanned(new), !.keys = new]
      <4>1. current \in Snapshot /\ generation \in Nat /\ Scanned(new) \in Snapshot
        BY ScanType DEF IInv, BaselineTypeOK
      <4>2. new \in SUBSET Keys
        <5>1. hooks[h].keys \in SUBSET Keys
          BY <1>b DEF HookRun
        <5> QED
          BY <5>1 DEF NewCandidates
      <4>3. hooks' = [hooks EXCEPT ![h] = n]
        BY <3>3
      <4> HIDE DEF new
      <4>4. Goes(hooks[h], n) /\ n.stage = "commit" /\ n.base = base /\ n.scan = Scanned(new)
        BY <1>b, <3>1, <4>1, <4>2 DEF Goes, HookRun
      <4>5. n.base # None /\ n.scan # None
        BY <3>1, <4>1, <4>4, Marks
      <4> HIDE DEF n
      <4> QED
        BY <1>b, <4>3, <4>4, <4>5, MovesOn
    <3> QED
      BY <1>5, <2>2, <3>2, <3>3 DEF Prime
  <2> QED
    BY <2>1, <2>2
<1>6. CASE PrimeAgain(h)
  <2>1. CASE hooks' = [hooks EXCEPT ![h].stage = "prime", ![h].tries = 1]
    <3> DEFINE n == [hooks[h] EXCEPT !.stage = "prime", !.tries = 1]
    <3>1. Goes(hooks[h], n) /\ n.stage = "prime"
      BY <1>b, AgainGoes DEF Stages
    <3>2. hooks' = [hooks EXCEPT ![h] = n]
      BY <2>1
    <3> HIDE DEF n
    <3> QED
      BY <1>b, <3>1, <3>2, MovesOn
  <2> QED
    BY <1>a, <1>6, <2>1, CallLeaves DEF PrimeAgain
<1>7. CASE Record(h)
  <2>1. CASE /\ hooks' = [hooks EXCEPT ![h].base = turns[Me(h)].baseline]
             /\ Recorded(h) \notin {"stale", "degraded", "exhausted", "recorded"}
    <3> DEFINE n == [hooks[h] EXCEPT !.base = turns[Me(h)].baseline]
    <3>1. turns[Me(h)].baseline \in Snapshot \cup {None}
      <4>1. turns[Me(h)] \in TurnState
        BY <1>b, <2>1, TurnType DEF Recorded, Mine, IInv
      <4> QED
        BY <4>1 DEF TurnState
    <3>2. Goes(hooks[h], n) /\ n.stage = hooks[h].stage
      BY <1>b, <3>1, RetryGoes DEF Stages
    <3>3. hooks' = [hooks EXCEPT ![h] = n] /\ hooks[h].stage = "record"
      BY <1>7, <2>1 DEF Record, Locked, AtStage
    <3> HIDE DEF n
    <3> QED
      BY <1>b, <3>2, <3>3, MovesOn
  <2> QED
    BY <1>a, <1>7, <2>1, CallLeaves DEF Record, Stages
<1>8. CASE Return(h)
  <2> DEFINE n == [hooks[h] EXCEPT !.stage = "resume", !.post = TRUE]
  <2>1. Goes(hooks[h], n) /\ n.stage = "resume"
    BY <1>b, ReturnGoes DEF Stages
  <2>2. hooks' = [hooks EXCEPT ![h] = n]
    BY <1>8 DEF Return
  <2> HIDE DEF n
  <2> QED
    BY <1>b, <2>1, <2>2, MovesOn
<1> QED
  BY <1>1, <1>2, <1>3, <1>4, <1>5, <1>6, <1>7, <1>8

LEMMA FailsGood ==
  ASSUME IInv, NEW h \in Slots, HookFails(h) PROVE IInv' /\ Grows
<1>a. hooks[h] # None /\ hooks[h] \in HookRun
  BY HookType DEF HookFails, IInv
<1>1. CASE LeaveHook(h)
  BY <1>a, <1>1, LeaveMoves, HookOnly DEF HookFails, KeepManifest
<1>2. CASE ~hooks[h].prompt /\ Report(h, FALSE)
  BY <1>a, <1>2, ReportMoves, HookOnly DEF HookFails, KeepManifest, IInv
<1>3. CASE hooks[h].prompt /\ hooks' = [hooks EXCEPT ![h].stage = "tell", ![h].base = None]
  <2> DEFINE n == [hooks[h] EXCEPT !.stage = "tell", !.base = None]
  <2>1. Goes(hooks[h], n) /\ n.stage = "tell" /\ n.base = None
    BY <1>a, BaseGoes DEF Stages
  <2>2. hooks' = [hooks EXCEPT ![h] = n]
    BY <1>3
  <2> HIDE DEF n
  <2>3. Moves(h)
    BY <1>a, <1>3, <2>1, <2>2 DEF Moves, Goes, Staged
  <2> QED
    BY <1>a, <2>3, HookOnly DEF HookFails, KeepManifest
<1> QED
  BY <1>1, <1>2, <1>3 DEF HookFails

LEMMA HooksKeep ==
  ASSUME BaselineTypeOK, HooksInv, UNCHANGED hooks, pending' \in {pending, None},
         hurt \subseteq hurt',
         \A x \in Peers, t \in TurnIds :
           Steady(x, t) \/ (pending # None /\ pending.agent = x /\ pending.id = t)
  PROVE  HooksInv'
<1>1. TellsTrue'
  <2> SUFFICES ASSUME NEW g \in Slots, NEW x \in Peers, NEW t \in TurnIds,
                      hooks[g] # None, hooks[g].prompt, hooks[g].base # None,
                      Me(g) = x, Id(g) = t, Whole(x, t)'
               PROVE  Physical(x, t)' = hooks[g].base
    BY DEF TellsTrue, Me, Id
  <2>1. hooks[g].base \in Snapshot
    <3>1. hooks[g] \in HookRun
      BY HookType
    <3> QED
      BY <3>1 DEF HookRun
  <2>2. hooks[g].base # Broken
    BY <2>1, Marks
  <2>3. Physical(x, t) = hooks[g].base
    BY DEF HooksInv, TellsTrue, Whole
  <2>4. Steady(x, t)
    BY DEF HooksInv, Apart
  <2> QED
    BY <2>2, <2>3, <2>4 DEF Steady
<1> QED
  BY <1>1 DEF HooksInv, Apart, Me, Id

LEMMA HooksStay ==
  ASSUME BaselineTypeOK, HooksInv, UNCHANGED hooks, pending' \in {pending, None},
         hurt \subseteq hurt',
         \A x \in Peers, t \in TurnIds : Steady(x, t)
  PROVE  HooksInv'
<1>1. \A x \in Peers, t \in TurnIds :
        Steady(x, t) \/ (pending # None /\ pending.agent = x /\ pending.id = t)
  OBVIOUS
<1> QED
  BY <1>1, HooksKeep

LEMMA ClaimGood ==
  ASSUME IInv, NEW h \in Slots, ClaimLegacy(h) PROVE IInv' /\ Grows
<1>a. hooks[h] # None /\ hooks[h].stage \notin {"start", "save", "tell"} /\ UNCHANGED hooks
      /\ UNCHANGED <<worktree, current, generation, pending, turns, announced, hurt, bounds>>
  BY DEF ClaimLegacy, AtStage, Locked, KeepManifest
<1>b. PICK y \in Peers, u \in TurnIds : y = Me(h) /\ u = Id(h)
  BY <1>a, CallStep
<1>1. Unclaimed(y, u) /\ SaveFile(y, u, Physical(y, u))
  BY <1>b DEF ClaimLegacy, Claimable
<1>2. Physical(y, u) \in Snapshot
  BY <1>1, PhysicalType DEF IInv, Unclaimed, Physical, Baseline
<1>3. /\ \A x \in Peers, t \in TurnIds : Steady(x, t)
      /\ LegacyIsOnes'
  BY <1>a, <1>1, <1>2, SavedSteady, SavedFile, Marks DEF IInv
<1>4. BaselineTypeOK'
  <2>1. baselines' \in [BaselinePaths -> Baseline \cup {None, Broken}]
    BY <1>1, <1>2, SavedType DEF IInv
  <2> QED
    BY <1>a, <2>1 DEF IInv, BaselineTypeOK, BaselinePaths, turn_baseline_path
<1>5. HooksInv' /\ TurnsHold' /\ PendingFits' /\ Grows
  BY <1>a, <1>3, HooksStay, NoTurnWritten, PendingStays, AllGrow DEF IInv, Mine
<1> QED
  BY <1>3, <1>4, <1>5 DEF IInv

\* What an agent's own hook needs to write its turn, with the lock.
LEMMA TurnWritten ==
  ASSUME IInv, NEW y \in Peers, NEW n \in TurnState \cup {None}, turns' = [turns EXCEPT ![y] = n],
         n # None => Holds(y, turns[y])',
         announced \subseteq announced', hurt \subseteq hurt', pending = None, pending' = None,
         \A x \in Peers, t \in TurnIds : Steady(x, t)
  PROVE  /\ TurnsHold' /\ PendingFits'
         /\ turns' \in [Peers -> TurnState \cup {None}]
<1>1. turns' \in [Peers -> TurnState \cup {None}] /\ turns'[y] = n
      /\ \A x \in Peers \ {y} : turns'[x] = turns[x]
  BY DEF IInv, BaselineTypeOK
<1>2. TurnsHold'
  <2> DEFINE W == {y}
  <2>1. W \in SUBSET Peers /\ y \in W /\ \A x \in W : x = y
    OBVIOUS
  <2>2. \A x \in W : turns'[x] # None => Holds(x, turns[x])'
    BY <1>1
  <2>3. \A x \in Peers \ W : turns'[x] = turns[x]
    BY <1>1
  <2> HIDE DEF W
  <2> QED
    BY <2>1, <2>2, <2>3, TurnsStay DEF IInv
<1>3. PendingFits'
  BY DEF PendingFits
<1> QED
  BY <1>1, <1>2, <1>3

\* A step of a hook that has the lock, writes one turn and advances no file.
LEMMA WritesTurn ==
  ASSUME IInv, NEW h \in Slots, hooks[h] # None, Moves(h) \/ UNCHANGED hooks,
         NEW y \in Peers, NEW n \in TurnState, turns' = [turns EXCEPT ![y] = n],
         Holds(y, turns[y])', pending = None, UNCHANGED <<worktree, pending, hurt>>,
         announced \subseteq announced',
         announced' \subseteq Peers \X TurnIds \X {"entered", "recovered"} \X (Slots \cup {None}),
         current' \in Snapshot, generation' \in Nat,
         baselines' \in [BaselinePaths -> Baseline \cup {None, Broken}], LegacyIsOnes',
         \A x \in Peers, t \in TurnIds : Steady(x, t), Fault \/ NoFault
  PROVE  IInv' /\ Grows
<1>1. TurnsHold' /\ PendingFits' /\ turns' \in [Peers -> TurnState \cup {None}]
  BY TurnWritten
<1>2. HooksInv' /\ hooks' \in [Slots -> HookRun \cup {None}]
  <2>1. CASE Moves(h)
    BY <2>1, MovedHooks DEF IInv
  <2>2. CASE UNCHANGED hooks
    BY <2>2, HooksStay DEF IInv, BaselineTypeOK
  <2> QED
    BY <2>1, <2>2
<1>3. BaselineTypeOK'
  BY <1>1, <1>2, Budget DEF IInv, BaselineTypeOK, BaselinePaths, turn_baseline_path
<1> QED
  BY <1>1, <1>2, <1>3, AllGrow DEF IInv

LEMMA EnsurePendingGood ==
  ASSUME IInv, NEW h \in Slots, EnsurePending(h) PROVE IInv' /\ Grows
<1>a. hooks[h] # None /\ hooks[h].stage \notin {"start", "save", "tell"} /\ pending = None
  BY DEF EnsurePending, AtStage, Locked
<1>b. PICK y \in Peers, u \in TurnIds : y = Me(h) /\ u = Id(h)
  BY <1>a, CallStep
<1>c. UNCHANGED <<worktree, current, generation, pending, baselines, announced, hurt>>
      /\ (Fault \/ NoFault)
  BY DEF EnsurePending, KeepManifest
<1>1. Moves(h)
  BY <1>a, CallLeaves DEF EnsurePending, Stages
<1>2. CASE turns' = turns
  BY <1>a, <1>c, <1>1, <1>2, HookOnly
<1>3. CASE turns' = [turns EXCEPT ![y] = [Unstarted(u) EXCEPT !.fresh = TRUE]]
  <2> DEFINE n == [Unstarted(u) EXCEPT !.fresh = TRUE]
  <2>1. n \in TurnState /\ n.status = "missing" /\ n.revised = {} /\ n.baseline = None
        /\ n.recovered = None
    BY DEF Unstarted, TurnState
  <2>2. turns' = [turns EXCEPT ![y] = n]
    BY <1>3
  <2> HIDE DEF n
  <2>3. turns'[y] = n
    BY <2>2 DEF IInv, BaselineTypeOK
  <2>4. Holds(y, turns[y])'
    BY <2>1, <2>3 DEF Holds
  <2>5. (\A x \in Peers, t \in TurnIds : Steady(x, t)) /\ LegacyIsOnes'
    BY <1>c, FilesSame DEF IInv
  <2> QED
    BY <1>a, <1>c, <1>1, <2>1, <2>2, <2>4, <2>5, WritesTurn DEF IInv, BaselineTypeOK
<1> QED
  BY <1>b, <1>2, <1>3 DEF EnsurePending

LEMMA DegradedHolds ==
  ASSUME BaselineTypeOK, NEW y \in Peers, NEW turn \in TurnState,
         turns' = [turns EXCEPT ![y] = Degraded(turn)]
  PROVE  /\ Degraded(turn) \in TurnState /\ Degraded(turn).id = turn.id
         /\ Degraded(turn).revised = turn.revised /\ Degraded(turn).baseline = turn.baseline
         /\ Degraded(turn).recovered = turn.recovered /\ Degraded(turn).status = "degraded"
         /\ turns'[y] = Degraded(turn)
<1> DEFINE n == Degraded(turn)
<1>1. n \in TurnState /\ n.id = turn.id /\ n.revised = turn.revised /\ n.baseline = turn.baseline
      /\ n.recovered = turn.recovered /\ n.status = "degraded"
  BY DEF Degraded, TurnState
<1> HIDE DEF n
<1>2. turns'[y] = n
  BY DEF BaselineTypeOK, n
<1> QED
  BY <1>1, <1>2 DEF n

LEMMA DegradedHeld ==
  ASSUME BaselineTypeOK, NEW y \in Peers, turns[y] # None, Holds(y, turns[y]),
         turns' = [turns EXCEPT ![y] = Degraded(turns[y])],
         announced \subseteq announced', hurt \subseteq hurt',
         \A t \in TurnIds : Steady(y, t)
  PROVE  Holds(y, turns[y])' /\ Degraded(turns[y]) \in TurnState
<1> DEFINE n == Degraded(turns[y])
<1>1. n \in TurnState /\ n.id = turns[y].id /\ n.baseline = turns[y].baseline
      /\ n.recovered = turns[y].recovered /\ n.status = "degraded" /\ turns'[y] = n
  BY TurnType, DegradedHolds
<1>2. PICK u \in TurnIds : u = turns[y].id
  BY TurnType
<1> HIDE DEF n
<1>3. /\ Whole(y, turns[y].id) = Whole(y, u) /\ Physical(y, turns[y].id) = Physical(y, u)
      /\ Whole(y, turns[y].id)' = Whole(y, u)' /\ Physical(y, turns[y].id)' = Physical(y, u)'
  BY <1>1, <1>2 DEF Whole, Physical, File
<1>4. Whole(y, u)' => Whole(y, u)
  BY DEF Whole
<1>5. Steady(y, u)
  OBVIOUS
<1>6. turns'[y].baseline # None /\ Whole(y, u)' => Physical(y, u)' \notin {None, Broken}
  BY <1>1, <1>3, <1>4, <1>5 DEF Holds, Steady
<1>7. turns'[y].recovered # None =>
        <<y, turns'[y].id, "recovered", turns'[y].recovered>> \in announced'
  BY <1>1 DEF Holds
<1> QED
  BY <1>1, <1>3, <1>6, <1>7 DEF Holds, n

LEMMA EnsureDegradedGood ==
  ASSUME IInv, NEW h \in Slots, EnsureDegraded(h) PROVE IInv' /\ Grows
<1>a. hooks[h] # None /\ hooks[h].stage \notin {"start", "save", "tell"} /\ pending = None
  BY DEF EnsureDegraded, AtStage, Locked
<1>b. PICK y \in Peers, u \in TurnIds : y = Me(h) /\ u = Id(h)
  BY <1>a, CallStep
<1>c. UNCHANGED <<worktree, current, generation, pending, baselines, announced, hurt>>
      /\ (Fault \/ NoFault)
  BY DEF EnsureDegraded, KeepManifest
<1>d. (\A x \in Peers, t \in TurnIds : Steady(x, t)) /\ LegacyIsOnes'
  BY <1>c, FilesSame DEF IInv
<1>1. Moves(h)
  BY <1>a, CallLeaves DEF EnsureDegraded
<1>2. CASE turns' = turns
  BY <1>a, <1>c, <1>1, <1>2, HookOnly
<1>3. CASE turns' = [turns EXCEPT ![y] = Degraded(SettledTurn(turns[y], u))]
  <2> DEFINE turn == SettledTurn(turns[y], u)
  <2>1. CASE turns[y] = None
    <3>1. turn = Unstarted(u)
      BY <2>1 DEF SettledTurn
    <3>2. turn \in TurnState /\ turn.baseline = None /\ turn.recovered = None
      BY <3>1 DEF Unstarted, TurnState
    <3> HIDE DEF turn
    <3>3. turns' = [turns EXCEPT ![y] = Degraded(turn)]
      BY <1>3 DEF turn
    <3>4. Holds(y, turns[y])' /\ Degraded(turn) \in TurnState
      BY <3>2, <3>3, DegradedHolds DEF Holds, IInv
    <3> QED
      BY <1>a, <1>c, <1>d, <1>1, <3>3, <3>4, WritesTurn DEF IInv, BaselineTypeOK
  <2>2. CASE turns[y] # None
    <3>1. turns' = [turns EXCEPT ![y] = Degraded(turns[y])]
      BY <1>3, <2>2 DEF SettledTurn
    <3>2. Holds(y, turns[y])
      BY <2>2 DEF IInv, TurnsHold
    <3>3. Holds(y, turns[y])' /\ Degraded(turns[y]) \in TurnState
      BY <1>c, <1>d, <2>2, <3>1, <3>2, DegradedHeld DEF IInv
    <3> QED
      BY <1>a, <1>c, <1>d, <1>1, <3>1, <3>3, WritesTurn DEF IInv, BaselineTypeOK
  <2> QED
    BY <2>1, <2>2
<1> QED
  BY <1>b, <1>2, <1>3 DEF EnsureDegraded

\* The same where the turn stays as it is.
LEMMA WritesNoTurn ==
  ASSUME IInv, NEW h \in Slots, hooks[h] # None, Moves(h) \/ UNCHANGED hooks,
         pending = None, UNCHANGED <<worktree, pending, hurt, turns, announced>>,
         current' \in Snapshot, generation' \in Nat,
         baselines' \in [BaselinePaths -> Baseline \cup {None, Broken}], LegacyIsOnes',
         \A x \in Peers, t \in TurnIds : Steady(x, t), Fault \/ NoFault
  PROVE  IInv' /\ Grows
<1>1. TurnsHold' /\ PendingFits'
  BY NoTurnWritten DEF IInv, PendingFits
<1>2. HooksInv' /\ hooks' \in [Slots -> HookRun \cup {None}]
  <2>1. CASE Moves(h)
    BY <2>1, MovedHooks DEF IInv
  <2>2. CASE UNCHANGED hooks
    BY <2>2, HooksStay DEF IInv, BaselineTypeOK
  <2> QED
    BY <2>1, <2>2
<1>3. BaselineTypeOK'
  BY <1>2, Budget DEF IInv, BaselineTypeOK, BaselinePaths, turn_baseline_path
<1> QED
  BY <1>1, <1>2, <1>3, AllGrow DEF IInv

\* A bootstrap writes the baseline if there is none and takes the one there is.
LEMMA Initialized ==
  ASSUME IInv, NEW y \in Peers, NEW u \in TurnIds, Physical(y, u) # Broken, Initialize(y, u),
         UNCHANGED hurt
  PROVE  LET there == IF Physical(y, u) = None THEN current ELSE Physical(y, u)
         IN  /\ there \in Snapshot /\ Physical(y, u)' = there
             /\ LegacyIsOnes' /\ \A x \in Peers, t \in TurnIds : Steady(x, t)
             /\ baselines' \in [BaselinePaths -> Baseline \cup {None, Broken}]
<1>1. current \in Snapshot
  BY DEF IInv, BaselineTypeOK
<1>2. CASE Physical(y, u) = None
  <2>1. SaveFile(y, u, current)
    BY <1>2 DEF Initialize
  <2> QED
    BY <1>1, <1>2, <2>1, SavedFile, SavedSteady, SavedType DEF IInv
<1>3. CASE Physical(y, u) # None
  <2>1. UNCHANGED baselines /\ Physical(y, u) \in Snapshot
    BY <1>3, PhysicalType DEF Initialize, IInv
  <2> QED
    BY <1>3, <2>1, FilesSame DEF IInv, BaselineTypeOK
<1> QED
  BY <1>2, <1>3

LEMMA FinishedTurn ==
  ASSUME BaselineTypeOK, NEW y \in Peers, NEW u \in TurnIds, NEW h \in Slots,
         turns[y] # None => turns[y].id = u /\ turns[y].status = "missing",
         NEW base \in Snapshot
  PROVE  LET said == Recovered(turns[y], h)
             n == Finished(turns[y], u, base, said)
         IN  /\ said \in Slots \cup {None}
             /\ n \in TurnState /\ n.id = u /\ n.status = "ready"
             /\ n.baseline = base /\ n.recovered = said
<1> DEFINE said == Recovered(turns[y], h)
           turn == SettledTurn(turns[y], u)
<1>1. turn \in TurnState /\ turn.id = u
  BY TurnType DEF SettledTurn, Unstarted, TurnState
<1>2. said \in Slots \cup {None}
  <2>1. turns[y] # None => turns[y].recovered \in Slots \cup {None}
    BY TurnType DEF TurnState
  <2> QED
    BY <2>1 DEF Recovered, Evidence
<1> DEFINE n == [turn EXCEPT !.status = "ready", !.baseline = base, !.fresh = FALSE,
                             !.recovered = said]
<1> HIDE DEF said, turn
<1>3. n \in TurnState /\ n.id = u /\ n.status = "ready" /\ n.baseline = base /\ n.recovered = said
  BY <1>1, <1>2 DEF TurnState
<1>4. n = Finished(turns[y], u, base, said)
  BY DEF Finished, turn
<1> HIDE DEF n
<1> QED
  BY <1>2, <1>3, <1>4 DEF said

LEMMA EnsureReadyGood ==
  ASSUME IInv, NEW h \in Slots, EnsureReady(h) PROVE IInv' /\ Grows
<1>a. hooks[h] # None /\ hooks[h].stage \notin {"start", "save", "tell"} /\ pending = None
  BY DEF EnsureReady, AtStage, Locked
<1>b. PICK y \in Peers, u \in TurnIds : y = Me(h) /\ u = Id(h)
  BY <1>a, CallStep
<1>c. UNCHANGED <<worktree, current, generation, pending, hurt>> /\ (Fault \/ NoFault)
  BY DEF EnsureReady, KeepManifest
<1> DEFINE base == Physical(y, u)
           there == IF base = None THEN current ELSE base
           said == Recovered(turns[y], h)
           n == Finished(turns[y], u, there, said)
<1>d. Physical(y, u) # Broken /\ Initialize(y, u)
  BY <1>b DEF EnsureReady, Usable
<1>e. /\ there \in Snapshot /\ Physical(y, u)' = there
      /\ LegacyIsOnes' /\ \A x \in Peers, t \in TurnIds : Steady(x, t)
      /\ baselines' \in [BaselinePaths -> Baseline \cup {None, Broken}]
  BY <1>c, <1>d, Initialized
<1>f. turns[y] # None => turns[y].id = u /\ turns[y].status = "missing"
  BY <1>b DEF EnsureReady
<1>g. /\ said \in Slots \cup {None} /\ n \in TurnState /\ n.id = u /\ n.status = "ready"
      /\ n.baseline = there /\ n.recovered = said
  BY <1>e, <1>f, FinishedTurn DEF IInv
<1>h. current \in Snapshot /\ generation \in Nat
  BY DEF IInv, BaselineTypeOK
<1>1. Moves(h)
  BY <1>a, CallLeaves DEF EnsureReady, Stages
<1>2. CASE UNCHANGED <<turns, announced>>
  BY <1>a, <1>c, <1>e, <1>h, <1>1, <1>2, WritesNoTurn
<1>3. CASE /\ turns' = [turns EXCEPT ![y] = n]
           /\ announced' = IF said = None THEN announced
                           ELSE announced \cup {<<y, u, "recovered", said>>}
  <2> HIDE DEF n, said, there
  <2>1. turns'[y] = n
    BY <1>3 DEF IInv, BaselineTypeOK
  <2>2. announced \subseteq announced'
        /\ announced' \subseteq Peers \X TurnIds \X {"entered", "recovered"} \X (Slots \cup {None})
    BY <1>3, <1>g DEF IInv, BaselineTypeOK
  <2>3. there \notin {None, Broken}
    BY <1>e, Marks
  <2>4. Physical(y, turns[y].id)' = there
    BY <1>e, <1>g, <2>1 DEF Physical, File
  <2>5. Holds(y, turns[y])'
    BY <1>3, <1>g, <2>1, <2>3, <2>4 DEF Holds
  <2> QED
    BY <1>a, <1>c, <1>e, <1>g, <1>h, <1>1, <1>3, <2>2, <2>5, WritesTurn
<1> QED
  BY <1>b, <1>2, <1>3 DEF EnsureReady

LEMMA RevisedHeld ==
  ASSUME BaselineTypeOK, NEW y \in Peers, turns[y] # None, Holds(y, turns[y]),
         turns[y].status # "missing", NEW revised \in SUBSET Keys,
         turns' = [turns EXCEPT ![y] = [turns[y] EXCEPT !.revised = revised]],
         UNCHANGED <<announced, pending, hurt>>, \A t \in TurnIds : Steady(y, t)
  PROVE  Holds(y, turns[y])' /\ [turns[y] EXCEPT !.revised = revised] \in TurnState
<1> DEFINE n == [turns[y] EXCEPT !.revised = revised]
<1>1. /\ n \in TurnState /\ n.id = turns[y].id /\ n.baseline = turns[y].baseline
      /\ n.recovered = turns[y].recovered /\ n.status = turns[y].status
  BY TurnType DEF TurnState
<1>2. PICK u \in TurnIds : u = turns[y].id
  BY TurnType
<1> HIDE DEF n
<1>3. turns'[y] = n
  BY DEF BaselineTypeOK, n
<1>4. /\ Whole(y, turns[y].id) = Whole(y, u) /\ Physical(y, turns[y].id) = Physical(y, u)
      /\ Whole(y, turns[y].id)' = Whole(y, u)' /\ Physical(y, turns[y].id)' = Physical(y, u)'
  BY <1>1, <1>2, <1>3 DEF Whole, Physical, File
<1>5. Whole(y, u)' = Whole(y, u) /\ Steady(y, u)
  BY DEF Whole
<1> QED
  BY <1>1, <1>2, <1>3, <1>4, <1>5 DEF Holds, Steady, Between, n

\* A commit holds the lock, and a turn that is not bound gets nothing.
LEMMA CommitGood ==
  ASSUME IInv, NEW h \in Slots, hooks[h] # None, Moves(h), pending = None, NEW snap \in Snapshot,
         CommitScan(h, snap), snap = current \/ ~Mine(Me(h), Id(h)) \/ Bound(Me(h), Id(h)), NoFault
  PROVE  IInv' /\ Grows
<1>a. PICK y \in Peers, u \in TurnIds : y = Me(h) /\ u = Id(h)
  BY HookType DEF IInv
<1>b. UNCHANGED <<worktree, pending, baselines, announced, hurt>>
      /\ current' \in Snapshot /\ generation' \in Nat
  BY DEF CommitScan, IInv, BaselineTypeOK
<1>c. (\A x \in Peers, t \in TurnIds : Steady(x, t)) /\ LegacyIsOnes'
      /\ baselines' \in [BaselinePaths -> Baseline \cup {None, Broken}]
  BY <1>b, FilesSame DEF IInv, BaselineTypeOK
<1>1. CASE UNCHANGED turns
  BY <1>b, <1>c, <1>1, WritesNoTurn
<1>2. CASE turns' # turns
  <2> DEFINE turn == IF turns[y] = None THEN [Unstarted(u) EXCEPT !.status = "ready"] ELSE turns[y]
  <2>1. PICK revised \in SUBSET Keys :
          /\ turns' = [turns EXCEPT ![y] = [turn EXCEPT !.revised = revised]]
          /\ snap # current /\ turn.id = u
    <3> DEFINE changed == Delta(current, snap)
               same == IF turn.baseline = None THEN {} ELSE changed \ Delta(turn.baseline, snap)
               new == (turn.revised \cup changed) \ same
    <3>1. turns' = [turns EXCEPT ![y] = [turn EXCEPT !.revised = new]] /\ changed # {} /\ turn.id = u
      BY <1>a, <1>2 DEF CommitScan, Revise
    <3>2. turn.revised \in SUBSET Keys
      BY TurnType DEF Unstarted, TurnState, IInv
    <3>3. changed \in SUBSET Keys /\ snap # current
      BY <3>1 DEF Delta
    <3> HIDE DEF turn
    <3>4. new \in SUBSET Keys
      BY <3>2, <3>3
    <3> QED
      BY <3>1, <3>3, <3>4
  <2>2. CASE turns[y] = None
    <3> DEFINE n == [turn EXCEPT !.revised = revised]
    <3>1. n \in TurnState /\ n.baseline = None /\ n.recovered = None /\ n.status = "ready"
      BY <2>2 DEF Unstarted, TurnState
    <3>2. turns' = [turns EXCEPT ![y] = n]
      BY <2>1
    <3> HIDE DEF n
    <3>3. turns'[y] = n
      BY <3>2 DEF IInv, BaselineTypeOK
    <3>4. Holds(y, turns[y])'
      BY <3>1, <3>3 DEF Holds
    <3> QED
      BY <1>b, <1>c, <3>1, <3>2, <3>4, WritesTurn DEF IInv, BaselineTypeOK
  <2>3. CASE turns[y] # None
    <3>1. turns' = [turns EXCEPT ![y] = [turns[y] EXCEPT !.revised = revised]]
      BY <2>1, <2>3
    <3>2. turns[y].status # "missing"
      BY <1>a, <2>1, <2>3 DEF Bound, Ready, Mine
    <3>3. Holds(y, turns[y])
      BY <2>3 DEF IInv, TurnsHold
    <3>4. Holds(y, turns[y])' /\ [turns[y] EXCEPT !.revised = revised] \in TurnState
      BY <1>b, <1>c, <2>3, <3>1, <3>2, <3>3, RevisedHeld DEF IInv
    <3> QED
      BY <1>b, <1>c, <3>1, <3>4, WritesTurn DEF IInv, BaselineTypeOK
  <2> QED
    BY <2>2, <2>3
<1> QED
  BY <1>1, <1>2

LEMMA StartTurnGood ==
  ASSUME IInv, NEW h \in Slots, StartTurn(h) PROVE IInv' /\ Grows
<1>a. hooks[h] # None /\ hooks[h].stage = "start" /\ pending = None /\ NoFault
  BY DEF StartTurn, AtStage, Locked
<1>b. hooks[h] \in HookRun /\ Staged(hooks[h])
  BY <1>a, HookType DEF IInv, HooksInv
<1>1. CASE CommitScan(h, Scanned({}))
           /\ hooks' = [hooks EXCEPT ![h].stage = "save", ![h].seen = Scanned({}),
                                     ![h].gen = generation']
           /\ (Scanned({}) = current \/ ~Mine(Me(h), Id(h)) \/ Bound(Me(h), Id(h)))
  <2> DEFINE n == [hooks[h] EXCEPT !.stage = "save", !.seen = Scanned({}), !.gen = generation']
  <2>1. Scanned({}) \in Snapshot /\ generation' \in Nat
    BY <1>1, ScanType DEF CommitScan, IInv, BaselineTypeOK
  <2>2. Goes(hooks[h], n) /\ n.stage = "save" /\ n.base = hooks[h].base
    BY <1>b, <2>1 DEF Goes, HookRun
  <2>3. hooks' = [hooks EXCEPT ![h] = n]
    BY <1>1
  <2> HIDE DEF n
  <2>4. Moves(h)
    BY <1>a, <1>b, <2>2, <2>3 DEF Moves, Goes, Staged
  <2> QED
    BY <1>a, <1>1, <2>1, <2>4, CommitGood
<1>2. CASE UNCHANGED <<worktree, current, generation, pending, baselines, turns, announced, hurt>>
           /\ IF hooks[h].prompt THEN To(h, "tell") ELSE Report(h, FALSE)
  BY <1>a, <1>2, ReportMoves, ToMoves, HookOnly DEF IInv, Stages
<1> QED
  BY <1>1, <1>2 DEF StartTurn, KeepManifest

LEMMA ObserveGood ==
  ASSUME IInv, NEW h \in Slots, Observe(h) PROVE IInv' /\ Grows
<1>a. hooks[h] # None /\ hooks[h].stage \notin {"start", "save", "tell"} /\ pending = None /\ NoFault
  BY DEF Observe, AtStage, Locked
<1>1. Moves(h)
  BY <1>a, CallLeaves DEF Observe
<1>2. CASE Bound(Me(h), Id(h)) /\ CommitScan(h, Scanned(hooks[h].keys))
  BY <1>a, <1>1, <1>2, ScanType, CommitGood DEF IInv
<1>3. CASE KeepManifest /\ UNCHANGED <<baselines, turns, announced>>
  BY <1>a, <1>1, <1>3, HookOnly DEF KeepManifest
<1> QED
  BY <1>2, <1>3 DEF Observe

LEMMA SaveBaselineGood ==
  ASSUME IInv, NEW h \in Slots, SaveBaseline(h) PROVE IInv' /\ Grows
<1>a. hooks[h] # None /\ hooks[h].stage = "save" /\ pending = None
  BY DEF SaveBaseline, AtStage, Locked
<1>b. hooks[h] \in HookRun /\ Staged(hooks[h])
  BY <1>a, HookType DEF IInv, HooksInv
<1>c. PICK y \in Peers, u \in TurnIds : y = Me(h) /\ u = Id(h)
  BY <1>a, HookType DEF IInv
<1>d. UNCHANGED <<worktree, current, generation, pending, turns, announced, hurt, bounds>>
  BY DEF SaveBaseline, KeepManifest
<1>1. CASE UNCHANGED baselines /\ IF hooks[h].prompt THEN To(h, "tell") ELSE Report(h, FALSE)
  <2>1. Moves(h)
    BY <1>a, <1>1, ReportMoves, ToMoves DEF IInv, Stages
  <2> QED
    BY <1>a, <1>d, <1>1, <2>1, HookOnly DEF NoFault
<1>2. ASSUME NEW base \in Snapshot, Adopt(h, base), Initialize(y, u),
             base = IF Physical(y, u) = None THEN current ELSE Physical(y, u),
             Physical(y, u) # Broken
      PROVE  IInv' /\ Grows
  <2>1. /\ Physical(y, u)' = base /\ LegacyIsOnes' /\ \A x \in Peers, t \in TurnIds : Steady(x, t)
        /\ baselines' \in [BaselinePaths -> Baseline \cup {None, Broken}]
    BY <1>d, <1>2, Initialized
  <2> DEFINE n == [hooks[h] EXCEPT !.stage = IF hooks[h].prompt THEN "tell" ELSE "ensure",
                                   !.base = base]
  <2>2. Goes(hooks[h], n) /\ n.stage = (IF hooks[h].prompt THEN "tell" ELSE "ensure") /\ n.base = base
    BY <1>b DEF Goes, HookRun
  <2>3. hooks' = [hooks EXCEPT ![h] = n]
    BY <1>2 DEF Adopt
  <2> HIDE DEF n
  <2>4. n \in HookRun /\ Staged(n)
    BY <2>2 DEF Goes, Staged
  <2>5. HooksInv' /\ hooks' \in [Slots -> HookRun \cup {None}]
    BY <1>a, <1>c, <1>d, <2>1, <2>2, <2>3, <2>4, HookMoves DEF IInv
  <2>6. BaselineTypeOK'
    BY <1>d, <2>1, <2>5 DEF IInv, BaselineTypeOK, BaselinePaths, turn_baseline_path
  <2>7. TurnsHold' /\ PendingFits' /\ Grows
    BY <1>a, <1>d, <2>1, NoTurnWritten, AllGrow DEF IInv, PendingFits
  <2> QED
    BY <2>1, <2>5, <2>6, <2>7 DEF IInv
<1>3. CASE Physical(y, u) = None /\ SaveFile(y, u, current) /\ Adopt(h, current)
  BY <1>2, <1>3, Marks DEF Initialize, IInv, BaselineTypeOK
<1>4. CASE Physical(y, u) # None /\ Usable(y, u) /\ Adopt(h, Physical(y, u)) /\ UNCHANGED baselines
  BY <1>2, <1>4, PhysicalType DEF Initialize, IInv, Usable
<1> QED
  BY <1>c, <1>1, <1>3, <1>4 DEF SaveBaseline

\* The prompt's turn begins with what is in the file; a transition that is
\* pending is not of it.
LEMMA TellGood ==
  ASSUME IInv, NEW h \in Slots, Tell(h) PROVE IInv' /\ Grows
<1>a. hooks[h] # None /\ hooks[h].prompt /\ hooks[h] \in HookRun
      /\ UNCHANGED <<worktree, current, generation, pending, baselines, hurt>> /\ (Fault \/ NoFault)
  BY HookType DEF Tell, AtStage, KeepManifest, IInv, HooksInv, Staged
<1>b. PICK y \in Peers, u \in TurnIds : y = Me(h) /\ u = Id(h)
  BY <1>a, HookType DEF IInv
<1>c. Moves(h)
  BY LeaveMoves DEF Tell
<1>d. (\A x \in Peers, t \in TurnIds : Steady(x, t)) /\ LegacyIsOnes'
  BY <1>a, FilesSame DEF IInv
<1>1. CASE UNCHANGED <<turns, announced>>
  BY <1>a, <1>c, <1>1, HookOnly
<1> DEFINE base == hooks[h].base
           n == [Unstarted(u) EXCEPT !.baseline = base,
                   !.status = IF Enters(base) THEN "missing" ELSE "ready"]
<1>2. CASE /\ turns' = [turns EXCEPT ![y] = n]
           /\ announced \subseteq announced'
           /\ announced' \subseteq Peers \X TurnIds \X {"entered", "recovered"} \X (Slots \cup {None})
  <2>1. base \in Snapshot \cup {None}
    BY <1>a DEF HookRun
  <2>2. /\ n \in TurnState /\ n.id = u /\ n.recovered = None /\ n.revised = {} /\ n.baseline = base
        /\ n.status = "missing" => base = None
    BY <2>1 DEF Unstarted, TurnState, Enters
  <2> HIDE DEF n
  <2>3. turns' \in [Peers -> TurnState \cup {None}] /\ turns'[y] = n
        /\ \A x \in Peers \ {y} : turns'[x] = turns[x]
    BY <1>2, <2>2 DEF IInv, BaselineTypeOK
  <2>4. Holds(y, turns[y])'
    <3>1. base # None => base \notin {None, Broken}
      BY <2>1, Marks
    <3>2. base # None /\ Whole(y, u) => Physical(y, u) = base
      BY <1>a, <1>b DEF IInv, HooksInv, TellsTrue
    <3>3. /\ Physical(y, turns[y].id)' = Physical(y, u)
          /\ Whole(y, turns[y].id)' = Whole(y, u)
      BY <1>a, <2>2, <2>3 DEF Physical, File, Whole
    <3> QED
      BY <2>2, <2>3, <3>1, <3>2, <3>3 DEF Holds
  <2>5. TurnsHold'
    <3> DEFINE W == {y}
    <3>1. W \in SUBSET Peers /\ \A x \in W : x = y
      OBVIOUS
    <3>2. \A x \in Peers \ W : turns'[x] = turns[x]
      BY <2>3
    <3> HIDE DEF W
    <3> QED
      BY <1>a, <1>2, <1>d, <2>4, <3>1, <3>2, TurnsStay DEF IInv
  <2>6. PendingFits'
    <3>1. pending # None => <<pending.agent, pending.id>> # <<y, u>>
      BY <1>a, <1>b DEF IInv, HooksInv, Apart
    <3>2. \A x \in Peers, t \in TurnIds :
            pending # None /\ pending.agent = x /\ pending.id = t /\ Mine(x, t)' =>
              Mine(x, t) /\ turns'[x] = turns[x]
      BY <2>2, <2>3, <3>1 DEF Mine
    <3> QED
      BY <1>a, <1>d, <3>2, PendingStays DEF IInv
  <2>7. HooksInv' /\ hooks' \in [Slots -> HookRun \cup {None}]
    BY <1>a, <1>c, <1>d, MovedHooks DEF IInv
  <2>8. BaselineTypeOK'
    BY <1>a, <1>2, <2>3, <2>7, Budget DEF IInv, BaselineTypeOK, BaselinePaths, turn_baseline_path
  <2> QED
    BY <1>a, <1>d, <2>5, <2>6, <2>7, <2>8, AllGrow DEF IInv
<1>3. ASSUME announced' = announced \/ announced' = announced \cup {<<y, u, "entered", None>>}
      PROVE  /\ announced \subseteq announced'
             /\ announced' \subseteq Peers \X TurnIds \X {"entered", "recovered"} \X (Slots \cup {None})
  BY <1>3 DEF IInv, BaselineTypeOK
<1> QED
  BY <1>b, <1>1, <1>2, <1>3 DEF Tell

\* A mismatch makes the turn degraded; what is pending may be of it.
LEMMA StatusGood ==
  ASSUME IInv, NEW h \in Slots, Status(h) PROVE IInv' /\ Grows
<1>a. hooks[h] # None
      /\ UNCHANGED <<worktree, current, generation, pending, baselines, announced, hurt>>
      /\ (Fault \/ NoFault)
  BY DEF Status, AtStage, KeepManifest
<1>b. PICK y \in Peers, u \in TurnIds : y = Me(h) /\ u = Id(h)
  BY <1>a, HookType DEF IInv
<1>c. Moves(h)
  BY LeaveMoves DEF Status
<1>d. (\A x \in Peers, t \in TurnIds : Steady(x, t)) /\ LegacyIsOnes'
  BY <1>a, FilesSame DEF IInv
<1>1. CASE UNCHANGED turns
  BY <1>a, <1>c, <1>1, HookOnly
<1>2. CASE Mine(y, u) /\ turns' = [turns EXCEPT ![y] = Degraded(turns[y])]
  <2>1. turns[y] # None /\ Holds(y, turns[y])
    BY <1>2 DEF IInv, TurnsHold, Mine
  <2>2. Holds(y, turns[y])' /\ Degraded(turns[y]) \in TurnState
    BY <1>a, <1>d, <1>2, <2>1, DegradedHeld DEF IInv
  <2>3. /\ Degraded(turns[y]).id = turns[y].id /\ Degraded(turns[y]).status = "degraded"
        /\ Degraded(turns[y]).revised = turns[y].revised
    BY <1>2, <2>1, TurnType, DegradedHolds DEF IInv
  <2> DEFINE n == Degraded(turns[y])
  <2>4. turns' = [turns EXCEPT ![y] = n] /\ n \in TurnState
    BY <1>2, <2>2
  <2>5. n.id = turns[y].id /\ n.status = "degraded" /\ n.revised = turns[y].revised
    BY <2>3
  <2> HIDE DEF n
  <2>6. turns' \in [Peers -> TurnState \cup {None}] /\ turns'[y] = n
        /\ \A x \in Peers \ {y} : turns'[x] = turns[x]
    BY <2>4 DEF IInv, BaselineTypeOK
  <2>7. TurnsHold'
    <3> DEFINE W == {y}
    <3>1. W \in SUBSET Peers /\ \A x \in W : x = y
      OBVIOUS
    <3>2. \A x \in Peers \ W : turns'[x] = turns[x]
      BY <2>6
    <3> HIDE DEF W
    <3> QED
      BY <1>a, <1>d, <2>2, <3>1, <3>2, TurnsStay DEF IInv
  <2>8. PendingFits'
    <3>1. \A x \in Peers, t \in TurnIds :
            Mine(x, t)' => /\ Mine(x, t) /\ turns'[x].revised = turns[x].revised
                           /\ turns'[x] = turns[x] \/ turns'[x].status = "degraded"
      BY <1>2, <2>1, <2>5, <2>6 DEF Mine
    <3> QED
      BY <1>a, <1>d, <3>1, PendingStays DEF IInv
  <2>9. HooksInv' /\ hooks' \in [Slots -> HookRun \cup {None}]
    BY <1>a, <1>c, <1>d, MovedHooks DEF IInv
  <2>10. BaselineTypeOK'
    BY <1>a, <2>6, <2>9, Budget DEF IInv, BaselineTypeOK, BaselinePaths, turn_baseline_path
  <2> QED
    BY <1>a, <1>d, <2>7, <2>8, <2>9, <2>10, AllGrow DEF IInv
<1> QED
  BY <1>b, <1>1, <1>2 DEF Status

\* Programs write into the work tree and nothing else.
LEMMA EditGood ==
  ASSUME IInv, NEW k \in Keys, NEW content \in Contents \cup {None}, Edit(k, content)
  PROVE  IInv' /\ Grows
<1>a. UNCHANGED <<current, generation, pending, baselines, turns, announced, hooks, hurt>>
  BY DEF Edit
<1>1. (\A x \in Peers, t \in TurnIds : Steady(x, t)) /\ LegacyIsOnes'
  BY <1>a, FilesSame DEF IInv
<1>2. worktree' \in Snapshot
  BY DEF Edit, Snapshot, IInv, BaselineTypeOK
<1>3. bounds' \in [begun : 0..MaxBegun, writes : 0..MaxEdits, faults : 0..MaxHarm]
  BY BaselineAssumption DEF Edit, IInv, BaselineTypeOK
<1>4. BaselineTypeOK'
  BY <1>a, <1>2, <1>3 DEF IInv, BaselineTypeOK, BaselinePaths, turn_baseline_path
<1>5. HooksInv' /\ TurnsHold' /\ PendingFits' /\ Grows
  BY <1>a, <1>1, HooksStay, NoTurnWritten, PendingStays, AllGrow DEF IInv, Mine
<1> QED
  BY <1>1, <1>4, <1>5 DEF IInv

\* A file that is damaged is none of which anything is claimed.
LEMMA DamageGood ==
  ASSUME IInv, NEW path \in BaselinePaths, NEW left \in {None, Broken}, DamageFile(path, left)
  PROVE  IInv' /\ Grows
<1>a. UNCHANGED <<worktree, current, generation, pending, turns, announced, hooks>>
      /\ hurt' = hurt \cup {path} /\ Fault
  BY DEF DamageFile
<1>1. /\ baselines' \in [BaselinePaths -> Baseline \cup {None, Broken}] /\ baselines'[path] \in {None, Broken}
      /\ \A p \in BaselinePaths \ {path} : baselines'[p] = baselines[p]
  BY DEF DamageFile, IInv, BaselineTypeOK
<1>2. ASSUME NEW x \in Peers, NEW t \in TurnIds
      PROVE  /\ Steady(x, t)
             /\ File(x, t)' = File(x, t) \/ File(x, t)' \in {None, Broken}
  <2>1. turn_baseline_path(x, t) \in BaselinePaths
    BY PathType
  <2>2. CASE turn_baseline_path(x, t) = path
    BY <1>a, <1>1, <2>2 DEF Steady, Whole, File
  <2>3. CASE turn_baseline_path(x, t) # path
    <3>1. File(x, t)' = File(x, t)
      BY <1>1, <2>1, <2>3 DEF File
    <3> QED
      BY <3>1 DEF Steady, Physical, File
  <2> QED
    BY <2>2, <2>3
<1>3. LegacyIsOnes'
  BY <1>2 DEF IInv, LegacyIsOnes, Unclaimed, File
<1>4. BaselineTypeOK'
  BY <1>a, <1>1, Budget DEF IInv, BaselineTypeOK, BaselinePaths, turn_baseline_path
<1>5. HooksInv' /\ TurnsHold' /\ PendingFits' /\ Grows
  BY <1>a, <1>2, HooksStay, NoTurnWritten, PendingStays, AllGrow DEF IInv, Mine
<1> QED
  BY <1>3, <1>4, <1>5 DEF IInv

-----------------------------------------------------------------------------
(* The steps that lead a baseline on.                                      *)

LEMMA OtherFiles ==
  ASSUME IInv, NEW y \in Peers, NEW u \in TurnIds, NEW snap \in Snapshot,
         SaveFile(y, u, snap), Physical(y, u) # Broken, UNCHANGED hurt
  PROVE  /\ Physical(y, u)' = snap /\ LegacyIsOnes'
         /\ baselines' \in [BaselinePaths -> Baseline \cup {None, Broken}]
         /\ \A x \in Peers, t \in TurnIds : <<x, t>> # <<y, u>> => Steady(x, t)
<1>1. /\ LegacyIsOnes' /\ Physical(y, u)' = snap
      /\ \A x \in Peers, t \in TurnIds :
           <<x, t>> # <<y, u>> => \/ Physical(x, t)' = Physical(x, t)
                                  \/ Physical(x, t) = None /\ Physical(x, t)' = Broken
  BY SavedFile DEF IInv
<1> QED
  BY <1>1, SavedType DEF IInv, Steady

\* What fits is a merge of what the file holds with paths nobody answers for.
LEMMA FittingMerge ==
  ASSUME IInv, NEW h \in Slots, Locked(h, "commit"), StillFits(h),
         NEW y \in Peers, NEW u \in TurnIds, y = Me(h), u = Id(h)
  PROVE  LET base == hooks[h].base
             merged == Merge(base, hooks[h].scan, hooks[h].keys)
         IN  /\ hooks[h] \in HookRun /\ ~hooks[h].prompt /\ pending = None
             /\ base \in Snapshot /\ hooks[h].scan \in Snapshot /\ merged \in Snapshot
             /\ Physical(y, u) = base /\ turns[y].baseline = base
             /\ turns[y] # None /\ turns[y].id = u /\ turns[y].status = "ready"
             /\ \A k \in Keys : base[k] # None => merged[k] = base[k]
             /\ \A k \in Keys : base[k] = None /\ merged[k] # None => k \notin turns[y].revised
<1> DEFINE base == hooks[h].base
           merged == Merge(base, hooks[h].scan, hooks[h].keys)
<1>1. hooks[h] # None /\ hooks[h].stage = "commit" /\ pending = None
  BY DEF Locked, AtStage
<1>2. hooks[h] \in HookRun /\ ~hooks[h].prompt
  BY <1>1, CallStep
<1>3. base \in Snapshot /\ hooks[h].scan \in Snapshot
  <2>1. base \in Snapshot \cup {None} /\ hooks[h].scan \in Snapshot \cup {None}
    BY <1>2 DEF HookRun
  <2> QED
    BY <1>1, <2>1 DEF IInv, HooksInv, Staged
<1>4. /\ turns[y] # None /\ turns[y].id = u /\ turns[y].status = "ready"
      /\ turns[y].baseline = base /\ Physical(y, u) = base
      /\ hooks[h].keys \cap turns[y].revised = {}
  BY DEF StillFits, Bound, Ready, Mine, Observed
<1>5. /\ merged \in Snapshot
      /\ \A k \in Keys : base[k] # None => merged[k] = base[k]
      /\ \A k \in Keys : merged[k] # None /\ base[k] = None => k \in hooks[h].keys
  BY <1>3, MergeType
<1> HIDE DEF merged, base
<1>6. \A k \in Keys : base[k] = None /\ merged[k] # None => k \notin turns[y].revised
  BY <1>4, <1>5
<1> QED
  BY <1>1, <1>2, <1>3, <1>4, <1>5, <1>6 DEF merged, base

\* A baseline that is led on hides nothing.
LEMMA LedOnGrows ==
  ASSUME IInv, hurt \subseteq hurt', NEW y \in Peers, NEW u \in TurnIds,
         NEW base \in Snapshot, NEW merged \in Snapshot,
         Physical(y, u) = base, Physical(y, u)' \in {base, merged},
         \A k \in Keys : base[k] # None => merged[k] = base[k],
         Mine(y, u) => \A k \in Keys : base[k] = None /\ merged[k] # None => k \notin turns[y].revised,
         \A x \in Peers, t \in TurnIds : <<x, t>> # <<y, u>> => Steady(x, t)
  PROVE  Grows
<1> SUFFICES ASSUME NEW x \in Peers, NEW t \in TurnIds, Mine(x, t) PROVE GrowsAt(x, t)
  BY DEF Grows
<1>1. CASE <<x, t>> # <<y, u>>
  BY <1>1, SteadyGrows DEF IInv
<1>2. CASE x = y /\ t = u
  <2>1. base \notin {None, Broken} /\ merged \notin {None, Broken}
    BY Marks
  <2> QED
    BY <1>2, <2>1 DEF GrowsAt, Names
<1> QED
  BY <1>1, <1>2

LEMMA AdvanceGood ==
  ASSUME IInv, NEW h \in Slots, Advance(h) PROVE IInv' /\ Grows
<1>a. Locked(h, "commit") /\ StillFits(h) /\ UNCHANGED <<worktree, announced, hurt>>
      /\ hooks[h] # None
  BY DEF Advance, Locked, AtStage
<1>b. PICK y \in Peers, u \in TurnIds : y = Me(h) /\ u = Id(h)
  BY <1>a, HookType DEF IInv
<1> DEFINE base == hooks[h].base
           merged == Merge(base, hooks[h].scan, hooks[h].keys)
           target == IF hooks[h].scan = current THEN generation ELSE generation + 1
<1>c. /\ hooks[h] \in HookRun /\ ~hooks[h].prompt /\ pending = None
      /\ base \in Snapshot /\ hooks[h].scan \in Snapshot /\ merged \in Snapshot
      /\ Physical(y, u) = base /\ turns[y].baseline = base
      /\ turns[y] # None /\ turns[y].id = u /\ turns[y].status = "ready"
      /\ \A k \in Keys : base[k] # None => merged[k] = base[k]
      /\ \A k \in Keys : base[k] = None /\ merged[k] # None => k \notin turns[y].revised
  BY <1>a, <1>b, FittingMerge
<1>d. base \notin {None, Broken} /\ merged \notin {None, Broken} /\ target \in Nat
  BY <1>c, Marks DEF IInv, BaselineTypeOK
<1> DEFINE Led == Physical(y, u) = base /\ SaveFile(y, u, merged)
<1>e. Led => /\ Physical(y, u)' = merged /\ LegacyIsOnes'
             /\ baselines' \in [BaselinePaths -> Baseline \cup {None, Broken}]
             /\ \A x \in Peers, t \in TurnIds : <<x, t>> # <<y, u>> => Steady(x, t)
  BY <1>a, <1>c, <1>d, OtherFiles
<1>1. CASE /\ current' = hooks[h].scan /\ generation' = target /\ Led
           /\ turns' = [turns EXCEPT ![y].baseline = merged]
           /\ hooks' = [hooks EXCEPT ![h].stage = "record", ![h].base = merged, ![h].tries = 0]
           /\ NoFault /\ UNCHANGED pending
  <2> DEFINE n == [hooks[h] EXCEPT !.stage = "record", !.base = merged, !.tries = 0]
             m == [turns[y] EXCEPT !.baseline = merged]
  <2>0. merged \in Snapshot \cup {None}
    BY <1>c
  <2>1. Goes(hooks[h], n) /\ n.stage = "record"
    <3>1. hooks[h] \in HookRun /\ 0 \in 0..1
      BY <1>c
    <3> HIDE DEF merged
    <3> QED
      BY ZenonT(40), <2>0, <3>1 DEF Goes, HookRun
  <2>2. hooks' = [hooks EXCEPT ![h] = n]
    BY <1>1
  <2>3. turns' = [turns EXCEPT ![y] = m]
    BY <1>1
  <2>4. /\ m \in TurnState /\ m.id = u /\ m.baseline = merged /\ m.status = "ready"
        /\ m.recovered = turns[y].recovered
    <3>1. turns[y] \in TurnState
      BY <1>c, TurnType DEF IInv
    <3> QED
      BY <1>c, <3>1 DEF TurnState
  <2> HIDE DEF n, m, merged, base, target
  <2>5. HooksInv' /\ hooks' \in [Slots -> HookRun \cup {None}]
    <3>1. n \in HookRun /\ Staged(n) /\ ~n.prompt
      BY <1>c, <2>1 DEF Goes, Staged
    <3>2. \A x \in Peers, t \in TurnIds : Steady(x, t) \/ (~hooks[h].prompt /\ Me(h) = x /\ Id(h) = t)
      BY <1>b, <1>c, <1>e, <1>1
    <3> QED
      BY <1>a, <1>1, <2>1, <2>2, <3>1, <3>2, HookLeads DEF IInv
  <2>6. turns' \in [Peers -> TurnState \cup {None}] /\ turns'[y] = m
        /\ \A x \in Peers \ {y} : turns'[x] = turns[x]
    BY <2>3, <2>4 DEF IInv, BaselineTypeOK
  <2>7. Holds(y, turns[y])'
    <3>1. Holds(y, turns[y])
      BY <1>c DEF IInv, TurnsHold
    <3>2. Physical(y, turns[y].id)' = merged
      BY <1>e, <1>1, <2>4, <2>6 DEF Physical, File
    <3> QED
      BY <1>a, <1>c, <1>d, <2>4, <2>6, <3>1, <3>2 DEF Holds
  <2>8. TurnsHold'
    <3> DEFINE W == {y}
    <3>1. W \in SUBSET Peers /\ \A x \in W : x = y
      OBVIOUS
    <3>2. /\ \A x \in Peers \ W : turns'[x] = turns[x]
          /\ \A x \in Peers \ W, t \in TurnIds : Steady(x, t)
      BY <1>e, <1>1, <2>6
    <3> HIDE DEF W
    <3> QED
      BY <1>a, <1>1, <2>7, <3>1, <3>2, TurnsStay DEF IInv
  <2>9. PendingFits' /\ Grows
    <3>1. Mine(y, u) /\ Physical(y, u)' = merged
      BY <1>c, <1>e, <1>1 DEF Mine
    <3> QED
      BY <1>a, <1>c, <1>e, <1>1, <3>1, LedOnGrows DEF PendingFits
  <2>10. BaselineTypeOK'
    BY <1>a, <1>c, <1>d, <1>e, <1>1, <2>5, <2>6, Budget
       DEF IInv, BaselineTypeOK, BaselinePaths, turn_baseline_path
  <2> QED
    BY <1>e, <1>1, <2>5, <2>8, <2>9, <2>10 DEF IInv
<1>2. ASSUME NEW steps \in 1..3,
             pending' = [before |-> current, after |-> hooks[h].scan,
                         generation |-> target, agent |-> y, id |-> u,
                         baseBefore |-> base, baseAfter |-> merged, keys |-> hooks[h].keys],
             current' = IF steps > 1 THEN hooks[h].scan ELSE current,
             IF steps > 2 THEN Led ELSE UNCHANGED baselines,
             LeaveHook(h) \/ Report(h, FALSE), Fault, UNCHANGED <<generation, turns>>
      PROVE  IInv' /\ Grows
  <2>1. /\ pending' \in Transition /\ pending' # None
        /\ pending'.before = current /\ pending'.after = hooks[h].scan
        /\ pending'.agent = y /\ pending'.id = u
        /\ pending'.baseBefore = base /\ pending'.baseAfter = merged
    <3>1. hooks[h].keys \in SUBSET Keys /\ current \in Snapshot
      BY <1>c DEF HookRun, IInv, BaselineTypeOK
    <3> HIDE DEF merged, base, target
    <3>2. /\ pending' \in Transition
          /\ pending'.before = current /\ pending'.after = hooks[h].scan
          /\ pending'.agent = y /\ pending'.id = u
          /\ pending'.baseBefore = base /\ pending'.baseAfter = merged
      BY <1>c, <1>d, <1>2, <3>1 DEF Transition
    <3> QED
      BY <3>2, Marks
  <2> HIDE DEF merged, base, target
  <2>2. /\ LegacyIsOnes' /\ baselines' \in [BaselinePaths -> Baseline \cup {None, Broken}]
        /\ \A x \in Peers, t \in TurnIds : <<x, t>> # <<y, u>> => Steady(x, t)
        /\ Physical(y, u)' = IF steps > 2 THEN merged ELSE base
    <3>1. CASE steps > 2
      BY <1>2, <1>e, <3>1
    <3>2. CASE ~(steps > 2)
      BY <1>a, <1>c, <1>2, <3>2, FilesSame DEF IInv, BaselineTypeOK
    <3> QED
      BY <3>1, <3>2
  <2>3. HooksInv' /\ hooks' \in [Slots -> HookRun \cup {None}]
    <3>1. Moves(h)
      BY <1>a, <1>c, <1>2, LeaveMoves, ReportMoves DEF IInv
    <3>2. PICK n \in HookRun \cup {None} :
            /\ hooks' = [hooks EXCEPT ![h] = n]
            /\ n # None => Goes(hooks[h], n) /\ Staged(n)
            /\ n # None /\ n.prompt /\ n.base # None => n.base = hooks[h].base
      BY <3>1 DEF Moves
    <3>3. \A x \in Peers, t \in TurnIds : Steady(x, t) \/ (~hooks[h].prompt /\ Me(h) = x /\ Id(h) = t)
      BY <1>b, <1>c, <2>2
    <3> QED
      BY <1>a, <1>b, <1>c, <2>1, <3>2, <3>3, HookLeads DEF IInv
  <2>4. Holds(y, turns[y])'
    <3>1. Holds(y, turns[y])
      BY <1>c DEF IInv, TurnsHold
    <3>2. Physical(y, turns[y].id)' = Physical(y, u)' /\ turns'[y] = turns[y]
      BY <1>c, <1>2 DEF Physical, File
    <3> QED
      BY <1>a, <1>c, <1>d, <2>1, <2>2, <3>1, <3>2 DEF Holds, Between
  <2>5. TurnsHold'
    <3> DEFINE W == {y}
    <3>1. W \in SUBSET Peers /\ \A x \in W : x = y
      OBVIOUS
    <3>2. /\ \A x \in Peers \ W : turns'[x] = turns[x]
          /\ \A x \in Peers \ W, t \in TurnIds : Steady(x, t)
      BY <1>2, <2>2
    <3> HIDE DEF W
    <3> QED
      BY <1>a, <1>c, <2>4, <3>1, <3>2, TurnsStay DEF IInv
  <2>6. PendingFits'
    <3>1. current' \in {pending'.before, pending'.after}
      BY <1>2, <2>1
    <3>2. current' # pending'.after => Physical(y, u)' = pending'.baseBefore
      BY <1>2, <2>1, <2>2
    <3>3. turns'[y].baseline = base /\ turns'[y].status = "ready" /\ turns'[y].revised = turns[y].revised
      BY <1>c, <1>2
    <3> QED
      BY <1>c, <2>1, <2>2, <3>1, <3>2, <3>3 DEF PendingFits
  <2>7. Grows
    BY <1>a, <1>c, <2>2, LedOnGrows
  <2>8. BaselineTypeOK'
    <3>1. current' \in Snapshot
      BY <1>c, <1>2 DEF IInv, BaselineTypeOK
    <3> QED
      BY <1>a, <1>2, <2>1, <2>2, <2>3, <3>1, Budget
         DEF IInv, BaselineTypeOK, BaselinePaths, turn_baseline_path
  <2> QED
    BY <2>2, <2>3, <2>5, <2>6, <2>7, <2>8 DEF IInv
<1> QED
  BY <1>b, <1>1, <1>2 DEF Advance, AdvanceFrom

\* The recovery leaves the file as it is or at the transition's later end.
LEMMA RecoveredFile ==
  ASSUME IInv, pending # None, current = pending.after, UNCHANGED hurt,
         NEW y \in Peers, NEW u \in TurnIds, y = pending.agent, u = pending.id,
         IF Restored \in {Broken, Physical(y, u)} THEN UNCHANGED baselines
         ELSE SaveFile(y, u, Restored)
  PROVE  /\ LegacyIsOnes' /\ baselines' \in [BaselinePaths -> Baseline \cup {None, Broken}]
         /\ \A x \in Peers, t \in TurnIds : <<x, t>> # <<y, u>> => Steady(x, t)
         /\ \/ Restored = Broken /\ UNCHANGED baselines
            \/ /\ Restored = pending.baseAfter /\ Physical(y, u)' = pending.baseAfter
               /\ Physical(y, u) \in {pending.baseBefore, pending.baseAfter}
<1>1. pending.baseBefore \in Snapshot /\ pending.baseAfter \in Snapshot
  <2>1. pending \in Transition
    BY DEF IInv, BaselineTypeOK
  <2> QED
    BY <2>1 DEF Transition
<1>2. {pending.baseBefore, pending.baseAfter} \cap {None, Broken} = {}
  BY <1>1, Marks
<1>3. \/ Restored = Broken
      \/ /\ Restored = pending.baseAfter
         /\ Physical(y, u) \in {pending.baseBefore, pending.baseAfter}
  BY DEF Restored
<1>4. CASE UNCHANGED baselines
  <2>1. LegacyIsOnes' /\ \A x \in Peers, t \in TurnIds : Steady(x, t) /\ Physical(x, t)' = Physical(x, t)
    BY <1>4, FilesSame DEF IInv
  <2>2. Restored = Broken \/ Restored = Physical(y, u)
    <3>1. CASE SaveFile(y, u, Restored) /\ Restored # Broken
      <4>1. Restored = pending.baseAfter /\ Physical(y, u) # Broken
        BY <1>2, <1>3, <3>1
      <4>2. Physical(y, u)' = Restored
        BY <1>1, <3>1, <4>1, OtherFiles
      <4> QED
        BY <2>1, <4>2
    <3> QED
      BY <3>1
  <2> QED
    BY <1>3, <1>4, <2>1, <2>2 DEF IInv, BaselineTypeOK
<1>5. CASE SaveFile(y, u, Restored) /\ Restored # Broken
  <2>1. Restored = pending.baseAfter /\ Physical(y, u) # Broken /\ Restored \in Snapshot
    BY <1>1, <1>2, <1>3, <1>5
  <2> QED
    BY <1>3, <1>5, <2>1, OtherFiles
<1> QED
  BY <1>4, <1>5

\* What the ledger's turn is after the transition that was pending is settled.
LEMMA FinalizedHeld ==
  ASSUME IInv, pending # None, NEW y \in Peers, NEW u \in TurnIds,
         y = pending.agent, u = pending.id, UNCHANGED <<announced, hurt>>,
         \/ Restored = Broken /\ UNCHANGED baselines
         \/ Restored = pending.baseAfter /\ Physical(y, u)' = pending.baseAfter,
         turns' = Finalized(Restored), Mine(y, u)
  PROVE  Holds(y, turns[y])' /\ turns' \in [Peers -> TurnState \cup {None}]
         /\ \A x \in Peers \ {y} : turns'[x] = turns[x]
<1>1. turns[y] # None /\ turns[y].id = u /\ Holds(y, turns[y]) /\ turns[y] \in TurnState
  BY TurnType DEF Mine, IInv, TurnsHold
<1>2. pending.baseAfter \in Snapshot
  <2>1. pending \in Transition
    BY DEF IInv, BaselineTypeOK
  <2> QED
    BY <2>1 DEF Transition
<1>3. pending.baseAfter # None /\ pending.baseAfter # Broken
  BY <1>2, Marks
<1>4. CASE Restored = Broken \/ turns[y].status = "degraded"
  <2>1. turns' = [turns EXCEPT ![y] = Degraded(turns[y])]
    BY <1>4 DEF Finalized
  <2>2. turns' \in [Peers -> TurnState \cup {None}] /\ \A x \in Peers \ {y} : turns'[x] = turns[x]
    <3>1. Degraded(turns[y]) \in TurnState
      BY <1>1, <2>1, DegradedHolds DEF IInv
    <3> QED
      BY <2>1, <3>1 DEF IInv, BaselineTypeOK
  <2>3. Holds(y, turns[y])'
    <3>1. CASE UNCHANGED baselines
      BY <1>1, <2>1, <3>1, FilesSame, DegradedHeld DEF IInv
    <3>2. CASE Physical(y, u)' = pending.baseAfter
      <4>1. turns'[y].id = u /\ turns'[y].status = "degraded" /\ turns'[y].recovered = turns[y].recovered
        BY <1>1, <2>1, DegradedHolds DEF IInv
      <4>2. Physical(y, turns[y].id)' = pending.baseAfter
        BY <3>2, <4>1 DEF Physical, File
      <4> QED
        BY <1>1, <1>3, <4>1, <4>2 DEF Holds
    <3> QED
      BY <3>1, <3>2
  <2> QED
    BY <2>2, <2>3
<1>5. CASE Restored # Broken /\ turns[y].status # "degraded"
  <2> DEFINE n == [turns[y] EXCEPT !.status = "ready", !.baseline = pending.baseAfter]
  <2>1. turns' = [turns EXCEPT ![y] = n]
    BY <1>5 DEF Finalized
  <2>2. /\ n \in TurnState /\ n.id = u /\ n.status = "ready" /\ n.baseline = pending.baseAfter
        /\ n.recovered = turns[y].recovered
    BY <1>1, <1>2 DEF TurnState
  <2> HIDE DEF n
  <2>3. turns' \in [Peers -> TurnState \cup {None}] /\ turns'[y] = n
        /\ \A x \in Peers \ {y} : turns'[x] = turns[x]
    BY <2>1, <2>2 DEF IInv, BaselineTypeOK
  <2>4. Physical(y, turns[y].id)' = pending.baseAfter
    BY <1>5, <2>2, <2>3 DEF Physical, File
  <2> QED
    BY <1>1, <1>3, <2>2, <2>3, <2>4 DEF Holds
<1> QED
  BY <1>4, <1>5

LEMMA RecoverGood == ASSUME IInv, RecoverPending PROVE IInv' /\ Grows
<1>a. /\ pending # None /\ UNCHANGED <<worktree, current, announced, hooks, hurt>>
  BY DEF RecoverPending
<1>b. pending \in Transition
  BY <1>a DEF IInv, BaselineTypeOK
<1>c. PICK y \in Peers, u \in TurnIds : y = pending.agent /\ u = pending.id
  BY <1>b DEF Transition
<1>d. pending.baseBefore \in Snapshot /\ pending.baseAfter \in Snapshot /\ pending.generation \in Nat
  BY <1>b DEF Transition
<1>e. {pending.baseBefore, pending.baseAfter} \cap {None, Broken} = {}
  BY <1>d, Marks
<1>f. /\ \A k \in Keys : pending.baseBefore[k] # None => pending.baseAfter[k] = pending.baseBefore[k]
      /\ Mine(y, u) =>
           /\ \A k \in Keys : pending.baseBefore[k] = None /\ pending.baseAfter[k] # None =>
                k \notin turns[y].revised
           /\ turns[y].status # "missing"
           /\ turns[y].status = "ready" => turns[y].baseline = pending.baseBefore
      /\ Whole(y, u) /\ current # pending.after => Physical(y, u) = pending.baseBefore
  BY <1>a, <1>c DEF IInv, PendingFits
<1>1. CASE /\ current # pending.after /\ pending' = None /\ NoFault
           /\ UNCHANGED <<baselines, turns, generation>>
  <2>1. /\ \A x \in Peers, t \in TurnIds : Steady(x, t) /\ Physical(x, t)' = Physical(x, t)
        /\ LegacyIsOnes'
    BY <1>a, <1>1, FilesSame DEF IInv
  <2>2. HooksInv' /\ PendingFits' /\ Grows
    BY <1>a, <1>1, <2>1, HooksStay, AllGrow DEF IInv, PendingFits
  <2>3. BaselineTypeOK'
    BY <1>a, <1>1, Budget DEF IInv, BaselineTypeOK, BaselinePaths, turn_baseline_path
  <2>4. ASSUME NEW x \in Peers, turns[x] # None PROVE Holds(x, turns[x])'
    <3>1. Holds(x, turns[x])
      BY <2>4 DEF IInv, TurnsHold
    <3>2. PICK t \in TurnIds : t = turns[x].id
      BY <2>4, TurnType DEF IInv
    <3>3. /\ Physical(x, turns[x].id) = Physical(x, t) /\ Physical(x, turns[x].id)' = Physical(x, t)'
          /\ Whole(x, turns[x].id) = Whole(x, t) /\ Whole(x, turns[x].id)' = Whole(x, t)
      BY <1>a, <1>1, <3>2 DEF Physical, File, Whole
    <3>4. Whole(x, t) /\ Between(x, turns[x]) => Physical(x, t) = turns[x].baseline
      BY <1>1, <1>c, <1>f, <3>2 DEF Between
    <3> QED
      BY <1>a, <1>1, <2>1, <3>1, <3>2, <3>3, <3>4 DEF Holds
  <2>5. TurnsHold'
    BY <1>1, <2>4 DEF TurnsHold
  <2> QED
    BY <2>1, <2>2, <2>3, <2>5 DEF IInv
<1>2. CASE /\ current = pending.after
           /\ IF Restored \in {Broken, Physical(y, u)} THEN UNCHANGED baselines
              ELSE SaveFile(y, u, Restored)
           /\ \/ turns' = Finalized(Restored) /\ generation' = pending.generation
                 /\ pending' = None /\ NoFault
              \/ Fault /\ UNCHANGED <<turns, generation, pending>>
  <2>1. /\ LegacyIsOnes' /\ baselines' \in [BaselinePaths -> Baseline \cup {None, Broken}]
        /\ \A x \in Peers, t \in TurnIds : <<x, t>> # <<y, u>> => Steady(x, t)
        /\ \/ Restored = Broken /\ UNCHANGED baselines
           \/ /\ Restored = pending.baseAfter /\ Physical(y, u)' = pending.baseAfter
              /\ Physical(y, u) \in {pending.baseBefore, pending.baseAfter}
    BY <1>a, <1>c, <1>2, RecoveredFile
  <2>2. HooksInv'
    <3>1. \A x \in Peers, t \in TurnIds :
            Steady(x, t) \/ (pending # None /\ pending.agent = x /\ pending.id = t)
      BY <1>a, <1>c, <2>1
    <3> QED
      BY <1>a, <1>2, <3>1, HooksKeep DEF IInv
  <2>3. /\ turns' \in [Peers -> TurnState \cup {None}]
        /\ \A x \in Peers \ {y} : turns'[x] = turns[x]
        /\ turns'[y] # None => Holds(y, turns[y])'
    <3>1. CASE Mine(y, u) /\ turns' = Finalized(Restored)
      BY <1>a, <1>c, <2>1, <3>1, FinalizedHeld
    <3>2. CASE ~Mine(y, u) /\ turns' = turns
      <4> SUFFICES ASSUME turns[y] # None PROVE Holds(y, turns[y])'
        BY <3>2 DEF IInv, BaselineTypeOK
      <4>1. turns[y].id # u /\ Holds(y, turns[y])
        BY <3>2 DEF Mine, IInv, TurnsHold
      <4>2. \A t \in TurnIds : t = turns[y].id => Steady(y, t)
        BY <2>1, <4>1
      <4> QED
        BY <1>a, <1>c, <3>2, <4>1, <4>2, StaysHeld DEF IInv, Between
    <3>3. CASE Mine(y, u) /\ turns' = turns /\ pending' = pending
      <4>1. turns[y] # None /\ turns[y].id = u /\ Holds(y, turns[y])
        BY <3>3 DEF Mine, IInv, TurnsHold
      <4>2. CASE UNCHANGED baselines
        BY <1>a, <3>3, <4>1, <4>2, FilesSame, StaysHeld DEF IInv, BaselineTypeOK
      <4>3. CASE Physical(y, u)' = pending.baseAfter
        <5>1. Physical(y, turns[y].id)' = pending.baseAfter /\ turns'[y] = turns[y]
          BY <3>3, <4>1, <4>3 DEF Physical, File
        <5>2. turns[y].status = "ready" => Between(y, turns[y])'
          BY <1>a, <1>c, <1>f, <3>3, <4>1, <5>1 DEF Between
        <5> QED
          BY <1>a, <1>e, <3>3, <4>1, <5>1, <5>2 DEF Holds, IInv, BaselineTypeOK
      <4> QED
        BY <2>1, <4>2, <4>3
    <3> QED
      BY <1>2, <1>c, <3>1, <3>2, <3>3 DEF Finalized
  <2>4. TurnsHold'
    <3> DEFINE W == {y}
    <3>1. W \in SUBSET Peers /\ \A x \in W : x = y
      OBVIOUS
    <3>2. /\ \A x \in Peers \ W : turns'[x] = turns[x]
          /\ \A x \in Peers \ W, t \in TurnIds : Steady(x, t)
          /\ pending.agent \in W
      BY <1>c, <2>1, <2>3
    <3> HIDE DEF W
    <3> QED
      BY <1>a, <2>3, <3>1, <3>2, TurnsStay DEF IInv
  <2>5. PendingFits'
    <3>1. CASE pending' = None
      BY <3>1 DEF PendingFits
    <3>2. CASE UNCHANGED <<pending, turns>>
      <4>1. Whole(y, u)' => Physical(y, u)' \in {pending.baseBefore, pending.baseAfter}
        <5>1. CASE UNCHANGED baselines
          BY <1>a, <1>c, <5>1, FilesSame DEF IInv, PendingFits
        <5> QED
          BY <2>1, <5>1
      <4> QED
        BY <1>a, <1>c, <1>f, <1>2, <3>2, <4>1 DEF PendingFits, Mine
    <3> QED
      BY <1>2, <3>1, <3>2
  <2>6. Grows
    <3>1. CASE UNCHANGED baselines
      BY <1>a, <3>1, FilesSame, AllGrow DEF IInv
    <3>2. CASE /\ Physical(y, u)' = pending.baseAfter
               /\ Physical(y, u) \in {pending.baseBefore, pending.baseAfter}
      <4> DEFINE base == Physical(y, u)
      <4>1. base \in Snapshot /\ \A k \in Keys : base[k] # None => pending.baseAfter[k] = base[k]
        BY <1>d, <1>f, <3>2
      <4>2. Mine(y, u) => \A k \in Keys : base[k] = None /\ pending.baseAfter[k] # None =>
                                            k \notin turns[y].revised
        BY <1>f, <3>2
      <4>3. Physical(y, u) = base
        OBVIOUS
      <4> HIDE DEF base
      <4> QED
        BY <1>a, <1>d, <2>1, <3>2, <4>1, <4>2, <4>3, LedOnGrows
    <3> QED
      BY <2>1, <3>1, <3>2
  <2>7. BaselineTypeOK'
    BY <1>a, <1>d, <1>2, <2>1, <2>3, Budget DEF IInv, BaselineTypeOK, BaselinePaths, turn_baseline_path
  <2> QED
    BY <2>1, <2>2, <2>4, <2>5, <2>6, <2>7 DEF IInv
<1> QED
  BY <1>c, <1>1, <1>2, <1>f DEF RecoverPending, IInv

-----------------------------------------------------------------------------
LEMMA InitGood == ASSUME BaselineInit PROVE IInv
<1>1. /\ turns = [x \in Peers |-> None] /\ hooks = [h \in Slots |-> None]
      /\ announced = {} /\ hurt = {} /\ pending = None
  BY DEF BaselineInit
<1>2. current \in Snapshot
  BY DEF BaselineInit, Snapshot
<1>3. baselines \in [BaselinePaths -> Baseline \cup {None, Broken}]
  <2>1. [snap |-> current, own |-> None] \in Baseline
    BY <1>2 DEF Baseline
  <2> QED
    BY <2>1 DEF BaselineInit
<1>4. bounds \in [begun : 0..MaxBegun, writes : 0..MaxEdits, faults : 0..MaxHarm]
  <2>1. 0 \in 0..MaxBegun /\ 0 \in 0..MaxEdits /\ 0 \in 0..MaxHarm
    BY BaselineAssumption
  <2> QED
    BY <2>1 DEF BaselineInit
<1>5. BaselineTypeOK
  BY <1>1, <1>2, <1>3, <1>4 DEF BaselineInit, BaselineTypeOK
<1>6. LegacyIsOnes
  BY DEF BaselineInit, LegacyIsOnes, Unclaimed
<1>7. HooksInv /\ TurnsHold /\ PendingFits
  BY <1>1 DEF HooksInv, Apart, TellsTrue, TurnsHold, PendingFits
<1> QED
  BY <1>5, <1>6, <1>7 DEF IInv

LEMMA NothingGood == ASSUME IInv, UNCHANGED baselineVars PROVE IInv' /\ Grows
<1>1. UNCHANGED <<worktree, current, generation, pending, baselines, turns, announced, hooks,
                  hurt, bounds>>
  BY DEF baselineVars
<1>2. (\A x \in Peers, t \in TurnIds : Steady(x, t)) /\ LegacyIsOnes'
  BY <1>1, FilesSame DEF IInv
<1>3. BaselineTypeOK'
  BY <1>1 DEF IInv, BaselineTypeOK, BaselinePaths, turn_baseline_path
<1>4. HooksInv' /\ TurnsHold' /\ PendingFits' /\ Grows
  BY <1>1, <1>2, HooksStay, NoTurnWritten, PendingStays, AllGrow DEF IInv, Mine
<1> QED
  BY <1>2, <1>3, <1>4 DEF IInv

LEMMA StepGood == ASSUME IInv, [BaselineNext]_baselineVars PROVE IInv' /\ Grows
<1>1. CASE UNCHANGED baselineVars
  BY <1>1, NothingGood
<1>2. CASE RecoverPending
  BY <1>2, RecoverGood
<1>3. ASSUME NEW h \in Slots, NEW x \in Peers, NEW t \in TurnIds,
             BeginPrompt(h, x, t) \/ \E keys \in SUBSET Keys : BeginTool(h, x, t, keys)
      PROVE  IInv' /\ Grows
  BY <1>3, BeginsGood
<1>4. ASSUME NEW h \in Slots,
             ClaimLegacy(h) \/ EnsurePending(h) \/ EnsureDegraded(h) \/ EnsureReady(h)
      PROVE  IInv' /\ Grows
  BY <1>4, ClaimGood, EnsurePendingGood, EnsureDegradedGood, EnsureReadyGood
<1>5. ASSUME NEW h \in Slots, StartTurn(h) \/ SaveBaseline(h) \/ Tell(h) PROVE IInv' /\ Grows
  BY <1>5, StartTurnGood, SaveBaselineGood, TellGood
<1>6. ASSUME NEW h \in Slots,
             EnsureSettled(h) \/ View(h) \/ ReadTurn(h) \/ ReadFile(h) \/ Prime(h)
               \/ PrimeAgain(h) \/ Record(h) \/ Return(h)
      PROVE  IInv' /\ Grows
  BY <1>6, ReadsGood
<1>7. ASSUME NEW h \in Slots, Advance(h) \/ Observe(h) \/ Status(h) \/ HookFails(h)
      PROVE  IInv' /\ Grows
  BY <1>7, AdvanceGood, ObserveGood, StatusGood, FailsGood
<1>8. ASSUME NEW k \in Keys, NEW content \in Contents \cup {None}, Edit(k, content)
      PROVE  IInv' /\ Grows
  BY <1>8, EditGood
<1>9. ASSUME NEW path \in BaselinePaths, NEW left \in {None, Broken}, DamageFile(path, left)
      PROVE  IInv' /\ Grows
  BY <1>9, DamageGood
<1> QED
  BY <1>1, <1>2, <1>3, <1>4, <1>5, <1>6, <1>7, <1>8, <1>9 DEF BaselineNext

\* The invariant that the others follow from: where every hook is and what it
\* has read by then, what every turn names and its file holds, and what a
\* transition that is pending leads to.
THEOREM BaselineInvariant == BaselineSpec => []IInv
<1>1. BaselineInit => IInv
  BY InitGood
<1>2. IInv /\ [BaselineNext]_baselineVars => IInv'
  BY StepGood
<1> QED
  BY <1>1, <1>2, PTL DEF BaselineSpec

\* The ledger's turns, the manifest, its pending transition, the files and the
\* hooks have the shapes the code gives them, in every state.
THEOREM BaselineTypes == BaselineSpec => []BaselineTypeOK
<1>1. IInv => BaselineTypeOK
  BY DEF IInv
<1> QED
  BY <1>1, BaselineInvariant, PTL

\* _turn_binding_is_ready: whatever dies or fails between the saves of
\* save_manifest_baseline, commit_manifest and the ledger, a turn that is ready
\* is bound to the baseline it names, or is between the ends of the pending
\* transition that recovery settles.
THEOREM BoundWhereReady == BaselineSpec => []ReadyIsBound
<1>1. IInv => ReadyIsBound
  BY HoldsIsBound
<1> QED
  BY <1>1, BaselineInvariant, PTL

LEMMA GrowthOnly == ASSUME Grows, DegradedStays PROVE GrowsOnly
  BY DEF Grows, GrowsAt, DegradedStays, GrowsOnly, Whole

\* merge_turn_baseline and all that writes a baseline's file, from the first
\* write to recovery after a crash: a turn's baseline takes nothing back and
\* hides no change the turn answers for.
THEOREM NothingTakenBack == BaselineSpec => BaselineOnlyGrows
<1>1. BaselineInit => IInv /\ TurnsShaped
  BY InitGood, InitShaped
<1>2. IInv /\ TurnsShaped /\ [BaselineNext]_baselineVars => (IInv /\ TurnsShaped)' /\ GrowsOnly
  BY StepGood, NextKeeps, GrowthOnly
<1> QED
  BY <1>1, <1>2, PTL DEF BaselineSpec, BaselineOnlyGrows
=============================================================================
