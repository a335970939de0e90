---------------------------- MODULE MCComponents ----------------------------
(***************************************************************************)
(* One small instance each of the components that TLC checks apart from    *)
(* the lock, the outbox and the Stop gate.  They share no state, so that a *)
(* product would only multiply their steps: which of them runs is chosen   *)
(* in the initial state, and the others stay where they begin.  Those with *)
(* theorems about the properties checked here are extended, their          *)
(* constants given by Components.cfg; the rest are instances.              *)
(***************************************************************************)
EXTENDS StateMigration, PreToolGates, TurnLedger, LedgerFile, StatusArchive,
        DestructiveGate, SessionHooks, TurnBaseline, GateScorecard, Sequences

CONSTANTS NoBody, b1, b2, w1, w2, k1, k2, r1, r2, h1, h2, a, b, c, p, q,
          d1, d2, s1, s2, s3

VARIABLES
  which,
  \* CoordinationOutbox
  outbox, delivered, order, cursor, degraded, events, fragment, stage, todo,
  done, reach, bad, lapses, accepted,
  \* GuardedCommand, ShellSegments
  typed, text, open, fresh, doc, run,
  \* RemoteCommand, ReadOnlyCommand
  spoken, asked,
  \* QuarantineStore
  entries, owner, phase, mine, notes, ticks, mischief,
  \* LedgerRepair
  raw, mended, rounds, verdict,
  \* ProcessReaper
  procs, seen, changes

Sizes == [s \in {s1, s2, s3} |-> IF s = s1 THEN 1 ELSE IF s = s3 THEN 3 ELSE 2]

Outbox == INSTANCE CoordinationOutbox WITH
  Workers <- {w1, w2}, Ids <- {1, 2}, Bodies <- {b1, b2}, StableR2 <- {},
  Cap <- 2, Batch <- 1, Legacy <- {<<>>, <<<<1, b1>>>>}, CutsText <- FALSE,
  MaxFaults <- 1, MaxAccept <- 3, MaxCursor <- 10,
  journal <- events, pc <- stage, faults <- lapses
\* The index that the guard reads, of more paths than it has room for.
Attributions == INSTANCE PathAttribution WITH
  Paths <- {p, q}, MAX_PATH_OWNERS <- 1

\* The commands rule R2 is asked about: one target, removed alone or with all
\* below it, and two in a row; of the places, one is a link, one a link that
\* leads nowhere.
One(t, tree) ==
  <<[resolved |-> TRUE, targets |-> {t}, within |-> IF tree THEN {t} ELSE {}]>>
Located(lexical, physical, below) == [lexical |-> lexical, physical |-> physical, below |-> below]
GuardTargets == {"file", "link", "dir", "state", "intoState", "outside", "loop"}
GuardPlace ==
  [file |-> Located("project", p, {p}), link |-> Located("project", p, {p}),
   dir |-> Located("project", "dir", {p}), state |-> Located("state", "outside", {}),
   intoState |-> Located("project", "state", {}),
   outside |-> Located("project", "outside", {}), loop |-> Located("project", "loop", {})]
GuardCommands ==
  {One(t, FALSE) : t \in {"file", "state", "intoState", "loop"}}
    \cup {One("link", TRUE), One("dir", TRUE), One("outside", TRUE) \o One("dir", TRUE)}
Command == INSTANCE GuardedCommand WITH MaxPhrases <- 3
Segments == INSTANCE ShellSegments WITH MaxLexemes <- 6, MaxWords <- 3
Remote == INSTANCE RemoteCommand WITH MaxOptions <- 2
Reading == INSTANCE ReadOnlyCommand WITH MaxPhrases <- 3
Store == INSTANCE QuarantineStore WITH
  Hooks <- {h1, h2}, MAX_ENTRIES <- 2, MAX_ENTRY_BYTES <- 2, MAX_TOTAL_BYTES <- 5,
  Lengths <- {1, 3}, MaxSaves <- 3, MaxFaults <- 1,
  holder <- owner, stage <- phase, clock <- ticks, faults <- mischief
Repair == INSTANCE LedgerRepair WITH
  Ids <- {1, 2}, Bodies <- {b1, b2}, Cap <- 1, MaxOrder <- 2,
  ledger <- mended, result <- verdict
\* One session's processes, and two sessions'.
Reaper == INSTANCE ProcessReaper WITH
  Pids <- 1..5, Codexes <- {1}, Hook <- 5, PROTECTION_WINDOW <- 1, MaxTime <- 2,
  MaxChanges <- 1
Panes == INSTANCE ProcessReaper WITH
  Pids <- 1..6, Codexes <- {1, 2}, Hook <- 5, PROTECTION_WINDOW <- 1, MaxTime <- 2,
  MaxChanges <- 1

\* Two of the three agents have names that make one file's name. The baselines
\* are checked in three parts: a turn's prompts and calls and the turn after it;
\* a prompt and two calls; and the two agents with one file.
FileNames == [x \in {a, b, c} |-> IF x = a THEN "one" ELSE "two"]
Part(agents, ids, begun, edits, harm) ==
  /\ \A h \in Slots : hooks[h] # None => hooks[h].agent \in agents /\ hooks[h].id \in ids
  /\ bounds.begun <= begun /\ bounds.writes <= edits /\ bounds.faults <= harm

\* Hooks differ in nothing but their names.
HookSymmetry == Permutations({h1, h2})

ASSUME ComponentAssumption ==
  /\ MigrationAssumption /\ PreToolAssumption /\ TurnAssumption
  /\ FileAssumption /\ ArchiveAssumption
  /\ ScorecardAssumption /\ AttributionAssumption
  /\ SessionAssumption
  /\ GuardAssumption /\ Store!StoreAssumption /\ Repair!RepairAssumption
  /\ Reaper!ReaperAssumption /\ Panes!ReaperAssumption
  /\ BaselineAssumption

Components == {"migration", "outbox", "scorecard", "gates", "attribution",
               "turns", "file", "archive", "sessions",
               "guard", "command", "segments", "remote", "reading", "store",
               "repair", "reaper", "panes", "bootstrap", "calls", "oneFile"}

outboxVars ==
  <<outbox, delivered, order, cursor, degraded, events, fragment, stage, todo,
    done, reach, bad, lapses, accepted>>
commandVars == <<typed>>
remoteVars == <<spoken>>
readingVars == <<asked>>
segmentVars == <<text, open, fresh, doc, run>>
flightVars == <<flight, damaged>>
storeVars == <<entries, owner, phase, mine, notes, ticks, mischief>>
mendVars == <<raw, mended, rounds, verdict>>
reaperVars == <<procs, seen, changes>>

vars == <<which, migrationVars, outboxVars, scorecardVars, gateVars, attrVars,
          turnVars, fileVars, archiveVars, sessionVars, commandVars,
          segmentVars, remoteVars, readingVars, flightVars, storeVars, mendVars, reaperVars,
          baselineVars>>

Only(name) ==
  /\ which = name /\ UNCHANGED which
  /\ name # "migration" => UNCHANGED migrationVars
  /\ name # "outbox" => UNCHANGED outboxVars
  /\ name # "scorecard" => UNCHANGED scorecardVars
  /\ name # "gates" => UNCHANGED gateVars
  /\ name \notin {"attribution", "guard"} => UNCHANGED attrVars
  /\ name # "turns" => UNCHANGED turnVars
  /\ name # "file" => UNCHANGED fileVars
  /\ name # "archive" => UNCHANGED archiveVars
  /\ name # "sessions" => UNCHANGED sessionVars
  /\ name # "guard" => UNCHANGED flightVars
  /\ name # "command" => UNCHANGED commandVars
  /\ name # "segments" => UNCHANGED segmentVars
  /\ name # "remote" => UNCHANGED remoteVars
  /\ name # "reading" => UNCHANGED readingVars
  /\ name # "store" => UNCHANGED storeVars
  /\ name # "repair" => UNCHANGED mendVars
  /\ name \notin {"reaper", "panes"} => UNCHANGED reaperVars
  /\ name \notin {"bootstrap", "calls", "oneFile"} => UNCHANGED baselineVars

\* Where a component that does not run begins does not matter.
Init ==
  /\ which \in Components
  /\ MigrationInit /\ (which # "migration" => legacy = None)
  /\ Outbox!Init /\ (which # "outbox" => events = <<>>)
  /\ ScorecardInit /\ PreToolInit
  /\ IF which = "attribution" THEN Attributions!AttributionInit ELSE AttributionInit
  /\ TurnsInit /\ (which # "turns" => active = [k \in Agents |-> None])
  /\ FileInit /\ (which # "file" => file = None)
  /\ ArchiveInit /\ SessionInit
  /\ flight = [x \in Writers |-> None]
  /\ damaged = (which # "guard")
  /\ Command!Init /\ (which # "command" => typed.name = "rm" /\ typed.before.words = <<>>)
  /\ Segments!Init /\ Store!Init
  /\ IF which = "remote" THEN Remote!Init ELSE spoken = None
  /\ IF which = "reading" THEN Reading!Init ELSE asked = None
  \* a ledger that is refused for another reason is tried with few maps
  /\ IF which = "repair" THEN Repair!Init /\ (raw.rest \/ raw.outbox = None)
     ELSE raw = None /\ mended = None /\ rounds = 0 /\ verdict = "validating"
  /\ CASE which = "reaper" -> Reaper!Init
       [] which = "panes" -> Panes!Init
       [] OTHER -> procs = None /\ seen = None /\ changes = 0
  /\ BaselineInit
  /\ which \notin {"bootstrap", "calls"} => \A f \in BaselinePaths : baselines[f] = None
  /\ which = "calls" => File(a, 2) = None
  /\ which \notin {"bootstrap", "calls", "oneFile"} => worktree[k1] = None

Next ==
  \/ Only("migration") /\ MigrationNext
  \/ Only("outbox") /\ Outbox!Next
  \/ Only("scorecard") /\ ScorecardNext
  \/ Only("gates") /\ PreToolNext
  \/ Only("attribution") /\ Attributions!AttributionNext
  \/ Only("turns") /\ TurnsNext
  \/ Only("file") /\ FileNext
  \/ Only("archive") /\ ArchiveNext
  \/ Only("sessions") /\ SessionNext
  \/ Only("guard") /\ GuardNext
  \/ Only("command") /\ Command!Next
  \/ Only("segments") /\ Segments!Next
  \/ Only("remote") /\ Remote!Next
  \/ Only("reading") /\ Reading!Next
  \/ Only("store") /\ Store!Next
  \/ Only("repair") /\ Repair!Next
  \/ Only("reaper") /\ Reaper!Next
  \/ Only("panes") /\ Panes!Next
  \/ Only("bootstrap") /\ BaselineNext /\ Part({a}, {1, 2}, 2, 1, 1)'
  \/ Only("calls") /\ BaselineNext /\ Part({a}, {1}, 3, 1, 0)'
  \/ Only("oneFile") /\ BaselineNext /\ Part({b, c}, {1}, 2, 0, 1)'

Spec == Init /\ [][Next]_vars

-----------------------------------------------------------------------------
(* The components' properties; each is explained where it is defined.      *)

\* Every component's variables keep their types, and what it saves stays
\* valid by its own schema.
TypeOK ==
  CASE which = "migration" -> MigrationTypeOK
    [] which = "outbox" -> Outbox!TypeOK
    [] which = "scorecard" -> ScorecardTypeOK
    [] which = "gates" -> GatesTypeOK
    [] which = "attribution" -> Attributions!AttributionTypeOK
    [] which = "turns" -> TurnsTypeOK
    [] which = "file" -> FileTypeOK
    [] which = "archive" -> ArchiveTypeOK
    [] which = "sessions" -> SessionTypeOK
    [] which = "guard" -> GuardTypeOK
    [] which = "command" -> Command!CommandTypeOK
    [] which = "segments" -> Segments!SegmentTypeOK
    [] which = "remote" -> Remote!RemoteTypeOK
    [] which = "reading" -> Reading!ReadOnlyTypeOK
    [] which = "store" -> Store!StoreTypeOK
    [] which = "repair" -> Repair!RepairTypeOK
    [] which = "reaper" -> Reaper!ReaperTypeOK
    [] which = "panes" -> Panes!ReaperTypeOK
    [] which \in {"bootstrap", "calls", "oneFile"} -> BaselineTypeOK

\* The guard finds every command a shell text runs (ShellSegments) and reads
\* a destructive one as it is meant (GuardedCommand).
ReadAsMeant ==
  /\ which = "segments" => Segments!RunIsFound
  /\ which = "command" => Command!ReadAsMeant

\* A command is taken for what it does: to a remote target (RemoteCommand),
\* or nothing but reading (ReadOnlyCommand).
EffectAsMeant ==
  /\ which = "remote" => Remote!RemoteAsMeant
  /\ which = "reading" => Reading!ReadOnlyAsMeant

\* What was kept stays until it is crowded out (QuarantineStore).
KeptUntilCrowded == Store!KeptUntilCrowded

\* A damaged ledger loses only what cannot be derived (LedgerRepair).
RepairIsExact == which = "repair" => Repair!RepairIsExact

\* The reaper ends what its own session has left over (ProcessReaper).
ReapsLeftOvers ==
  [][changes' = changes =>
       /\ which = "reaper" => Reaper!EndsOnlyLeftOvers /\ Reaper!ReachesLeftOvers
       /\ which = "panes" => Panes!EndsOnlyLeftOvers /\ Panes!ReachesLeftOvers]_reaperVars
=============================================================================
