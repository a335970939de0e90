------------------------------ MODULE MCProgress ------------------------------
(***************************************************************************)
(* The components that must come to an end, one small instance each: the   *)
(* Stop gate, whose constants the configuration gives, the layout          *)
(* migration and the coordination outbox.  They share no state, so that a  *)
(* product would only multiply their steps: which of them runs is chosen   *)
(* in the initial state, and the others stay where they begin.             *)
(***************************************************************************)
EXTENDS StopGate, Sequences

CONSTANTS NoBody, t1, p1, p2, ledgerFile, snapshot, b1, b2, w1, w2

VARIABLES
  which,
  \* StateMigration
  legacy, target, staging, barrier, src, pc, auth, man, writes, stumbles, expect,
  \* CoordinationOutbox
  outbox, delivered, order, cursor, degraded, events, fragment, stage, todo,
  done, reach, bad, lapses, accepted

\* One remote target: commands that change UI files, mutate the target, or
\* check it and the files.
OneTarget == {[kind |-> "ui", on |-> None], [kind |-> "mutate", on |-> t1],
              [kind |-> "check", on |-> t1]}

Migration == INSTANCE StateMigration WITH
  Procs <- {p1, p2}, Files <- {ledgerFile, snapshot}, Ledger <- ledgerFile,
  MaxStamp <- 1, MaxWrites <- 3, MaxFaults <- 1, faults <- stumbles
Outbox == INSTANCE CoordinationOutbox WITH
  Workers <- {w1, w2}, Ids <- {1, 2}, Bodies <- {b1, b2}, StableR2 <- {},
  Cap <- 2, Batch <- 1, Legacy <- {<<>>, <<<<1, b1>>>>}, CutsText <- FALSE,
  MaxFaults <- 1, MaxAccept <- 3, MaxCursor <- 10,
  journal <- events, pc <- stage, faults <- lapses

ASSUME ProgressAssumption == StopGateAssumption /\ Migration!MigrationAssumption

migrationVars ==
  <<legacy, target, staging, barrier, src, pc, auth, man, writes, stumbles, expect>>
outboxVars ==
  <<outbox, delivered, order, cursor, degraded, events, fragment, stage, todo,
    done, reach, bad, lapses, accepted>>

vars == <<which, stopVars, migrationVars, outboxVars>>

Only(c) ==
  /\ which = c /\ UNCHANGED which
  /\ c # "gate" => UNCHANGED stopVars
  /\ c # "migration" => UNCHANGED migrationVars
  /\ c # "outbox" => UNCHANGED outboxVars

\* Where a component that does not run begins does not matter.
Init ==
  /\ which \in {"gate", "migration", "outbox"}
  /\ StopInit
  /\ Migration!MigrationInit /\ (which # "migration" => legacy = None)
  /\ Outbox!Init /\ (which # "outbox" => events = <<>>)

Next ==
  \/ Only("gate") /\ StopNext
  \/ Only("migration") /\ Migration!MigrationNext
  \/ Only("outbox") /\ Outbox!Next

\* The fairness of each (Fairness in its module), for the one that runs.
Fairness ==
  /\ WF_stopVars(which = "gate" /\ \E i \in BOOLEAN : Finish(i))
  /\ WF_stopVars(which = "gate" /\ \E m \in BOOLEAN : Judge(m))
  /\ \A x \in {p1, p2} :
       /\ WF_migrationVars(which = "migration" /\ staging[x] = None /\ Migration!Prepare(x))
       /\ WF_migrationVars(which = "migration" /\ Migration!GoesOn(x))
  /\ \A w \in {w1, w2} :
       /\ WF_outboxVars(which = "outbox" /\ Outbox!DrainRead(w))
       /\ WF_outboxVars(which = "outbox" /\ (Outbox!Deliver(w) \/ Outbox!Ack(w)))

Spec == Init /\ [][Next]_vars /\ Fairness

-----------------------------------------------------------------------------
(* The components' properties; each is explained where it is defined.      *)

\* No gate holds an agent for good (StopGate, EveryTurnEnds).
GateTurnEnds == which = "gate" => EveryTurnEnds

\* Repeating `smtw migrate` completes the migration (StateMigration).
MigrationCompletes == Migration!MigrationCompletes

\* Every pending event is journaled in the end (CoordinationOutbox).
EventuallyJournaled == Outbox!EventuallyJournaled
=============================================================================
