---------------------------- MODULE ProcessReaper ----------------------------
(***************************************************************************)
(* contrib/codex_process_reaper: after a Stop that was allowed, the hook   *)
(* of a Codex session ends the tool servers its session has left over:     *)
(* those started later than a window after the session's first one.  The   *)
(* hook reads the table of processes, decides, and only then has them      *)
(* ended with all below them: meanwhile processes start and exit.          *)
(*                                                                         *)
(* Premises: a process number is not given out again between the two, nor  *)
(* while a child still names it; no Codex runs below another; a hook is    *)
(* not started by a tool server; the clock does not run backwards.         *)
(***************************************************************************)
EXTENDS Integers, FiniteSets, FiniteSetsExt

CONSTANTS
  Pids,               \* 1..n, given out in this order
  Codexes,           \* the numbers of the Codex processes, the first ones
  Hook,               \* the number of the hook's process
  PROTECTION_WINDOW,  \* in the model's units of time
  MaxTime,            \* the time at which the hook runs
  MaxChanges,         \* bounds the starts and exits while it runs
  None

ReaperAssumption ==
  /\ Pids = 1..Cardinality(Pids) /\ Codexes = 1..Cardinality(Codexes)
  /\ Hook \in Pids \ Codexes
  /\ PROTECTION_WINDOW \in Nat /\ MaxTime \in Nat /\ MaxChanges \in Nat
  /\ None \notin Pids \cup Nat

\* A row of the process table (the system may not tell when a process was
\* created), and the session it was started in.
Process ==
  [kind : {"codex", "candidate", "other", "hook"}, parent : Pids \cup {None},
   created : (0..MaxTime) \cup {None}, own : Codexes]

VARIABLES
  procs,    \* the process of each number, None if there is none
  seen,     \* the table the hook has read (its whole, whatever is printed of it)
  changes   \* the starts and exits since

reaperVars == <<procs, seen, changes>>

Live(table) == {x \in Pids : table[x] # None}
Candidates(table) == {x \in Live(table) : table[x].kind = "candidate"}

\* x and what is above it, as far as the parents named are there; a walk that
\* comes back to a process it has been at ends.
Lineage(table, x) ==
  LET up[n \in 0..Cardinality(Pids)] ==
        IF n = 0 THEN {x} \cap Live(table)
        ELSE LET below == up[n - 1]
             IN  below \cup ({table[y].parent : y \in below} \cap Live(table))
  IN  up[Cardinality(Pids)]

\* find_nearest_codex_pid
NearestCodex(table, x) ==
  LET above == {c \in Lineage(table, x) : table[c].kind = "codex"}
      found == {c \in above : above \subseteq Lineage(table, c)}
  IN  IF found = {} THEN None ELSE CHOOSE c \in found : TRUE

\* The walk without its end.
ScopedAnywhere(table, session) == Candidates(table)

\* _belongs_to_session, and the same walk of the query
Scoped(table, session) ==
  {x \in Candidates(table) : session \in Lineage(table, x)}

\* What the query prints: the lines of descent of the session's candidates and
\* of the hook; the other candidates are only counted.
Printed(table, hook) ==
  LET shown == UNION {Lineage(table, x) :
                        x \in Scoped(table, NearestCodex(table, hook)) \cup {hook}}
  IN  [x \in Pids |-> IF x \in shown THEN table[x] ELSE None]

Dates(table, xs) == {table[x].created : x \in xs} \ {None}

\* What select_reap_decision spares of the session's candidates.
Protected(table, scoped) ==
  {x \in scoped : \/ Dates(table, scoped) = {}
                  \/ table[x].created = None
                  \/ table[x].created <= Min(Dates(table, scoped)) + PROTECTION_WINDOW}

\* _termination_roots
TreeRoots(table, targets) ==
  {x \in targets : (Lineage(table, x) \ {x}) \cap targets = {}}

\* select_reap_decision: whose trees are to be ended.
TerminationPids(table, hook) ==
  LET session == NearestCodex(table, hook)
      scoped == Scoped(table, session)
  IN  IF session = None THEN {} ELSE TreeRoots(table, scoped \ Protected(table, scoped))

\* What `taskkill /T` reaches.
Trees(table, roots) == {x \in Live(table) : Lineage(table, x) \cap roots # {}}

-----------------------------------------------------------------------------
Born == {x \in Pids : x <= Hook} \ Codexes

\* Which session started a process, by whom each was started.
Started(by) ==
  LET own[x \in 1..Hook] == IF x \in Codexes THEN x ELSE own[by[x]]
  IN  own

Parents == {by \in [Born -> 1..Hook - 1] : \A x \in Born : by[x] < x}
Times == {at \in [Born -> 0..MaxTime] :
            at[Hook] = MaxTime /\ \A x, y \in Born : x < y => at[x] <= at[y]}

\* Every table that starts and exits have led to when the hook is started.
Init ==
  /\ \E servers \in SUBSET (Born \ {Hook}), alive \in SUBSET (Born \ {Hook}) :
     \E undated \in SUBSET servers, by \in Parents, at \in Times :
       /\ procs = [x \in Pids |->
            IF x \in Codexes
              THEN [kind |-> "codex", parent |-> None, created |-> 0, own |-> x]
            ELSE IF x \in alive \cup {Hook}
              THEN [kind |-> IF x = Hook THEN "hook"
                             ELSE IF x \in servers THEN "candidate" ELSE "other",
                    parent |-> by[x], own |-> Started(by)[x],
                    created |-> IF x \in undated THEN None ELSE at[x]]
            ELSE None]
       /\ \A x \in Lineage(procs, Hook) : procs[x].kind # "candidate"
  /\ seen = None
  /\ changes = 0

\* snapshot_processes; without an answer in time the hook exits.
Snapshot ==
  /\ procs[Hook] # None /\ seen = None
  /\ seen' = procs
  /\ UNCHANGED <<procs, changes>>

Change ==
  /\ procs[Hook] # None /\ seen # None /\ changes < MaxChanges
  /\ changes' = changes + 1
  /\ UNCHANGED seen

Start(parent, kind) ==
  /\ Change
  /\ Hook + changes + 1 \in Pids
  /\ procs[parent] # None /\ parent # Hook
  /\ procs' = [procs EXCEPT ![Hook + changes + 1] =
       [kind |-> kind, parent |-> parent, created |-> MaxTime, own |-> procs[parent].own]]

Exit(x) ==
  /\ Change
  /\ procs[x] # None
  /\ procs' = [procs EXCEPT ![x] = None]

\* What the hook decides by what is printed to it.
Decided == TerminationPids(Printed(seen, Hook), Hook)

\* run_reaper goes on: terminate_process_trees, of which some may fail; then
\* the hook is done.
Terminate ==
  /\ procs[Hook] # None /\ seen # None
  /\ \E ended \in SUBSET Decided :
       LET gone == Trees(procs, ended) \cup {Hook}
       IN  procs' = [x \in Pids |-> IF x \in gone THEN None ELSE procs[x]]
  /\ UNCHANGED <<seen, changes>>

Next ==
  \/ Snapshot
  \/ \E parent \in Pids, kind \in {"candidate", "other"} : Start(parent, kind)
  \/ \E x \in Pids : Exit(x)
  \/ Terminate

Spec == Init /\ [][Next]_reaperVars

-----------------------------------------------------------------------------
ReaperTypeOK ==
  /\ procs \in [Pids -> Process \cup {None}]
  /\ seen # None => seen \in [Pids -> Process \cup {None}]
  /\ changes \in 0..MaxChanges

\* In the table the hook has read, the left-over tool servers of its session:
\* those created later than the window after the session's first.
Ours == {x \in Candidates(seen) : seen[x].own = seen[Hook].own}
LeftOver ==
  {x \in Ours : /\ seen[x].created # None
                /\ seen[x].created > Min(Dates(seen, Ours)) + PROTECTION_WINDOW}

EndsOnlyLeftOvers ==
  \A x \in Live(procs) \ {Hook} : procs'[x] = None =>
    /\ procs[x].own = procs[Hook].own
    /\ Lineage(procs, x) \cap LeftOver # {}
    /\ x \in Ours /\ seen[x].created # None => x \in LeftOver

ReachesLeftOvers ==
  seen # None /\ seen[seen[Hook].own] # None /\ seen[Hook].own \in Lineage(seen, Hook) =>
    {x \in LeftOver : \A y \in Ours : seen[Hook].own \in Lineage(seen, y)}
      \subseteq Trees(seen, Decided)

\* The hook ends only left-over tool servers of its own session and what runs
\* below them: nothing of another session, none that is known to have been
\* created within the window, whatever has started or exited since it read
\* the table.  And every left-over one is among what it asks to be ended, as
\* long as the session's servers still descend from it, although it decides
\* by a part of the table (select_reap_decision, snapshot_processes).
ReapsLeftOvers ==
  [][changes' = changes => EndsOnlyLeftOvers /\ ReachesLeftOvers]_reaperVars
=============================================================================
