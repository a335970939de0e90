----------------------------- MODULE LedgerFile -----------------------------
(***************************************************************************)
(* The file ledger.json itself: core/ledger.py reads, saves and moves it   *)
(* aside, core/ledger_migration.py converts version 1 with an archive,     *)
(* core/ledger_maintenance.py rewrites it.  A transaction holds the ledger *)
(* lock from its read to its save; readers, the check whether to migrate   *)
(* and maintenance do not.  Files are replaced whole (atomic_write_text);  *)
(* only the world outside damages one.                                     *)
(***************************************************************************)
EXTENDS Naturals, FiniteSets, Nothing

CONSTANTS
  Hooks,
  Events,
  Archived,     \* may the project have a ledger.v1.json.bak already?
  Supervised,   \* is maintenance run while no hook is at work?
  MaxTears,     \* bound: damages from outside
  MaxFailures   \* bound: failed saves and deaths

FileAssumption ==
  /\ None \notin Hooks \cup [version : {1, 2}, events : SUBSET Events, whole : BOOLEAN]
  /\ Archived \in BOOLEAN /\ Supervised \in BOOLEAN
  /\ MaxTears \in Nat /\ MaxFailures \in Nat

VARIABLES
  file,     \* ledger.json
  asides,   \* ledger.json.corrupt-*.bak, .maintenance-*.bak
  archive,  \* ledger.v1.json.bak
  holder,   \* of the ledger lock
  hook,     \* where a hook is, its event, the ledger in its memory, its cache
  upkeep,   \* what `smtw maintenance apply` has read, or None
  saved,    \* history: the events whose save was reported
  tears, failures

fileVars == <<file, asides, archive, holder, hook, upkeep, saved, tears, failures>>

LedgerRecord == [version : {1, 2}, events : SUBSET Events, whole : {TRUE}]
Damaged == [version : {1, 2}, events : SUBSET Events, whole : {FALSE}]
New(v) == [version |-> v, events |-> {}, whole |-> TRUE]
Idle == [at |-> "idle", event |-> None, memory |-> None, cache |-> None]

HookState ==
  [at : {"idle", "convert", "publish", "load", "read", "aside", "lost?", "save"},
   event : Events \cup {None},
   memory : LedgerRecord \cup {None}, cache : LedgerRecord \cup {None}]

FileTypeOK ==
  /\ file \in LedgerRecord \cup Damaged \cup {None}
  /\ asides \subseteq LedgerRecord \cup Damaged
  /\ archive \in LedgerRecord \cup {None}
  /\ holder \in Hooks \cup {None}
  /\ hook \in [Hooks -> HookState]
  /\ upkeep \in LedgerRecord \cup {None}
  /\ saved \subseteq Events
  /\ tears \in 0 .. MaxTears /\ failures \in 0 .. MaxFailures

FileInit ==
  /\ file \in {None, New(1), New(2)}
  /\ archive \in {None} \cup (IF Archived /\ file = New(2) THEN {New(1)} ELSE {})
  /\ asides = {} /\ holder = None /\ upkeep = None
  /\ hook = [h \in Hooks |-> Idle]
  /\ saved = {} /\ tears = 0 /\ failures = 0

Whole(f) == f # None /\ f.whole
HookAt(h, at) == hook[h].at = at
Holds(h) == holder = h

\* ledger_transaction is free, and what an operator sees to.
Unlocked == holder = None /\ (Supervised => upkeep = None)

Done(h) == hook' = [hook EXCEPT ![h] = [Idle EXCEPT !.cache = hook[h].cache]]

-----------------------------------------------------------------------------
(* A hook.                                                                 *)

\* A hook with ledger_read_cache has read the ledger before.
Read(h) ==
  /\ HookAt(h, "idle") /\ Whole(file) /\ hook[h].cache = None
  /\ hook' = [hook EXCEPT ![h].cache = file]
  /\ UNCHANGED <<file, asides, archive, holder, upkeep, saved, tears, failures>>

\* load_ledger of a gate, outside the lock, finds a file it cannot parse.
ReadDamaged(h) ==
  /\ HookAt(h, "idle") /\ file # None /\ ~file.whole
  /\ hook' = [hook EXCEPT ![h].at = "lost?"]
  /\ UNCHANGED <<file, asides, archive, holder, upkeep, saved, tears, failures>>

\* _preserve_corrupt_ledger: whatever is there by now is moved aside.
MoveAside(h) ==
  /\ HookAt(h, "aside") \/ HookAt(h, "lost?")
  /\ asides' = asides \cup ({file} \ {None}) /\ file' = None
  /\ IF HookAt(h, "aside") THEN hook' = [hook EXCEPT ![h].at = "save"] ELSE Done(h)
  /\ UNCHANGED <<archive, holder, upkeep, saved, tears, failures>>

\* record_event, up to _legacy_ledger_exists.
BeginEvent(h, e) ==
  /\ HookAt(h, "idle") /\ e \notin saved /\ \A g \in Hooks : hook[g].event # e
  /\ hook' = [hook EXCEPT ![h].event = e,
       ![h].at = IF Whole(file) /\ file.version = 1 THEN "convert" ELSE "load"]
  /\ UNCHANGED <<file, asides, archive, holder, upkeep, saved, tears, failures>>

\* _preserve_archive: an archive that exists must be this ledger's.
Convertible(f) == Whole(f) /\ (f.version = 2 \/ archive \in {None, f})

\* migrate_v1_ledger, under the lock: if the ledger or its archive is not
\* what it should be, the event is dropped; if it is version 2 already, the
\* hook goes on.
Convert(h) ==
  /\ HookAt(h, "convert") /\ Unlocked
  /\ \/ /\ ~Convertible(file)
        /\ Done(h) /\ UNCHANGED <<archive, holder>>
     \/ /\ Convertible(file) /\ file.version = 2
        /\ hook' = [hook EXCEPT ![h].at = "load"] /\ UNCHANGED <<archive, holder>>
     \/ /\ Convertible(file) /\ file.version = 1
        /\ hook' = [hook EXCEPT ![h].at = "publish", ![h].memory = file]
        /\ archive' = file /\ holder' = h
  /\ UNCHANGED <<file, asides, upkeep, saved, tears, failures>>

\* The converted ledger replaces the old one.
PublishConverted(h) ==
  /\ HookAt(h, "publish")
  /\ file' = [hook[h].memory EXCEPT !.version = 2]
  /\ hook' = [hook EXCEPT ![h].at = "load", ![h].memory = None] /\ holder' = None
  /\ UNCHANGED <<asides, archive, upkeep, saved, tears, failures>>

\* Variant: the cache is good however the file has changed.
FreshAlways(h) == hook[h].cache # None

\* _ledger_fingerprint: size and mtime tell every other content.
Fresh(h) == hook[h].cache # None /\ hook[h].cache = file

\* The transaction asks whether there is a file (existed_before_load): without
\* one the ledger will be a new one of version 2.
Look(h) ==
  /\ HookAt(h, "load") /\ Unlocked /\ holder' = h
  /\ hook' = [hook EXCEPT ![h].at = "read", ![h].memory = IF file = None THEN New(2) ELSE None]
  /\ UNCHANGED <<file, asides, archive, upkeep, saved, tears, failures>>

\* load_ledger: a file that is damaged, or gone by now, is a ledger of version
\* 1; the damaged one is moved aside.
Loaded(h) ==
  IF Fresh(h) THEN hook[h].cache ELSE IF Whole(file) THEN file ELSE New(1)

Load(h) ==
  /\ HookAt(h, "read")
  /\ hook' = [hook EXCEPT
       ![h].at = IF ~Fresh(h) /\ file # None /\ ~file.whole THEN "aside" ELSE "save",
       ![h].memory = IF @ = None THEN Loaded(h) ELSE @]
  /\ UNCHANGED <<file, asides, archive, holder, upkeep, saved, tears, failures>>

\* save_ledger.
Save(h) ==
  /\ HookAt(h, "save")
  /\ file' = [hook[h].memory EXCEPT !.events = @ \cup {hook[h].event}]
  /\ saved' = saved \cup {hook[h].event}
  /\ hook' = [hook EXCEPT ![h] = Idle] /\ holder' = None
  /\ UNCHANGED <<asides, archive, upkeep, tears, failures>>

\* The save fails; the hook goes on without it.
SaveFails(h) ==
  /\ HookAt(h, "save") /\ failures < MaxFailures /\ failures' = failures + 1
  /\ hook' = [hook EXCEPT ![h] = Idle] /\ holder' = None
  /\ UNCHANGED <<file, asides, archive, upkeep, saved, tears>>

\* The converted ledger cannot be written, or reads back wrong: it is put
\* aside and the archive's bytes restored.
PublishFails(h) ==
  /\ HookAt(h, "publish") /\ failures < MaxFailures /\ failures' = failures + 1
  /\ file' = archive
  /\ hook' = [hook EXCEPT ![h] = Idle] /\ holder' = None
  /\ UNCHANGED <<asides, archive, upkeep, saved, tears>>

HookDies(h) ==
  /\ ~HookAt(h, "idle") /\ failures < MaxFailures /\ failures' = failures + 1
  /\ hook' = [hook EXCEPT ![h] = Idle]
  /\ holder' = IF Holds(h) THEN None ELSE holder
  /\ UNCHANGED <<file, asides, archive, upkeep, saved, tears>>

-----------------------------------------------------------------------------
(* Maintenance and the world.                                              *)

\* apply_maintenance_plan reads, compares the digest with the plan's, ...
Upkeep ==
  /\ upkeep = None /\ Whole(file) /\ file.version = 2 /\ upkeep' = file
  /\ Supervised => \A h \in Hooks : HookAt(h, "idle")
  /\ UNCHANGED <<file, asides, archive, holder, hook, saved, tears, failures>>

\* ... backs up what it read and writes it back with fewer turns.
UpkeepWrites ==
  /\ upkeep # None /\ upkeep' = None
  /\ file' = upkeep /\ asides' = asides \cup {upkeep}
  /\ UNCHANGED <<archive, holder, hook, saved, tears, failures>>

Tear ==
  /\ Whole(file) /\ tears < MaxTears /\ tears' = tears + 1
  /\ Supervised => upkeep = None
  /\ file' = [file EXCEPT !.whole = FALSE]
  /\ UNCHANGED <<asides, archive, holder, hook, upkeep, saved, failures>>

FileNext ==
  \/ \E h \in Hooks :
       \/ Read(h) \/ ReadDamaged(h) \/ MoveAside(h)
       \/ \E e \in Events : BeginEvent(h, e)
       \/ Convert(h) \/ PublishConverted(h) \/ Look(h) \/ Load(h) \/ Save(h)
       \/ SaveFails(h) \/ PublishFails(h) \/ HookDies(h)
  \/ Upkeep \/ UpkeepWrites \/ Tear

FileSpec == FileInit /\ [][FileNext]_fileVars

-----------------------------------------------------------------------------
(* Properties.                                                             *)

Places == asides \cup ({file, archive} \ {None})

\* An event whose save was reported is in the ledger while nobody damages it
\* from outside; after that it is in the ledger or in a copy that was kept.
SavedSurvives ==
  /\ saved \subseteq UNION {f.events : f \in Places}
  /\ tears = 0 /\ saved # {} => file # None /\ saved \subseteq file.events

\* Nothing will ever be recorded again: a ledger of version 1 whose archive
\* is another ledger's cannot be converted, and no event is taken before it.
Stuck == Whole(file) /\ file.version = 1 /\ archive \notin {None, file}

\* "ledger is corrupt; supervision is continuing": whatever was damaged, the
\* ledger takes events again.
DamageIsRecovered == holder = None => ~Stuck
=============================================================================
