--------------------------- MODULE QuarantineStore ---------------------------
(***************************************************************************)
(* The local store that keeps the text of a blocked command                *)
(* (core/quarantine.py): one file for each command, written by the hook    *)
(* that blocks it while it holds the layout barrier, limited in number,    *)
(* bytes and age; afterwards the hook reads the file again and tells the   *)
(* agent whether the whole text was kept.  Hooks crash, writes and unlinks *)
(* fail, files are damaged by others, and a person may clear the store.    *)
(***************************************************************************)
EXTENDS Naturals, FiniteSets, FiniteSetsExt

CONSTANTS
  Hooks, None,
  MAX_ENTRIES, MAX_ENTRY_BYTES, MAX_TOTAL_BYTES,
  Lengths,              \* of commands
  MaxSaves, MaxFaults   \* bounds: files that are begun, things that go wrong

StoreAssumption ==
  /\ None \notin Hooks /\ MAX_ENTRIES \in Nat /\ MAX_ENTRY_BYTES \in Nat \ {0}
  /\ MAX_TOTAL_BYTES \in Nat /\ Lengths \subseteq Nat \ {0}
  /\ MaxSaves \in Nat /\ MaxFaults \in Nat

VARIABLES
  entries,   \* the files, in the order they were begun; None: no such file
  holder,    \* the hook that holds the barrier, or None
  stage, mine,   \* where each hook is, and with which file
  notes,     \* what has been told of each file
  clock,     \* of the file system
  faults

storeVars == <<entries, holder, stage, mine, notes, clock, faults>>

Ids == 1 .. MaxSaves
Present == {i \in Ids : entries[i] # None}

\* A header may have been cut after its digest; a body may be cut, or be
\* another than was written.
Entry ==
  [original : Lengths, stored : Nat, header : {"none", "digest", "whole"},
   body : {"none", "part", "whole", "other"}, marked : BOOLEAN, old : BOOLEAN, at : Nat]

StoreTypeOK ==
  /\ \A i \in Present : entries[i] \in Entry
  /\ holder \in Hooks \cup {None}
  /\ \A h \in Hooks :
       /\ stage[h] \in {"idle", "reserved", "written", "swept", "saved"}
       /\ mine[h] \in Ids \cup {None}
       /\ stage[h] \in {"reserved", "written", "swept"} => holder = h
  /\ \A i \in Ids : notes[i] \subseteq {"complete", "partial", "unknown", "failed"}
  /\ faults \in 0 .. MaxFaults

Init ==
  /\ entries = [i \in Ids |-> None] /\ holder = None
  /\ stage = [h \in Hooks |-> "idle"] /\ mine = [h \in Hooks |-> None]
  /\ notes = [i \in Ids |-> {}] /\ clock = 0 /\ faults = 0

-----------------------------------------------------------------------------
(* One file.                                                               *)

\* _encode_record: the text is cut at the limit of an entry.
Stored(length) == Min({length, MAX_ENTRY_BYTES})
Truncated(e) == e.stored # e.original

\* _record_from_bytes.
Status(e) ==
  IF e.marked \/ (e.header # "none" /\ e.body # "whole") THEN "corrupt"
  ELSE IF e.header # "whole" THEN "unknown"
  ELSE IF Truncated(e) THEN "incomplete" ELSE "complete"

\* st_size: the header counts as well.
EntrySize(e) == (IF e.header = "whole" THEN 1 ELSE 0) + (IF e.body \in {"whole", "other"} THEN e.stored ELSE 0)

-----------------------------------------------------------------------------
(* Oldest first.                                                           *)

\* The files that go after i, by their time (st_mtime_ns).
Newer(live, i) == {j \in live : entries[j].at >= entries[i].at}

Bytes(ids) == MapThenSumSet(LAMBDA j : EntrySize(entries[j]), ids)

\* Variant: room is made for one file more.
DoomedEarly ==
  LET live == {i \in Present : ~entries[i].old}
      few == {i \in live : Cardinality(Newer(live, i)) < MAX_ENTRIES}
  IN  Present \ {i \in few : Bytes(Newer(few, i)) <= MAX_TOTAL_BYTES}

\* _gc: what it unlinks - by age, then by number, then by bytes.
Doomed ==
  LET live == {i \in Present : ~entries[i].old}
      few == {i \in live : Cardinality(Newer(live, i)) <= MAX_ENTRIES}
  IN  Present \ {i \in few : Bytes(Newer(few, i)) <= MAX_TOTAL_BYTES}

-----------------------------------------------------------------------------
(* A hook that has blocked a command.                                      *)

Fails == faults < MaxFaults /\ faults' = faults + 1
Works == UNCHANGED faults

Release(h) == holder' = None /\ stage' = [stage EXCEPT ![h] = "idle"] /\ mine' = [mine EXCEPT ![h] = None]

\* A hook that finds the barrier taken does not wait, and keeps nothing.
\* _reserve_destination: a file with a new name.
Reserve(h, length) ==
  /\ stage[h] = "idle" /\ holder = None
  /\ \E i \in Ids :
       /\ entries[i] = None /\ notes[i] = {} /\ \A j \in 1 .. (i - 1) : notes[j] # {}
       /\ entries' = [entries EXCEPT ![i] =
            [original |-> length, stored |-> Stored(length), header |-> "none", body |-> "none",
             marked |-> FALSE, old |-> FALSE, at |-> clock]]
       /\ mine' = [mine EXCEPT ![h] = i]
       /\ notes' = [notes EXCEPT ![i] = {"unknown"}]
  /\ holder' = h /\ stage' = [stage EXCEPT ![h] = "reserved"]
  /\ clock' = clock + 1 /\ Works

\* _write_all.
Write(h) ==
  /\ stage[h] = "reserved" /\ mine[h] \in Present
  /\ entries' = [entries EXCEPT ![mine[h]] = [@ EXCEPT !.header = "whole", !.body = "whole", !.at = clock]]
  /\ stage' = [stage EXCEPT ![h] = "written"]
  /\ clock' = clock + 1
  /\ UNCHANGED <<holder, mine, notes>> /\ Works

\* What a write that fails or is cut off leaves.
Fragments == {<<"none", "none">>, <<"digest", "none">>, <<"whole", "none">>, <<"whole", "part">>}

\* The write fails and the file is unlinked, if that does not fail as well.
WriteFails(h) ==
  /\ stage[h] = "reserved" /\ Fails
  /\ \/ entries' = [entries EXCEPT ![mine[h]] = None]
     \/ \E f \in Fragments :
          entries' = [entries EXCEPT ![mine[h]] = [@ EXCEPT !.header = f[1], !.body = f[2]]]
  /\ notes' = [notes EXCEPT ![mine[h]] = @ \cup {"failed"}]
  /\ Release(h)
  /\ UNCHANGED clock

\* _gc; an unlink that fails leaves its file.
Sweep(h) ==
  /\ stage[h] = "written"
  /\ \/ entries' = [i \in Ids |-> IF i \in Doomed THEN None ELSE entries[i]] /\ Works
     \/ /\ Fails
        /\ \E stuck \in Doomed :
             entries' = [i \in Ids |-> IF i \in Doomed \ {stuck} THEN None ELSE entries[i]]
  /\ stage' = [stage EXCEPT ![h] = "swept"]
  /\ UNCHANGED <<holder, mine, notes, clock>>

Intact(i) == i \in Present /\ entries[i].header = "whole" /\ entries[i].body = "whole"

\* _verify_destination.
Verify(h) ==
  /\ stage[h] = "swept" /\ Intact(mine[h])
  /\ holder' = None /\ stage' = [stage EXCEPT ![h] = "saved"]
  /\ UNCHANGED <<entries, mine, notes, clock>> /\ Works

\* It is not what was written: it is unlinked, or at least marked corrupt.
Reject(h) ==
  /\ stage[h] = "swept" /\ ~Intact(mine[h])
  /\ \/ entries' = [entries EXCEPT ![mine[h]] = None] /\ Works
     \/ /\ mine[h] \in Present /\ Fails
        /\ \E m \in BOOLEAN :
             entries' = [entries EXCEPT ![mine[h]] = [@ EXCEPT !.marked = m, !.at = IF m THEN clock ELSE @]]
  /\ notes' = [notes EXCEPT ![mine[h]] = @ \cup {"failed"}]
  /\ clock' = clock + 1
  /\ Release(h)

\* _quarantine_note: the file is read again, when the barrier is free.
Tell(h) ==
  /\ stage[h] = "saved"
  /\ LET i == mine[h]
         said == IF i \notin Present THEN "failed"
                 ELSE CASE Status(entries[i]) = "complete" -> "complete"
                        [] Truncated(entries[i]) -> "partial"
                        [] OTHER -> "unknown"
     IN  notes' = [notes EXCEPT ![i] = @ \cup {said}]
  /\ stage' = [stage EXCEPT ![h] = "idle"] /\ mine' = [mine EXCEPT ![h] = None]
  /\ UNCHANGED <<entries, holder, clock>> /\ Works

\* The hook is killed; the barrier of a dead process is taken over.
Crash(h) ==
  /\ stage[h] # "idle" /\ Fails
  /\ \/ UNCHANGED entries
     \/ /\ stage[h] = "reserved"
        /\ \E f \in Fragments :
             entries' = [entries EXCEPT ![mine[h]] = [@ EXCEPT !.header = f[1], !.body = f[2]]]
  /\ stage' = [stage EXCEPT ![h] = "idle"] /\ mine' = [mine EXCEPT ![h] = None]
  /\ holder' = IF holder = h THEN None ELSE holder
  /\ UNCHANGED <<notes, clock>>

\* clear_entries, by a person.
Clear ==
  /\ holder = None
  /\ \/ entries' = [i \in Ids |-> None]
     \/ \E i \in Present : entries' = [entries EXCEPT ![i] = None]
  /\ entries' # entries
  /\ UNCHANGED <<holder, stage, mine, notes, clock>> /\ Works

\* Another program damages the text of a file; TTL_SECONDS go by.
Spoil ==
  /\ Fails
  /\ \E i \in Present, b \in {"part", "other"} :
       /\ entries[i].body = "whole"
       /\ entries' = [entries EXCEPT ![i].body = b]
  /\ UNCHANGED <<holder, stage, mine, notes, clock>>

Age ==
  /\ \E i \in Present :
       /\ ~entries[i].old /\ \A j \in Present : entries[j].at < entries[i].at => entries[j].old
       /\ entries' = [entries EXCEPT ![i].old = TRUE]
  /\ UNCHANGED <<holder, stage, mine, notes, clock>> /\ Works

Next ==
  \/ Clear \/ Spoil \/ Age
  \/ \E h \in Hooks :
       \/ Write(h) \/ WriteFails(h) \/ Sweep(h) \/ Verify(h) \/ Reject(h) \/ Tell(h) \/ Crash(h)
       \/ \E length \in Lengths : Reserve(h, length)

Spec == Init /\ [][Next]_storeVars

-----------------------------------------------------------------------------
(* Properties.                                                             *)

\* A text its agent was told is kept goes only when a person clears it, with
\* its age, or when it and those written after it are more than the limits
\* allow.
KeptUntilCrowded ==
  [][\A i \in Present :
       LET newer == {j \in Present : entries[j].at >= entries[i].at}
       IN  "complete" \in notes[i] /\ entries'[i] = None =>
             \/ holder = None
             \/ entries[i].old
             \/ Cardinality(newer) > MAX_ENTRIES \/ Bytes(newer) > MAX_TOTAL_BYTES]_storeVars
=============================================================================
