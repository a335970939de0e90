---------------------------- MODULE StatusArchive ----------------------------
(***************************************************************************)
(* `smtw migrate --invocation-statuses`, core/ledger_migration.py: a       *)
(* ledger with invocations that carry no status is archived under its      *)
(* digest, the archive is entered in an index that is checked in full      *)
(* whenever it is read, old archives are evicted, and the converted ledger *)
(* replaces the old one or, if it cannot be read back, the old one is      *)
(* restored.  All of it under the ledger lock, one file at a time; the     *)
(* process may die, or a write may raise, between any two of them.         *)
(***************************************************************************)
EXTENDS Naturals, Sequences, FiniteSets, SequencesExt, Nothing

CONSTANTS
  Sources,    \* ledgers to convert, by digest
  Size,       \* bytes of each
  INVOCATION_STATUS_ARCHIVE_MAX_COUNT, INVOCATION_STATUS_ARCHIVE_MAX_BYTES,
  MaxStumbles   \* bound: deaths, failed writes and failed removals

ArchiveAssumption ==
  /\ None \notin Sources /\ "converted" \notin Sources
  /\ Size \in [Sources -> Nat]
  /\ INVOCATION_STATUS_ARCHIVE_MAX_COUNT \in Nat \ {0}
  /\ INVOCATION_STATUS_ARCHIVE_MAX_BYTES \in Nat /\ MaxStumbles \in Nat

VARIABLES
  contents,  \* of ledger.json: a source, "converted", or None
  archives,  \* ledger.v2-status.<digest>.bak files, by digest
  indexed,   \* the index, by created_at
  at,        \* where the migration is
  source,    \* what it has read
  victims,   \* what it is about to unlink
  stumbles

archiveVars == <<contents, archives, indexed, at, source, victims, stumbles>>

ArchiveTypeOK ==
  /\ contents \in Sources \cup {"converted", None}
  /\ archives \subseteq Sources /\ victims \subseteq Sources
  /\ indexed \in Seq(Sources) /\ IsInjective(indexed)
  /\ at \in {"idle", "copy", "enter", "scan", "evict", "unlink", "write", "restore"}
  /\ source \in Sources \cup {None}
  /\ stumbles \in 0 .. MaxStumbles

ArchiveInit ==
  /\ contents = "converted" /\ archives = {} /\ indexed = <<>>
  /\ at = "idle" /\ source = None /\ victims = {} /\ stumbles = 0

\* A hook of an older version has written invocations without a status, or
\* the user has put an old ledger back.
OldHook ==
  /\ at = "idle" /\ contents' \in Sources
  /\ UNCHANGED <<archives, indexed, at, source, victims, stumbles>>

\* _validated_archive_entry: an index that names a missing archive is refused.
Backed == ToSet(indexed) \subseteq archives

BeginConversion ==
  /\ at = "idle" /\ contents \in Sources /\ Backed
  /\ source' = contents /\ at' = "copy"
  /\ UNCHANGED <<contents, archives, indexed, victims, stumbles>>

\* _preserve_archive.
CopyLedger ==
  /\ at = "copy" /\ at' = "enter"
  /\ archives' = archives \cup {source}
  /\ UNCHANGED <<contents, indexed, source, victims, stumbles>>

\* A source that was archived before keeps its place and its date.
EnterIndex ==
  /\ at = "enter" /\ at' = "scan"
  /\ indexed' = IF Contains(indexed, source) THEN indexed ELSE Append(indexed, source)
  /\ UNCHANGED <<contents, archives, source, victims, stumbles>>

Orphans == archives \ ToSet(indexed)

\* The retention looks for archives the index does not name and removes
\* them; one that cannot be removed is left to the next migration.
Scan ==
  /\ at = "scan" /\ at' = "evict"
  /\ \/ archives' = archives \ Orphans /\ UNCHANGED stumbles
     \/ /\ stumbles < MaxStumbles /\ stumbles' = stumbles + 1
        /\ \E o \in Orphans : archives' = archives \ (Orphans \ {o})
  /\ UNCHANGED <<contents, indexed, source, victims>>

Bytes(s) == FoldLeft(LAMBDA n, d : n + Size[d], 0, s)

Fits(s) ==
  /\ Len(s) <= INVOCATION_STATUS_ARCHIVE_MAX_COUNT
  /\ Bytes(s) <= INVOCATION_STATUS_ARCHIVE_MAX_BYTES

\* Variant: the oldest archive goes, whichever it is.
WithoutAny(s, n) == SubSeq(s, n + 1, Len(s))

\* What is left when the n oldest are gone but the one just made, which stays.
Without(s, n) ==
  IF source \in ToSet(SubSeq(s, 1, n))
  THEN <<source>> \o SubSeq(s, n + 2, Len(s)) ELSE SubSeq(s, n + 1, Len(s))

\* The least number that makes the rest fit, or all that may go.
HaveToGo(n) ==
  /\ Fits(Without(indexed, n)) \/ n = Len(indexed) - 1
  /\ \A m \in 0 .. n - 1 : ~Fits(Without(indexed, m))

\* The index is rewritten before an archive is removed.
Retain ==
  /\ at = "evict"
  /\ \E n \in 0 .. Len(indexed) - 1 : HaveToGo(n) /\ indexed' = Without(indexed, n)
  /\ victims' = ToSet(indexed) \ ToSet(indexed')
  /\ at' = IF victims' = {} THEN "write" ELSE "unlink"
  /\ UNCHANGED <<contents, archives, source, stumbles>>

\* A file that cannot be removed is an orphan now.
Unlink(d) ==
  /\ at = "unlink" /\ d \in victims /\ victims' = victims \ {d}
  /\ \/ archives' = archives \ {d} /\ UNCHANGED stumbles
     \/ stumbles < MaxStumbles /\ stumbles' = stumbles + 1 /\ UNCHANGED archives
  /\ at' = IF victims' = {} THEN "write" ELSE "unlink"
  /\ UNCHANGED <<contents, indexed, source>>

End == at' = "idle" /\ source' = None /\ victims' = {}

WriteConverted ==
  /\ at = "write" /\ contents' = "converted" /\ End
  /\ UNCHANGED <<archives, indexed, stumbles>>

\* What was written does not read back: _isolate_failed ...
Isolate ==
  /\ at = "write" /\ stumbles < MaxStumbles /\ stumbles' = stumbles + 1
  /\ contents' = None /\ at' = "restore"
  /\ UNCHANGED <<archives, indexed, source, victims>>

\* ... and _restore_archive.
Restore ==
  /\ at = "restore" /\ contents' = source /\ End
  /\ UNCHANGED <<archives, indexed, stumbles>>

ConverterDies ==
  /\ at # "idle" /\ stumbles < MaxStumbles /\ stumbles' = stumbles + 1 /\ End
  /\ UNCHANGED <<contents, archives, indexed>>

ArchiveNext ==
  \/ OldHook \/ BeginConversion \/ CopyLedger \/ EnterIndex \/ Scan \/ Retain
  \/ \E d \in Sources : Unlink(d)
  \/ WriteConverted \/ Isolate \/ Restore \/ ConverterDies

ArchiveSpec == ArchiveInit /\ [][ArchiveNext]_archiveVars

-----------------------------------------------------------------------------
(* Properties.                                                             *)

\* However a migration ends, the index names no archive that is gone (no
\* later migration could read it), and while a ledger is being replaced its
\* archive is on the disk and in the index, although the limits may have
\* asked for its place.
ArchivesHold ==
  /\ ToSet(indexed) \subseteq archives
  /\ at \in {"unlink", "write", "restore"} => Contains(indexed, source)
=============================================================================
