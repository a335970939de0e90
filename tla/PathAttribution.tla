-------------------------- MODULE PathAttribution --------------------------
(***************************************************************************)
(* Whose change is it?  The path_attribution index of the ledger           *)
(* (core/ledger_v2.py) holds for every path the last unsettled revision of *)
(* each agent that changed it with a tool call of its own; from it         *)
(* record_path_revisions (core/verification_covers.py) tells an agent's    *)
(* own change from a peer's, which its Stop does not ask for, and the      *)
(* guard of destructive commands whose work a command would undo.          *)
(*                                                                         *)
(* Every step is one event applied under the ledger lock.  Changes come in *)
(* the order of their commits (apply_v2_event drops older ones); each path *)
(* requires verification; the line of an older change may have left the    *)
(* window of the log that is searched for it, or never have been written.  *)
(***************************************************************************)
EXTENDS Naturals, Sequences, FiniteSets, SequencesExt, Picking, Nothing

CONSTANTS
  Writers,      \* the agents, host:session_id:agent
  Paths,
  Digests,      \* of contents; None for no file
  OwnerIsName,  \* does the event name its owner as it names its agent?
  MAX_ATTRIBUTION_PATHS, MAX_PATH_OWNERS,
  MaxSeq        \* bound: events

Content == Digests \cup {None}
Owner == [agent : Writers, seq : 1 .. MaxSeq, after : Digests, settled : BOOLEAN]
Revision == [after : Content, seq : 1 .. MaxSeq, attribution : {"self", "peer", "contended", "external"}]

Entry == [status : {"exclusive", "contended"}, overflow : BOOLEAN, owners : Seq(Owner)]

AttributionAssumption ==
  /\ None \notin Writers \cup Digests \cup Entry /\ OwnerIsName \in BOOLEAN
  /\ MAX_ATTRIBUTION_PATHS \in Nat \ {0} /\ MAX_PATH_OWNERS \in Nat \ {0}
  /\ MaxSeq \in Nat

VARIABLES
  seq,      \* event_seq
  disk,     \* what workspace-current holds of each path
  index,    \* path_attribution
  full,     \* attribution_capacity_exceeded
  turn,     \* of each agent: path_baselines, path_revisions, change_audit
  covers,   \* what a check in flight will have seen, or None
  lastOwn   \* history: who last changed a path itself, when, and if verified

attrVars == <<seq, disk, index, full, turn, covers, lastOwn>>

\* _validate_path_attribution: a ledger that breaks it is never saved again.
ValidEntry(e) ==
  /\ e \in Entry /\ Len(e.owners) \in 1 .. MAX_PATH_OWNERS
  /\ IsInjective([i \in DOMAIN e.owners |-> e.owners[i].agent])
  /\ e.overflow => e.status = "contended"

AttributionTypeOK ==
  /\ seq \in 0 .. MaxSeq /\ full \in BOOLEAN
  /\ disk \in [Paths -> Content]
  /\ \A p \in Paths : index[p] = None \/ ValidEntry(index[p])
  /\ Cardinality({p \in Paths : index[p] # None}) <= MAX_ATTRIBUTION_PATHS
  /\ \A a \in Writers, p \in Paths :
       LET t == turn[a]
       IN  /\ t.base[p] \in Content \cup {"unset"}
           /\ t.revs[p] = None \/ t.revs[p] \in Revision
           /\ t.audit \subseteq Paths
  /\ \A a \in Writers : covers[a] = None \/ covers[a].through \in 0 .. MaxSeq
  /\ \A p \in Paths : lastOwn[p] = None \/ lastOwn[p].agent \in Writers

FreshTurn == [base |-> [p \in Paths |-> "unset"], revs |-> [p \in Paths |-> None],
              audit |-> {}]

AttributionInit ==
  /\ seq = 0 /\ full = FALSE
  /\ disk = [p \in Paths |-> None]
  /\ index = [p \in Paths |-> None]
  /\ turn = [a \in Writers |-> FreshTurn]
  /\ covers = [a \in Writers |-> None]
  /\ lastOwn = [p \in Paths |-> None]

-----------------------------------------------------------------------------
(* The index.                                                              *)

Unsettled(e) == {o \in ToSet(e.owners) : ~o.settled}
Live(e) == e # None /\ Unsettled(e) # {}
LiveCount == Cardinality({p \in Paths : Live(index[p])})
Entries == {p \in Paths : index[p] # None}

\* Variant: a status that forgets the overflow.
RefreshForgets(e) ==
  [e EXCEPT !.status = IF Cardinality(Unsettled(e)) > 1
                       THEN "contended" ELSE "exclusive"]

\* _refresh_attribution_status.
Refresh(e) ==
  [e EXCEPT !.status = IF e.overflow \/ Cardinality(Unsettled(e)) > 1
                       THEN "contended" ELSE "exclusive"]

Others(e, a) == Picked(e.owners, {i \in DOMAIN e.owners : e.owners[i].agent # a})

\* No room for one more owner: all places are taken by unsettled revisions.
Overflows(e, a) ==
  /\ e # None /\ Len(Others(e, a)) = MAX_PATH_OWNERS
  /\ \A o \in ToSet(e.owners) : ~o.settled

\* The owners beside the new one; the longest settled makes room for it.
Kept(e, a) ==
  LET others == Others(e, a)
      settled == {i \in DOMAIN others : others[i].settled}
      oldest == CHOOSE i \in settled : \A j \in settled : others[i].seq <= others[j].seq
  IN  IF Len(others) < MAX_PATH_OWNERS THEN others
      ELSE Picked(others, DOMAIN others \ {oldest})

\* _record_owner.
RecordOwner(e, a, d) ==
  IF Overflows(e, a)
  THEN [e EXCEPT !.status = "contended", !.overflow = TRUE]
  ELSE LET others == [i \in DOMAIN Kept(e, a) |->
                       [Kept(e, a)[i] EXCEPT !.settled = @ \/ Kept(e, a)[i].after # d]]
       IN  Refresh([e EXCEPT !.owners =
             Append(others, [agent |-> a, seq |-> seq + 1, after |-> d, settled |-> FALSE])])

NoOwners == [status |-> "exclusive", overflow |-> FALSE, owners |-> <<>>]

\* An entry that may be dropped for another path: all settled.
Ageable(q) == ~Live(index[q])

\* _record_path_attribution for one path: the set of what may come of it
\* (which settled entry is dropped depends on the order of a dictionary).
RecordAttribution(a, p, d) ==
  IF d = None THEN {[index |-> [index EXCEPT ![p] = None], full |-> full]}
  ELSE IF ~Live(index[p]) /\ LiveCount >= MAX_ATTRIBUTION_PATHS
  THEN {[index |-> index, full |-> TRUE]}
  ELSE IF index[p] # None
  THEN {[index |-> [index EXCEPT ![p] = RecordOwner(@, a, d)], full |-> full]}
  ELSE LET new == RecordOwner(NoOwners, a, d)
       IN  IF Cardinality(Entries) < MAX_ATTRIBUTION_PATHS
           THEN {[index |-> [index EXCEPT ![p] = new], full |-> full]}
           ELSE {[index |-> [index EXCEPT ![p] = new, ![q] = None], full |-> full] :
                   q \in {r \in Entries : Ageable(r)}}

\* The revisions a check settles (_settle_verified_attribution).
Settles(o, a, p) ==
  /\ o.agent = a /\ covers[a].revs[p] # None /\ covers[a].revs[p].after = o.after
  /\ o.seq <= covers[a].through

Settled(e, a, p) ==
  LET owners == [i \in DOMAIN e.owners |->
                  [e.owners[i] EXCEPT !.settled = @ \/ Settles(e.owners[i], a, p)]]
  IN  IF owners = e.owners THEN e ELSE Refresh([e EXCEPT !.owners = owners])

-----------------------------------------------------------------------------
(* The revisions of a turn.                                                *)

\* _turn_has_self_history.
SelfHistory(a, p) ==
  \/ turn[a].revs[p] # None /\ turn[a].revs[p].attribution \in {"self", "contended"}
  \/ p \in turn[a].audit

\* Is the event's owner the event's agent?  Adapters write the key
\* host:session_id:agent there and the plain name here.
Own(tool) == tool /\ OwnerIsName

\* _revision_attribution, after the index has the event; found: is the line
\* of the peer's change in its log (_peer_change_event_matches)?
Attribution(a, p, d, own, found) ==
  IF own THEN "self"
  ELSE IF d = None \/ full \/ index[p] = None THEN "external"
  ELSE IF index[p].status = "contended" THEN "contended"
  ELSE IF SelfHistory(a, p) THEN "external"
  ELSE IF found /\ \E o \in ToSet(index[p].owners) : o.agent # a /\ o.after = d
  THEN "peer" ELSE "external"

\* record_path_revisions for one path.
Revised(a, p, d, how) ==
  LET t == turn[a]
      base == IF t.base[p] = "unset" THEN disk[p] ELSE t.base[p]
  IN  [base |-> [t.base EXCEPT ![p] = base],
       revs |-> [t.revs EXCEPT ![p] =
                   IF d = base THEN None
                   ELSE [after |-> d, seq |-> seq + 1, attribution |-> how]],
       audit |-> IF how \in {"self", "contended"} THEN t.audit \cup {p} ELSE t.audit]

-----------------------------------------------------------------------------
(* Events.                                                                 *)

NewPrompt(a) ==
  /\ seq < MaxSeq /\ seq' = seq + 1
  /\ turn' = [turn EXCEPT ![a] = FreshTurn] /\ covers' = [covers EXCEPT ![a] = None]
  /\ UNCHANGED <<disk, index, full, lastOwn>>

\* A committed change of path p, seen by a hook of agent a: made by the tool
\* call the hook belongs to (the path is one of its candidates) or not.  A
\* change of the agent's own is "self" whatever the index says.
Change(a, p, d, tool, found) ==
  /\ seq < MaxSeq /\ d # disk[p] /\ seq' = seq + 1
  /\ disk' = [disk EXCEPT ![p] = d]
  /\ \E r \in IF Own(tool) THEN RecordAttribution(a, p, d)
              ELSE {[index |-> index, full |-> full]} :
       /\ index' = r.index /\ full' = r.full
       /\ turn' = [turn EXCEPT ![a] =
            Revised(a, p, d, Attribution(a, p, d, Own(tool), found))]
  /\ lastOwn' = IF ~tool THEN lastOwn
                ELSE [lastOwn EXCEPT ![p] =
                  IF d = None THEN None
                  ELSE [agent |-> a, seq |-> seq + 1, verified |-> FALSE,
                        uncounted |-> Overflows(index[p], a)]]
  /\ UNCHANGED covers

\* PreTool of a check: capture_covers takes the pending revisions.
Capture(a) ==
  /\ covers[a] = None
  /\ covers' = [covers EXCEPT ![a] =
       [through |-> seq,
        revs |-> [p \in Paths |->
          IF turn[a].revs[p] # None /\ turn[a].revs[p].attribution # "peer"
          THEN turn[a].revs[p] ELSE None]]]
  /\ UNCHANGED <<seq, disk, index, full, turn, lastOwn>>

\* PostTool of a check that succeeded; one that failed settles nothing.
Verification(a) ==
  /\ seq < MaxSeq /\ covers[a] # None /\ seq' = seq + 1
  /\ index' = [p \in Paths |->
       IF index[p] = None THEN None ELSE Settled(index[p], a, p)]
  /\ covers' = [covers EXCEPT ![a] = None]
  /\ lastOwn' = [p \in Paths |->
       IF lastOwn[p] # None /\ lastOwn[p].agent = a /\ lastOwn[p].seq <= covers[a].through
          /\ covers[a].revs[p] # None
       THEN [lastOwn[p] EXCEPT !.verified = TRUE] ELSE lastOwn[p]]
  /\ UNCHANGED <<disk, full, turn>>

AttributionNext ==
  \E a \in Writers :
    \/ NewPrompt(a) \/ Capture(a) \/ Verification(a)
    \/ \E p \in Paths, d \in Content, tool, found \in BOOLEAN : Change(a, p, d, tool, found)

AttributionSpec == AttributionInit /\ [][AttributionNext]_attrVars

-----------------------------------------------------------------------------
(* Properties.                                                             *)

\* "self: the change of a recorded tool call of my turn": an agent's own last
\* change of a path is its own in its turn (_revision_attribution).
OwnIsSelf ==
  \A p \in Paths :
    lastOwn[p] # None =>
      LET r == turn[lastOwn[p].agent].revs[p]
      IN  r # None /\ r.seq = lastOwn[p].seq => r.attribution = "self"
=============================================================================
