--------------------------- MODULE DestructiveGate ---------------------------
(***************************************************************************)
(* Rule R2: an agent's destructive shell command is let through only if it *)
(* undoes no work of another agent that is unverified or still under way   *)
(* (core/destructive_guard.py, _decide_r2).  The decision reads the index  *)
(* of PathAttribution and the calls of the other agents that are open; the *)
(* command is what GuardedCommand reads out of the text.                   *)
(***************************************************************************)
EXTENDS PathAttribution

CONSTANTS
  Targets,   \* what a command may name
  Place,     \* where the file system has it: its lexical and its physical
             \* key, and the paths below it
  Commands   \* bound: the commands that are judged, as sequences of
             \* [resolved, targets, within]

\* A key outside the project, of a state directory, of a link that leads
\* nowhere (canonicalize_project_path); any other is a path or a directory.
Outside == "outside"
State == "state"
Loop == "loop"

GuardAssumption ==
  /\ {Outside, State, Loop} \cap Paths = {}
  /\ \A t \in Targets : Place[t].below \subseteq Paths
  /\ \A c \in Commands : \A i \in DOMAIN c :
       c[i].resolved => c[i].targets \cup c[i].within \subseteq Targets

VARIABLES
  flight,   \* of each agent: the call that is open in the ledger, [path,
            \* expired], or None
  damaged   \* a ledger found unreadable was moved aside, or cannot be read

GuardTypeOK ==
  /\ AttributionTypeOK
  /\ damaged \in BOOLEAN
  /\ \A a \in Writers : flight[a] = None \/ flight[a] \in [path : Paths, expired : BOOLEAN]

-----------------------------------------------------------------------------
(* The decision.                                                           *)

\* open_peer_invocation_candidates.
InFlight(caller) ==
  {flight[a].path : a \in {b \in Writers \ {caller} : flight[b] # None /\ ~flight[b].expired}}

\* Variant: a path with an owner of the caller's is the caller's.
PeersOwnAlone(caller, p) ==
  /\ index[p] # None
  /\ Unsettled(index[p]) # {} /\ \A o \in ToSet(index[p].owners) : o.agent # caller

\* lookup_path_attribution and _owned_by_unsettled_peer.
PeersOwn(caller, p) ==
  index[p] # None /\ \E o \in Unsettled(index[p]) : o.agent # caller

Spared(caller, p) == ~PeersOwn(caller, p) /\ p \notin InFlight(caller)

\* One target: its physical key decides, unless it is outside the project.
TargetPasses(caller, t) ==
  LET key == Place[t].physical
  IN  /\ key \notin {Loop, State}
      /\ key \in Paths => Spared(caller, key)

\* What is removed with all that is below it.
TreePasses(caller, t) ==
  /\ Place[t].physical # Loop
  /\ Place[t].physical # Outside => \A p \in Place[t].below : Spared(caller, p)

\* _decide_r2.
Passes(caller, command) ==
  \/ command = <<>>
  \/ /\ ~damaged /\ ~full
     /\ \A i \in DOMAIN command :
          /\ command[i].resolved
          /\ \A t \in command[i].targets : Place[t].lexical # State /\ TargetPasses(caller, t)
          /\ \A t \in command[i].within : TreePasses(caller, t)

-----------------------------------------------------------------------------
(* Calls and commits.                                                      *)

\* PreTool: the call and the path it names are in the ledger before it runs
\* (_remember_invocation).  Any event of an agent closes the calls that are
\* open in its turn, also those still at work (_close_open_invocations).
Invoke(a, p) ==
  /\ ~damaged
  /\ flight' = [flight EXCEPT ![a] = [path |-> p, expired |-> FALSE]]
  /\ UNCHANGED <<attrVars, damaged>>

\* INVOCATION_LEASE is over.
Expire(a) ==
  /\ flight[a] # None /\ ~flight[a].expired
  /\ flight' = [flight EXCEPT ![a].expired = TRUE]
  /\ UNCHANGED <<attrVars, damaged>>

\* A hook of the agent commits a change: of a path its call has named, though
\* the call may have been closed in between, or of another.
Commit(a, p, d, tool, found) ==
  /\ ~damaged /\ Change(a, p, d, tool, found)
  /\ flight' = [flight EXCEPT ![a] = None]
  /\ UNCHANGED damaged

\* PostTool of a call that changed nothing, PreTool of one that names no path.
NoChange(a) ==
  /\ flight[a] # None
  /\ flight' = [flight EXCEPT ![a] = None]
  /\ UNCHANGED <<attrVars, damaged>>

Other(a) ==
  /\ ~damaged
  /\ NewPrompt(a) \/ Capture(a) \/ Verification(a)
  /\ flight' = [flight EXCEPT ![a] = None]
  /\ UNCHANGED damaged

\* The ledger is found unreadable and a new one begun; the copy that was put
\* aside tells so until a person removes it.  What happens after that is left
\* out: while the copy is there no destructive command passes.
Damage ==
  /\ ~damaged /\ damaged' = TRUE
  /\ index' = [p \in Paths |-> None] /\ full' = FALSE
  /\ UNCHANGED <<seq, disk, turn, covers, lastOwn, flight>>

GuardInit == AttributionInit /\ flight = [a \in Writers |-> None] /\ damaged = FALSE

GuardNext ==
  \/ Damage
  \/ \E a \in Writers :
       \/ Expire(a) \/ NoChange(a) \/ Other(a)
       \/ \E p \in Paths :
            \/ Invoke(a, p)
            \/ \E d \in Content, tool, found \in BOOLEAN : Commit(a, p, d, tool, found)

GuardSpec == GuardInit /\ [][GuardNext]_<<attrVars, flight, damaged>>

-----------------------------------------------------------------------------
(* Property.                                                               *)

\* The paths in the project that a command destroys, links followed.
Hit(command) ==
  UNION {{Place[t].physical : t \in command[i].targets}
           \cup UNION {Place[t].below : t \in {w \in command[i].within : Place[w].physical # Outside}}
           : i \in DOMAIN command}

\* A command is let through only if no path it destroys has a last change by
\* another agent that is unverified (and found room in the index), nor is
\* named by another agent's open call, unless a later event of that agent has
\* closed it (_close_open_invocations); none reaches a state directory.
AllowedSparesPeers ==
  OwnerIsName =>
    \A caller \in Writers, command \in Commands :
      command # <<>> /\ Passes(caller, command) =>
        /\ State \notin Hit(command)
        /\ \A p \in Hit(command) \cap Paths :
             /\ lastOwn[p] # None /\ lastOwn[p].agent # caller /\ ~lastOwn[p].uncounted =>
                  lastOwn[p].verified
             /\ \A a \in Writers \ {caller} :
                  flight[a] # None /\ flight[a].path = p => flight[a].expired
=============================================================================
