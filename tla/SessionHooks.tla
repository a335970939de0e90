---------------------------- MODULE SessionHooks ----------------------------
(***************************************************************************)
(* Which project does a Claude Code hook work in, and is it supervised?    *)
(* adapters/claude_code: bootstrap.py latches a session to a root in a     *)
(* registry record (session_registry.py) that every later hook reads,      *)
(* touches or rebuilds; user_prompt_submit.py remembers each prompt as     *)
(* quick or normal, and the first tool call of a quick one that is not     *)
(* known to be read-only opens its turn after all (promote_quick).         *)
(*                                                                         *)
(* Each record has a lock of its own; a hook reads, looks whether the lock *)
(* file is there, binds and loads its turn in separate steps.  A session   *)
(* ends once, no record is as old as its TTL, and every root is another    *)
(* than the home directory.                                                *)
(***************************************************************************)
EXTENDS Naturals, FiniteSets, Nothing

CONSTANTS
  Runs,            \* processes
  Roots,           \* directories
  Enabled,         \* the ones whose configuration opts in
  Orderly,         \* does the host send a prompt only when no tool call is in its hook?
  MaxPromptCount,  \* bound: prompts
  MaxMishaps       \* bound: damaged records, failed promotions and deaths

SessionAssumption ==
  /\ Enabled \subseteq Roots /\ None \notin Roots \cup Runs
  /\ "corrupt" \notin Roots \cup {None} /\ Orderly \in BOOLEAN
  /\ MaxPromptCount \in Nat /\ MaxMishaps \in Nat

VARIABLES
  record,       \* sessions/<digest>.json: a root, "corrupt", or None
  bound,        \* is its lock file there (registry_was_bound)?
  remembered,   \* turns/<digest>.json: the last prompt and its mode, or None
  claim,        \* the hook that promotes, holding the lock of the turn record
  frame,        \* a hook: where it is, what it was given and what it has read
  promptCount,  \* prompts so far
  opened,       \* how often the ledger was given a turn for each prompt
  ended,        \* SessionEnd has begun
  latch,        \* history: the root the session was bound to
  mishaps

sessionVars ==
  <<record, bound, remembered, claim, frame, promptCount, opened, ended, latch, mishaps>>

Prompts == 1 .. MaxPromptCount
Mode == {"quick", "normal"}
Free == [at |-> "idle", event |-> "tool", env |-> None, seen |-> None,
         was |-> FALSE, root |-> None, prompt |-> 0, mode |-> "normal"]

Frame ==
  [at : {"idle", "load", "was", "bind", "turn", "remember", "open", "claim",
         "promote", "persist", "run", "clean", "unlock", "forget"},
   event : {"prompt", "tool", "end"}, env : Roots \cup {None},
   seen : Roots \cup {"corrupt", None}, was : BOOLEAN, root : Roots \cup {None},
   prompt : 0 .. MaxPromptCount, mode : Mode]

SessionTypeOK ==
  /\ record \in Roots \cup {"corrupt", None} /\ bound \in BOOLEAN
  /\ remembered = None \/ remembered \in [prompt : Prompts, mode : Mode]
  /\ claim \in Runs \cup {None}
  /\ frame \in [Runs -> Frame]
  /\ promptCount \in 0 .. MaxPromptCount /\ opened \in [Prompts -> Nat]
  /\ ended \in BOOLEAN /\ latch \in Roots \cup {None} /\ mishaps \in 0 .. MaxMishaps

SessionInit ==
  /\ record = None /\ bound = FALSE /\ remembered = None /\ claim = None
  /\ frame = [h \in Runs |-> Free]
  /\ promptCount = 0 /\ opened = [n \in Prompts |-> 0]
  /\ ended = FALSE /\ latch = None /\ mishaps = 0

Doing(h, at) == frame[h].at = at
Proceeds(h, at) == frame' = [frame EXCEPT ![h].at = at]
Leaves(h) == frame' = [frame EXCEPT ![h] = Free]
Busy(ev) == \E h \in Runs : ~Doing(h, "idle") /\ frame[h].event = ev

-----------------------------------------------------------------------------
(* The root of a hook.                                                     *)

Start(h, event, env) ==
  /\ Doing(h, "idle") /\ ~ended
  /\ event = "prompt" => promptCount < MaxPromptCount
  /\ Orderly => ~Busy("prompt") /\ (event = "prompt" => ~Busy("tool"))
  /\ promptCount' = IF event = "prompt" THEN promptCount + 1 ELSE promptCount
  /\ ended' = (event = "end")
  /\ frame' = [frame EXCEPT ![h] = [Free EXCEPT !.at = "load", !.event = event,
                !.env = env, !.prompt = promptCount']]
  /\ UNCHANGED <<record, bound, remembered, claim, opened, latch, mishaps>>

\* load_session.
LoadSession(h) ==
  /\ Doing(h, "load")
  /\ frame' = [frame EXCEPT ![h].at = "was", ![h].seen = record]
  /\ UNCHANGED <<record, bound, remembered, claim, promptCount, opened, ended, latch, mishaps>>

\* registry_was_bound.
WasBound(h) ==
  /\ Doing(h, "was")
  /\ frame' = [frame EXCEPT ![h].at = "bind", ![h].was = bound]
  /\ UNCHANGED <<record, bound, remembered, claim, promptCount, opened, ended, latch, mishaps>>

\* Variant: whether the session was bound before is not asked.
RootCandidatesUnbound(h) ==
  IF frame[h].seen \in Roots THEN {frame[h].seen}
  ELSE IF frame[h].env # None THEN {frame[h].env}
  ELSE IF frame[h].event # "prompt" THEN {} ELSE Roots

\* The roots a hook may ask to be bound to: the one it has read; else what
\* the host names; else, for the first prompt of a session, the working
\* directory.
RootCandidates(h) ==
  IF frame[h].seen \in Roots THEN {frame[h].seen}
  ELSE IF frame[h].env # None THEN {frame[h].env}
  ELSE IF frame[h].was \/ frame[h].event # "prompt" THEN {} ELSE Roots

\* A record is trusted; a root that comes from elsewhere must have opted in.
Admitted(h, r) ==
  IF frame[h].seen = r THEN frame[h].env \in {None, r} \cup Enabled ELSE r \in Enabled

AfterBoot(h, go) ==
  IF frame[h].event = "end" THEN "clean" ELSE IF go THEN "turn" ELSE "idle"

\* bind_session writes once: a record that is there by now is only touched.
Bind(h, r) ==
  /\ Doing(h, "bind") /\ r \in RootCandidates(h) /\ Admitted(h, r)
  /\ record' = IF record \in Roots THEN record ELSE r
  /\ bound' = TRUE
  /\ latch' = IF record \in Roots \/ (latch # None /\ frame[h].env = None)
              THEN latch ELSE record'
  /\ frame' = [frame EXCEPT ![h].at = AfterBoot(h, TRUE),
                ![h].root = IF frame[h].env # None THEN frame[h].env ELSE record']
  /\ UNCHANGED <<remembered, claim, promptCount, opened, ended, mishaps>>

\* An inactive hook: no root, or none that has opted in.
Inactive(h) ==
  /\ Doing(h, "bind")
  /\ RootCandidates(h) = {} \/ \E r \in RootCandidates(h) : ~Admitted(h, r)
  /\ IF frame[h].event = "end" THEN Proceeds(h, "clean") ELSE Leaves(h)
  /\ UNCHANGED <<record, bound, remembered, claim, promptCount, opened, ended, latch, mishaps>>

-----------------------------------------------------------------------------
(* The turn of a hook.                                                     *)

\* load_turn.
LoadTurn(h) ==
  /\ Doing(h, "turn") /\ claim = None
  /\ LET mode == IF remembered = None THEN "normal" ELSE remembered.mode
     IN  IF frame[h].event = "prompt" THEN Proceeds(h, "remember")
         ELSE frame' = [frame EXCEPT ![h].mode = mode,
                ![h].prompt = IF remembered = None THEN 0 ELSE remembered.prompt,
                ![h].at = IF mode = "quick" THEN "claim" ELSE "run"]
  /\ UNCHANGED <<record, bound, remembered, claim, promptCount, opened, ended, latch, mishaps>>

\* remember_turn with the mode of the prompt.
RememberTurn(h, m) ==
  /\ Doing(h, "remember") /\ claim = None
  /\ remembered' = [prompt |-> frame[h].prompt, mode |-> m]
  /\ IF m = "quick" THEN Leaves(h) ELSE Proceeds(h, "open")
  /\ UNCHANGED <<record, bound, claim, promptCount, opened, ended, latch, mishaps>>

Opens(n) == opened' = IF n = 0 THEN opened ELSE [opened EXCEPT ![n] = @ + 1]

\* The prompt event of an ordinary turn.
OpenTurn(h) ==
  /\ Doing(h, "open") /\ Opens(frame[h].prompt) /\ Leaves(h)
  /\ UNCHANGED <<record, bound, remembered, claim, promptCount, ended, latch, mishaps>>

\* A call that only reads is let through.
ReadOnly(h) ==
  /\ Doing(h, "claim") /\ Leaves(h)
  /\ UNCHANGED <<record, bound, remembered, claim, promptCount, opened, ended, latch, mishaps>>

\* Variant: the mode it read before is good enough.
ClaimAtSight(h) ==
  /\ Doing(h, "claim") /\ claim = None /\ remembered # None
  /\ claim' = h /\ Proceeds(h, "promote")
  /\ UNCHANGED <<record, bound, remembered, promptCount, opened, ended, latch, mishaps>>

\* promote_quick: of the calls that saw a quick turn, one finds it so under
\* the lock.
Claim(h) ==
  /\ Doing(h, "claim") /\ claim = None
  /\ IF remembered # None /\ remembered.mode = "quick"
     THEN claim' = h /\ Proceeds(h, "promote")
     ELSE Proceeds(h, "run") /\ UNCHANGED claim
  /\ UNCHANGED <<record, bound, remembered, promptCount, opened, ended, latch, mishaps>>

\* _promote_project_turn opens the turn the hook has loaded.
Promote(h) ==
  /\ Doing(h, "promote") /\ Opens(frame[h].prompt) /\ Proceeds(h, "persist")
  /\ UNCHANGED <<record, bound, remembered, claim, promptCount, ended, latch, mishaps>>

\* It raises: the mode is written all the same, the call fails open.
PromoteFails(h) ==
  /\ Doing(h, "promote") /\ mishaps < MaxMishaps /\ mishaps' = mishaps + 1
  /\ Proceeds(h, "persist")
  /\ UNCHANGED <<record, bound, remembered, claim, promptCount, opened, ended, latch>>

Persist(h) ==
  /\ Doing(h, "persist")
  /\ remembered' = [remembered EXCEPT !.mode = "normal"] /\ claim' = None
  /\ Proceeds(h, "run")
  /\ UNCHANGED <<record, bound, promptCount, opened, ended, latch, mishaps>>

\* The mode cannot be written: the call is denied.
PersistFails(h) ==
  /\ Doing(h, "persist") /\ mishaps < MaxMishaps /\ mishaps' = mishaps + 1
  /\ claim' = None /\ Leaves(h)
  /\ UNCHANGED <<record, bound, remembered, promptCount, opened, ended, latch>>

RunTool(h) ==
  /\ Doing(h, "run") /\ Leaves(h)
  /\ UNCHANGED <<record, bound, remembered, claim, promptCount, opened, ended, latch, mishaps>>

-----------------------------------------------------------------------------
(* The end of a session, and the world.                                    *)

\* cleanup_session: each file, then its lock.
Clean(h) ==
  \/ /\ Doing(h, "clean") /\ record' = None /\ Proceeds(h, "unlock")
     /\ UNCHANGED <<bound, remembered>>
  \/ /\ Doing(h, "unlock") /\ bound' = FALSE /\ Proceeds(h, "forget")
     /\ UNCHANGED <<record, remembered>>
  \/ /\ Doing(h, "forget") /\ claim = None /\ remembered' = None /\ Leaves(h)
     /\ UNCHANGED <<record, bound>>

CleanUp(h) ==
  /\ Clean(h) /\ UNCHANGED <<claim, promptCount, opened, ended, latch, mishaps>>

DamageRecord ==
  /\ record \in Roots /\ mishaps < MaxMishaps /\ mishaps' = mishaps + 1
  /\ record' = "corrupt"
  /\ UNCHANGED <<bound, remembered, claim, frame, promptCount, opened, ended, latch>>

Die(h) ==
  /\ ~Doing(h, "idle") /\ mishaps < MaxMishaps /\ mishaps' = mishaps + 1
  /\ claim' = IF claim = h THEN None ELSE claim
  /\ Leaves(h)
  /\ UNCHANGED <<record, bound, remembered, promptCount, opened, ended, latch>>

SessionNext ==
  \/ \E h \in Runs :
       \/ \E ev \in {"prompt", "tool", "end"}, env \in Roots \cup {None} : Start(h, ev, env)
       \/ LoadSession(h) \/ WasBound(h) \/ (\E r \in Roots : Bind(h, r)) \/ Inactive(h)
       \/ LoadTurn(h) \/ (\E m \in Mode : RememberTurn(h, m)) \/ OpenTurn(h)
       \/ ReadOnly(h) \/ Claim(h) \/ Promote(h) \/ PromoteFails(h)
       \/ Persist(h) \/ PersistFails(h) \/ RunTool(h) \/ CleanUp(h) \/ Die(h)
  \/ DamageRecord

SessionSpec == SessionInit /\ [][SessionNext]_sessionVars

-----------------------------------------------------------------------------
(* Properties.                                                             *)

\* A hook the host gives no root works in the root its session was bound to,
\* over races of first hooks and damaged records, until the session ends.
LatchHolds ==
  [][\A h \in Runs :
       /\ Doing(h, "bind") /\ frame'[h].at = "turn" /\ frame[h].env = None /\ ~ended
       => frame'[h].root = latch']_sessionVars

\* The turn of a prompt is opened once, by its prompt or by one of the calls
\* that run side by side, and unless something failed an ordinary turn that
\* nobody is opening is open: its calls are not turned away as stale.
TurnsOpenOnce ==
  /\ \A n \in Prompts : opened[n] <= 1 + mishaps
  /\ mishaps = 0 /\ claim = None /\ remembered # None
     /\ (\A h \in Runs : ~Doing(h, "open"))
     => remembered.mode = "quick" \/ opened[remembered.prompt] = 1
=============================================================================
