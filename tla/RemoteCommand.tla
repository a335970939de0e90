--------------------------- MODULE RemoteCommand ---------------------------
(***************************************************************************)
(* What an ssh or scp command does, as the hooks read it before and after  *)
(* a shell tool runs (core/shell_command.py): does it change a remote      *)
(* target, which one, which command runs there, and is it proved to touch  *)
(* nothing of the local machine?  Every one of these is a scan of its own  *)
(* over the same words, with tables of its own.                            *)
(*                                                                         *)
(* A word is [o, v]: o the letters behind a dash (none for other words,    *)
(* "-" alone for the end of options), v what is attached to them, or the   *)
(* word itself: [name, user, text, path], a value "name=text" or a place   *)
(* "user@text:path".  A command is typed phrase by phrase, and a phrase    *)
(* knows what it means; that is the reference the scans are compared with. *)
(***************************************************************************)
EXTENDS Naturals, Sequences, FiniteSets, SequencesExt

CONSTANTS None, MaxOptions  \* bound: options typed

VARIABLE spoken   \* [around, name, isolated, options : phrases, ended, operands]

-----------------------------------------------------------------------------
(* Words.                                                                  *)

Text(t) == [name |-> "", user |-> "", text |-> t, path |-> ""]
Config(n, t) == [Text(t) EXCEPT !.name = n]
Host(u, t) == [Text(t) EXCEPT !.user = u]
Remote(u, t) == [Host(u, t) EXCEPT !.path = "/d"]
Local == [Text("") EXCEPT !.path = "f"]

Word(v) == [o |-> <<>>, v |-> v]
Option(letters, v) == [o |-> letters, v |-> v]
IsOption(w) == w.o # <<>>
Ends(w) == w.o = <<"-">>
Alone(w, letters) == Len(w.o) = 1 /\ w.o[1] \in letters /\ w.v = None
\* What follows the i-th letter in the same word.
Attached(w, i) == IF i < Len(w.o) THEN Text("letters") ELSE w.v

SshFlags == {"4", "6", "A", "C", "K", "T", "X", "Y", "a", "g", "k", "n", "q", "s", "t", "v", "x"}
SshValues == {"B", "D", "F", "J", "L", "R", "b", "c", "e", "i", "l", "m", "o", "p"}
SshAllFlags == SshFlags \cup {"f", "G", "M", "N", "V", "y"}
SshAllValues == SshValues \cup {"E", "I", "O", "P", "Q", "S", "W", "w"}
NoRemoteFlags == {"G", "N", "V"}
NoRemoteValues == {"O", "Q", "W"}
ScpFlags == {"3", "4", "6", "A", "B", "C", "O", "R", "T", "p", "q", "r", "v"}
ScpValues == {"F", "J", "P", "X", "c", "i", "l", "o"}
ScpAllFlags == ScpFlags \cup {"s"}
ScpAllValues == ScpValues \cup {"D", "S"}
SafeConfigs == {"batchmode", "compression", "port", "user"}

-----------------------------------------------------------------------------
(* The operands behind the options (_operands).                            *)

SafeConfig(v) ==
  IF v.name = "stricthostkeychecking" THEN v.text = "yes" ELSE v.name \in SafeConfigs

\* _is_safe_option_value.
SafeValue(letter, v) ==
  /\ letter = "F" => v.text = "none"
  /\ letter = "o" => SafeConfig(v)
  /\ letter = "L" => v.text = "8080:host:80"    \* _is_tcp_local_forward

\* _is_valid_option_cluster: flags, the last of which may take the rest.
ValidCluster(w, flags, values, check) ==
  LET odd == {i \in DOMAIN w.o : w.o[i] \notin flags}
      i == CHOOSE i \in odd : \A j \in odd : i <= j
  IN  odd = {} \/ (/\ w.o[i] \in values
                   /\ Attached(w, i) # None
                   /\ check => SafeValue(w.o[i], Attached(w, i)))

ReadOperand(flags, values, check, s, w) ==
  CASE ~s.known -> s
    [] s.over -> [s EXCEPT !.found = Append(@, w)]
    [] s.opens # None ->
         [s EXCEPT !.opens = None,
                   !.known = check => /\ w.v # None
                                      /\ SafeValue(s.opens, w.v)]
    [] Ends(w) -> [s EXCEPT !.over = TRUE]
    [] Alone(w, values) -> [s EXCEPT !.opens = w.o[1]]
    [] IsOption(w) -> [s EXCEPT !.known = Alone(w, flags) \/ ValidCluster(w, flags, values, check)]
    [] OTHER -> [s EXCEPT !.found = Append(@, w), !.over = TRUE]

\* None if an option is not known, has no value or one that is not safe.
Operands(words, flags, values, check) ==
  LET s == FoldLeft(LAMBDA t, w : ReadOperand(flags, values, check, t, w),
                    [found |-> <<>>, known |-> TRUE, over |-> FALSE, opens |-> None], words)
  IN  IF s.known /\ s.opens = None THEN s.found ELSE None

SshOperands(words) == Operands(words, SshAllFlags, SshAllValues, FALSE)
ScpOperands(words) == Operands(words, ScpAllFlags, ScpAllValues, FALSE)

-----------------------------------------------------------------------------
(* The value of one option (_option_value, _ssh_config_value).             *)

Named(s, name, v) == IF v # None /\ v.name = name THEN [s EXCEPT !.value = v.text] ELSE s

\* Variant: an option of the other program, or of neither, takes no value.
ReadValueBare(letter, name, s, w) ==
  CASE s.over -> s
    [] s.opens = letter -> [s EXCEPT !.value = w.v.text, !.opens = None]
    [] s.opens = "o" -> [Named(s, name, w.v) EXCEPT !.opens = None]
    [] Ends(w) \/ ~IsOption(w) -> [s EXCEPT !.over = TRUE]
    [] Alone(w, {letter, "o"}) -> [s EXCEPT !.opens = w.o[1]]
    [] w.o[1] = letter -> [s EXCEPT !.value = Attached(w, 1).text]
    [] OTHER -> s

ReadValue(letter, name, s, w) ==
  CASE s.over -> s
    [] s.opens = letter -> [s EXCEPT !.value = w.v.text, !.opens = None]
    [] s.opens = "o" -> [Named(s, name, w.v) EXCEPT !.opens = None]
    [] s.opens # None -> [s EXCEPT !.opens = None]
    [] Ends(w) \/ ~IsOption(w) -> [s EXCEPT !.over = TRUE]
    [] Alone(w, {letter} \cup SshAllValues \cup ScpAllValues) -> [s EXCEPT !.opens = w.o[1]]
    [] w.o[1] = letter -> [s EXCEPT !.value = Attached(w, 1).text]
    [] OTHER -> s

Unset == [value |-> "", over |-> FALSE, opens |-> None]
OptionValue(words, letter, name) ==
  FoldLeft(LAMBDA s, w : ReadValue(letter, name, s, w), Unset, words).value

ReadConfig(name, s, w) ==
  CASE s.over -> s
    [] s.opens = "o" -> [Named(s, name, w.v) EXCEPT !.opens = None]
    [] s.opens # None -> [s EXCEPT !.opens = None]
    [] Ends(w) \/ ~IsOption(w) -> [s EXCEPT !.over = TRUE]
    [] Alone(w, SshAllValues) -> [s EXCEPT !.opens = w.o[1]]
    [] w.o[1] = "o" -> Named(s, name, Attached(w, 1))
    [] OTHER -> s

ConfigValue(words, name) ==
  FoldLeft(LAMBDA s, w : ReadConfig(name, s, w), Unset, words).value

\* _has_isolated_ssh_config.
Isolated(words) ==
  OptionValue(words, "F", None) = "none" /\ ConfigValue(words, "stricthostkeychecking") = "yes"

-----------------------------------------------------------------------------
(* ssh without a remote command (_ssh_options_disable_remote_command).     *)

NoSession(v) == v # None /\ v.name = "sessiontype" /\ v.text = "none"

\* _ssh_option_cluster_disables_remote: up to the first option with a value.
ClusterDisables(w) ==
  LET ends == {i \in DOMAIN w.o : w.o[i] \in NoRemoteFlags \cup SshAllValues}
      i == CHOOSE i \in ends : \A j \in ends : i <= j
  IN  ends # {} /\ \/ w.o[i] \in NoRemoteFlags \cup NoRemoteValues
                   \/ w.o[i] = "o" /\ NoSession(Attached(w, i))

ReadDisabling(s, w) ==
  CASE s.over -> s
    [] s.opens # None ->
         [s EXCEPT !.opens = None, !.over = s.opens = "o" /\ NoSession(w.v)]
    [] Ends(w) \/ ~IsOption(w) -> [s EXCEPT !.over = TRUE, !.remote = TRUE]
    [] Alone(w, NoRemoteValues) -> [s EXCEPT !.over = TRUE]
    [] Alone(w, SshAllValues) -> [s EXCEPT !.opens = w.o[1]]
    [] OTHER -> [s EXCEPT !.over = ClusterDisables(w)]

Disabled(words) ==
  ~FoldLeft(ReadDisabling, [over |-> FALSE, remote |-> FALSE, opens |-> None], words).remote

-----------------------------------------------------------------------------
(* What a hook asks about a command.                                       *)

\* _target_from_authority.
TargetOf(v, port, user) ==
  IF v.text = "" THEN {}
  ELSE {[host |-> v.text, port |-> IF port = "" THEN "22" ELSE port,
         user |-> IF user = "" THEN v.user ELSE user]}

IsRemote(w) == w.o = <<>> /\ w.v.text # "" /\ w.v.path # ""   \* _is_remote_spec

\* _targets_from_tokens.
TargetsOf(name, words) ==
  IF name = "ssh"
  THEN LET found == SshOperands(words)
       IN  IF found = None \/ found = <<>> \/ IsOption(found[1]) THEN {}
           ELSE TargetOf(found[1].v, OptionValue(words, "p", "port"), OptionValue(words, "l", "user"))
  ELSE LET found == ScpOperands(words)
       IN  IF found = None \/ Len(found) < 2 \/ ~IsRemote(Last(found)) THEN {}
           ELSE TargetOf(Last(found).v, OptionValue(words, "P", "port"),
                         OptionValue(words, "l", "user"))

\* _is_scp_upload_with_options.
Uploads(found) ==
  /\ found # None /\ Len(found) >= 2
  /\ IsRemote(Last(found)) /\ \A w \in ToSet(Front(found)) : ~IsRemote(w)

\* _is_direct_ssh, _is_ssh_remote_mutation.
Reaches(found) == found # None /\ found # <<>> /\ ~IsOption(found[1])

Mutates(name, words) ==
  IF name = "ssh" THEN ~Disabled(words) /\ Reaches(SshOperands(words))
  ELSE Uploads(ScpOperands(words))

\* is_remote_only_mutation_command of a single, plain command.
RemoteOnly(name, words) ==
  /\ Isolated(words)
  /\ IF name = "ssh" THEN Reaches(Operands(words, SshFlags, SshValues, TRUE))
     ELSE Uploads(Operands(words, ScpFlags, ScpValues, TRUE))

\* What stands around the command: without_shell_redirections and
\* unwrap_command_wrapper look through all of it but a path, which makes it
\* another program; is_remote_only_mutation_command through X=1 only.
Around == {"", "X=1", "env X=1", "uv run", "bash -c", "> log", "| tee", "X=$(f)", "./"}

RemoteTargets(around, name, words) == IF around = "./" THEN {} ELSE TargetsOf(name, words)
RemoteMutation(around, name, words) == around # "./" /\ Mutates(name, words)

\* classify_shell_effect.
Effect(around, name, words) ==
  LET targets == RemoteTargets(around, name, words)
  IN  IF /\ around \in {"", "X=1"} /\ RemoteOnly(name, words)
         /\ targets # {} /\ \A t \in targets : t.host # "localhost"    \* _is_loopback_host
      THEN "remote" ELSE "local"

\* remote_ssh_command_tokens.
RunsThere(words) ==
  LET found == SshOperands(words)
  IN  IF Disabled(words) THEN None
      ELSE IF found = None \/ Len(found) < 2 THEN <<>> ELSE Tail(found)

-----------------------------------------------------------------------------
(* Typing a command.  "means" is what an option does by its manual:        *)
(* nothing to the point, it names the port or the user, keeps ssh from     *)
(* running a command, or may write or run something locally; "alone" reads *)
(* no configuration, "strict" asks for known hosts.                        *)

Phrase(words, means, value) == [words |-> words, means |-> means, value |-> value]
\* A flag, alone or with a harmless one; an option with its value behind
\* it, attached to it, or attached to a flag and it.
Flagged(f, means) ==
  {Phrase(<<Option(<<f>>, None)>>, means, ""), Phrase(<<Option(<<"v", f>>, None)>>, means, "")}
Valued(f, v, means) ==
  {Phrase(<<Option(<<f>>, None), Word(v)>>, means, v.text),
   Phrase(<<Option(<<f>>, v)>>, means, v.text), Phrase(<<Option(<<"v", f>>, v)>>, means, v.text)}
Configured(name, text, means) == Valued("o", Config(name, text), means)

Common ==
  Valued("F", Text("none"), "alone") \cup Valued("F", Text("file"), "local")
    \cup Configured("stricthostkeychecking", "yes", "strict")
    \cup Configured("stricthostkeychecking", "no", "lax")
    \cup Configured("port", "2222", "port") \cup Configured("user", "bob", "user")
    \cup Configured("proxycommand", "x", "local") \cup Valued("i", Text("key"), "nothing")

Phrases(name) ==
  Common \cup
  IF name = "ssh"
  THEN Flagged("T", "nothing") \cup Flagged("X", "nothing") \cup Flagged("N", "none")
         \cup Flagged("M", "local") \cup Valued("p", Text("2222"), "port")
         \cup Valued("l", Text("bob"), "user") \cup Valued("E", Text("log"), "local")
         \cup Valued("O", Text("check"), "none") \cup Valued("L", Text("8080:host:80"), "nothing")
         \cup Valued("L", Text("sock"), "local") \cup Configured("sessiontype", "none", "none")
  ELSE Flagged("r", "nothing") \cup Flagged("p", "nothing") \cup Valued("P", Text("2222"), "port")
         \cup Valued("l", Text("1000"), "limit") \cup Valued("S", Text("prog"), "local")

Isolation ==
  <<Phrase(<<Option(<<"F">>, None), Word(Text("none"))>>, "alone", "none"),
    Phrase(<<Option(<<"o">>, None), Word(Config("stricthostkeychecking", "yes"))>>, "strict", "yes")>>

Lines(name) ==
  IF name = "ssh"
  THEN {<<>>} \cup {<<h>> \o c : h \in {Host("", "far"), Host("eve", "far"), Host("", "localhost")},
                                 c \in {<<>>, <<Local>>}}
  ELSE {<<>>, <<Remote("", "far"), Local>>, <<Local, Local>>, <<Remote("", "far"), Remote("", "far")>>}
         \cup {<<Local, r>> : r \in {Remote("", "far"), Remote("eve", "far"), Remote("", "localhost")}}

AllOptions(s) == (IF s.isolated THEN Isolation ELSE <<>>) \o s.options

Spoken(s) ==
  FlattenSeq([i \in DOMAIN AllOptions(s) |-> AllOptions(s)[i].words])
    \o (IF s.ended THEN <<Option(<<"-">>, None)>> ELSE <<>>)
    \o [i \in DOMAIN s.operands |-> Word(s.operands[i])]

RemoteTypeOK ==
  /\ spoken.around \in Around /\ spoken.name \in {"ssh", "scp"} /\ spoken.ended \in BOOLEAN
  /\ spoken.operands \in Lines(spoken.name)
  /\ spoken.isolated \in BOOLEAN /\ Len(spoken.options) <= MaxOptions

Init ==
  /\ spoken \in [around : Around, name : {"ssh", "scp"}, isolated : BOOLEAN, options : {<<>>},
                 ended : BOOLEAN, operands : Lines("ssh") \cup Lines("scp")]
  /\ spoken.operands \in Lines(spoken.name)
  /\ spoken.ended => ~spoken.isolated

\* Bound: what stands around the command is tried with fewer options.
Type ==
  \E x \in Phrases(spoken.name) :
    /\ Len(spoken.options) < IF spoken.around = "" THEN MaxOptions ELSE 1
    /\ spoken' = [spoken EXCEPT !.options = Append(@, x)]

Next == Type

Spec == Init /\ [][Next]_spoken

-----------------------------------------------------------------------------
(* Properties.                                                             *)

Doing(means) == SelectSeq(AllOptions(spoken), LAMBDA x : x.means = means)
Means(means) == Doing(means) # <<>>
Meant(means, otherwise) == IF Means(means) THEN Doing(means)[1].value ELSE otherwise

\* What the command connects to, and what it does there.
There == IF spoken.name = "ssh" THEN spoken.operands[1] ELSE Last(spoken.operands)
Changes ==
  /\ Len(spoken.operands) > 0
  /\ IF spoken.name = "ssh" THEN ~Means("none")
     ELSE There.text # "" /\ \A i \in 1..Len(spoken.operands) - 1 : spoken.operands[i].text = ""
MeantTarget ==
  [host |-> There.text, port |-> Meant("port", "22"), user |-> Meant("user", There.user)]

\* Premises under which the target is the one that is meant.  OpenSSH takes
\* the first of several ports or users, the program the last; the program
\* does not see a port or user in "-oPort=2222" or behind a flag ("-vp2222"),
\* takes what follows a flag that is an option of the other program (ssh -X,
\* scp -p) for its value, and scp's limit -l for a user.
Confused == IF spoken.name = "ssh" THEN SshAllFlags \cap ScpAllValues ELSE ScpAllFlags \cap SshAllValues

Plain ==
  /\ Len(Doing("port")) <= 1 /\ Len(Doing("user")) <= 1 /\ ~Means("limit")
  /\ \A x \in ToSet(spoken.options) :
       /\ x.means \in {"port", "user"} =>
            Len(x.words) = 2 \/ x.words[1].o \in {<<"p">>, <<"P">>, <<"l">>}
       /\ \A w \in ToSet(x.words) : ~Alone(w, Confused)

\* A command is proved to touch nothing of this machine only if none of its
\* options does, its configuration is its own and it reaches another machine;
\* a change of a remote target is noticed, under the target's name, however
\* its options are written, and nothing else is taken for one; and what ssh
\* runs there is what follows the host.
RemoteAsMeant ==
  LET words == Spoken(spoken)
      name == spoken.name
      around == spoken.around
      clear == around # "./"
  IN  /\ Effect(around, name, words) = "remote" =>
           /\ Changes
           /\ ~Means("local") /\ Means("alone") /\ Means("strict")
           /\ There.text # "localhost"
           /\ Plain => RemoteTargets(around, name, words) = {MeantTarget}
      /\ RemoteMutation(around, name, words) <=> clear /\ Changes
      /\ clear /\ Changes /\ Plain => RemoteTargets(around, name, words) = {MeantTarget}
      /\ name = "ssh" /\ Changes =>
           RunsThere(words) = [i \in 1..Len(spoken.operands) - 1 |-> Word(spoken.operands[i + 1])]
=============================================================================
