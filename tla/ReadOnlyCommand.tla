-------------------------- MODULE ReadOnlyCommand --------------------------
(***************************************************************************)
(* When a shell command is proved to read only, so that no gate asks for   *)
(* anything before it runs (core/shell_command.py,                         *)
(* is_proven_read_only_command): its shells are entered one by one, each   *)
(* with its own rules for what the text may contain and its own list of    *)
(* commands, and the words of every command are scanned by its table.      *)
(*                                                                         *)
(* A text is a pipeline, within a shell it is handed to or none.  A word   *)
(* is a string, and a table says what it contains.  A command is typed     *)
(* phrase by phrase, and a phrase knows whether it reads.                  *)
(***************************************************************************)
EXTENDS Naturals, Sequences, FiniteSets, SequencesExt

CONSTANTS None, MaxPhrases  \* bound: phrases typed after a command's name

VARIABLE asked   \* [shell, joint, first, second : commands]

\* What the words contain that some shell expands.
Marks(w) ==
  CASE w \in {"$x", "-e=$x"} -> {"$"} [] w = "@x" -> {"@"} [] w = "%x%" -> {"%"} [] w = "{x}" -> {"{"}
    [] w \in {">", "\\n"} -> {">"}
    [] OTHER -> {}

Options == {"-x", "-n", "-e", "-A", "-e=$x", "--no-config", "--pre=x", "--glob=x", "--", "-r", "-c",
            "--show-toplevel", "--show-current", "-recurse", "-pattern", "-list", "-path"}
OutOfReach == {"*", "/f", "../f", "$x", "@x", "%x%", "{x}"} \* _is_safe_read_only_path refuses them
IsPath(w) == w \notin Options \cup (OutOfReach \ {"{x}"})
Literal(w) == Marks(w) \cap {"$", "@"} = {}                  \* _is_safe_literal

-----------------------------------------------------------------------------
(* The tables of the commands.                                             *)

RgFlags == {"-n", "--no-config"}
RgValues == {"-e", "-A"}

\* _is_proven_read_only_rg, a word.
ReadRg(s, w) ==
  CASE s.opens -> [s EXCEPT !.opens = FALSE]
    [] ~s.opens /\ (s.over \/ w \notin Options) -> s
    [] OTHER ->
         CASE w = "--" -> [s EXCEPT !.over = TRUE]
           [] w \in RgFlags -> [s EXCEPT !.isolated = @ \/ w = "--no-config"]
           [] w = "--glob=x" -> s
           [] w \in RgValues -> [s EXCEPT !.opens = TRUE]
           [] OTHER -> [s EXCEPT !.known = FALSE]

Rg(words) ==
  LET s == FoldLeft(ReadRg, [known |-> TRUE, isolated |-> FALSE, over |-> FALSE, opens |-> FALSE], words)
  IN  s.known /\ s.isolated /\ ~s.opens

Git(words) ==
  /\ words # <<>>
  /\ \/ /\ words[1] = "rev-parse"
        /\ \A w \in ToSet(Tail(words)) : w \in Options => w = "--show-toplevel"
     \/ words = <<"branch", "--show-current">>

GetChildItem(words) ==
  LET paths == SelectSeq(words, LAMBDA w : w # "-recurse")
  IN  Len(paths) <= 1 /\ \A w \in ToSet(paths) : w \notin Options /\ IsPath(w)

ReadSelect(s, w) ==
  CASE s.opens -> [s EXCEPT !.opens = FALSE, !.pattern = Literal(w)]
    [] ~s.opens /\ w = "-list" -> s
    [] ~s.opens /\ w = "-pattern" -> [s EXCEPT !.opens = TRUE]
    [] OTHER -> [s EXCEPT !.known = FALSE]

SelectString(words) ==
  LET s == FoldLeft(ReadSelect, [known |-> TRUE, pattern |-> FALSE, opens |-> FALSE], words)
  IN  s.known /\ s.pattern /\ ~s.opens

Reading ==   \* _READ_ONLY_COMMANDS_BY_DIALECT
  [direct |-> {"cat", "dir", "echo", "pwd", "rg", "git", "get-childitem", "select-string"},
   posix |-> {"cat", "echo", "pwd", "rg", "git"},
   powershell |-> {"get-childitem", "select-string"},
   cmd |-> {"dir", "echo"}]

Table(name, words) ==
  CASE name = "rg" -> Rg(words)
    [] name = "git" -> Git(words)
    [] name = "get-childitem" -> GetChildItem(words)
    [] name = "select-string" -> SelectString(words)
    [] name = "pwd" -> words = <<>>
    [] name = "echo" -> \A w \in ToSet(words) : Literal(w)
    [] OTHER -> \A w \in ToSet(words) : w \notin Options /\ IsPath(w)

-----------------------------------------------------------------------------
(* The shells.                                                             *)

Forbidden == [direct |-> {">"}, posix |-> {">", "$"}, powershell |-> {">", "$", "@", "{"},
              cmd |-> {">", "%"}]

\* _read_only_wrapper_payload: None if a shell is not entered as it must be.
\* A posix shell looks through "command" and "builtin"; elsewhere they are
\* commands no table knows.
Enter(dialect, shell) ==
  CASE shell = "" -> dialect
    [] shell = "cmd /c" /\ dialect = "direct" -> "cmd"
    [] shell = "pwsh -noprofile -noninteractive -command" /\ dialect = "direct" -> "powershell"
    [] shell = "bash -c" /\ dialect \in {"direct", "posix"} -> "posix"
    [] shell = "command" /\ dialect = "posix" -> "posix"
    [] OTHER -> None

MarksOf(c) == UNION {Marks(w) : w \in ToSet(c.words)}

\* _is_proven_read_only_script, of what is handed to a shell.
Allowed(dialect, marks) == dialect # None /\ marks \cap Forbidden[dialect] = {}

\* _is_proven_read_only_segment.
Segment(c, outer) ==
  LET dialect == Enter(outer, c.head)
  IN  /\ Allowed(dialect, MarksOf(c))
      /\ c.name \in Reading[dialect]
      /\ Table(c.name, c.words)

ReadOnly(shell, joint, commands) ==
  LET marks == UNION {MarksOf(c) : c \in ToSet(commands)} \cup Marks(joint)
      dialect == Enter("direct", shell)
  IN  /\ Allowed("direct", marks) /\ Allowed(dialect, marks)
      /\ Len(commands) > 1 => joint = "|"
      /\ \A c \in ToSet(commands) : Segment(c, dialect)

-----------------------------------------------------------------------------
(* Typing.  A phrase reads, isolates (it keeps rg from its configuration), *)
(* or does something else.                                                 *)

Phrase(words, means) == [words |-> words, means |-> means]
Ones(words, means) == {Phrase(<<w>>, means) : w \in words}

Phrases(name) ==
  CASE name = "rg" ->
         Ones({"-n", "f", "*", "--glob=x"}, "reads") \cup Ones({"--no-config"}, "isolates")
           \cup Ones({"--pre=x", "-x"}, "harms") \cup Ones({"--"}, "ends")
           \cup {Phrase(<<o, v>>, "reads") : o \in {"-e", "-A"}, v \in {"f", "--pre=x", "--no-config"}}
    [] name = "git" ->
         Ones({"rev-parse"}, "asks") \cup Ones({"--show-toplevel", "f", "-x", "branch", "-c"}, "reads")
           \cup {Phrase(<<"branch", "--show-current">>, "shows")}
    [] name = "get-childitem" -> Ones({"-recurse", "f", "/f"}, "reads") \cup Ones({"-x"}, "harms")
    [] name = "select-string" ->
         Ones({"-list"}, "reads") \cup Ones({"-path", "f"}, "harms")
           \cup {Phrase(<<"-pattern", v>>, "reads") : v \in {"f", "-x", "@x"}}
    [] name = "pwd" -> Ones({"f"}, "reads")
    [] name = "rm" -> Ones({"f"}, "harms")
    [] OTHER -> Ones({"f", "{x}", "%x%", "@x", "*", "../f"}, "reads") \cup Ones({"-x"}, "reads")
                  \cup Ones({">", "$x"}, "harms")

Names == UNION {Reading[d] : d \in DOMAIN Reading} \cup {"rm"}
Shells == {"cmd /c", "cmd", "bash -c", "bash", "pwsh -noprofile -noninteractive -command",
           "pwsh -command"}
Heads == {"", "command", "bash -c", "./", "X=1"}
Command == [head : Heads, name : Names, said : Seq(Phrase(Seq(STRING), STRING))]

Plain(name, said) == [head |-> "", name |-> name, said |-> said]
Seconds == {<<>>} \cup {<<Plain("cat", <<>>)>>, <<Plain("rm", <<Phrase(<<"f">>, "harms")>>)>>}

Init ==
  /\ asked \in [shell : {""} \cup Shells,
                joint : {"|", "&&", "\\n"},
                first : {[Plain(n, <<>>) EXCEPT !.head = h] : n \in Names, h \in Heads},
                second : Seconds]
  /\ asked.second = <<>> => asked.joint = "|"

\* Bound: fewer phrases in a text with more than one plain command.
Type ==
  \E x \in Phrases(asked.first.name) :
    /\ Len(asked.first.said) <
         IF asked.second = <<>> /\ asked.first.head = ""
         THEN MaxPhrases ELSE 1
    /\ asked' = [asked EXCEPT !.first.said = Append(@, x)]

Next == Type

Spec == Init /\ [][Next]_asked

Spoken(c) ==
  [head |-> c.head, name |-> c.name,
   words |-> FlattenSeq([i \in DOMAIN c.said |-> c.said[i].words])]
Asked == <<asked.first>> \o asked.second

ReadOnlyTypeOK ==
  /\ asked.first.head \in Heads /\ asked.first.name \in Names
  /\ Len(asked.first.said) <= MaxPhrases /\ asked.second \in Seconds

-----------------------------------------------------------------------------
(* Property.                                                               *)

\* What a command does by its manual: rg reads if its own configuration is
\* kept out before "--"; git, if all it is asked for is what there is.
Harmless(c) ==
  LET ends == {i \in DOMAIN c.said : c.said[i].means = "ends"}
      options == {i \in DOMAIN c.said : \A j \in ends : i < j}
      Has(means) == \E i \in options : c.said[i].means = means
  IN  /\ c.name # "rm" /\ ~Has("harms")
      /\ c.name = "rg" => Has("isolates")
      /\ c.name = "git" =>
           c.said # <<>> /\ (c.said[1].means = "asks" \/ (c.said[1].means = "shows" /\ Len(c.said) = 1))

\* What a shell replaces, or runs, in the text it is handed.
Expands(shell) ==
  CASE shell = "cmd /c" -> {">", "%"} [] shell = "bash -c" -> {">", "$"}
    [] shell \in {"", "command"} -> {">"}
    [] OTHER -> {">", "$", "@", "{"}

\* A command is proved to read only if every shell on the way to it hands
\* on what it was given, and all that runs in the end only reads, whatever
\* the order of options, values and operands.
ReadOnlyAsMeant ==
  ReadOnly(asked.shell, asked.joint, [i \in DOMAIN Asked |-> Spoken(Asked[i])]) =>
    /\ asked.joint = "|"
    /\ \A c \in ToSet(Asked) :
         /\ Harmless(c)
         /\ c.head \notin {"./", "X=1"}
         /\ \A shell \in {asked.shell, c.head} : MarksOf(Spoken(c)) \cap Expands(shell) = {}
=============================================================================
