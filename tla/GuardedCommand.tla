--------------------------- MODULE GuardedCommand ---------------------------
(***************************************************************************)
(* What one simple command destroys, as the guard of destructive commands  *)
(* reads it before a shell tool runs (core/destructive_guard.py): every    *)
(* detector scans the words of the command from left to right, tells       *)
(* options, their values and operands apart by its own tables, and answers *)
(* None (nothing destroyed), Blocked (it cannot say what) or the paths     *)
(* that are destroyed.  Categories and reasons are left out: they word the *)
(* answer, but the decision asks only which of the three it is.            *)
(*                                                                         *)
(* A word is a string, and a table says what it is; "*" is any path that   *)
(* is only known at run time and "." one that stands for a whole tree.     *)
(* A path is the sequence of its components.  A command is typed phrase by *)
(* phrase (a phrase: an option with its value, or an operand), and each    *)
(* phrase is known by what it means, which makes the reference the reading *)
(* is compared with.                                                       *)
(***************************************************************************)
EXTENDS Naturals, Sequences, FiniteSets, SequencesExt

CONSTANTS None, MaxPhrases  \* bound: phrases typed after the command's name

VARIABLE typed   \* [before : phrases, name : word, after : phrases]

\* _blocked: a destructive command whose targets are not known.
Blocked == [targets |-> {}, within |-> {}]

Static == {"f", "g", "d/f"}
Opaque == {"*", "."}
Operand == Static \cup Opaque \cup {"v", "''", "s/a/b/", "main", "/dev/null"}

Path(w) == IF w = "d/f" THEN <<"d", "f">> ELSE <<w>>
PathSet(words) == {Path(w) : w \in words}

\* _validate_target.
Valid(path) == ToSet(path) \cap Opaque = {}

\* _resolved_static_targets.
Resolved(raws, within) ==
  IF raws = {} \/ \E t \in raws \cup within : ~Valid(t) THEN Blocked
  ELSE [targets |-> raws, within |-> within]

-----------------------------------------------------------------------------
(* Reading the words that follow a command's name.                         *)

\* An option may take its value from the next word, give one itself, or
\* leave a note.
Takes(words, kind) == [w \in words |-> [opens |-> kind, notes |-> {}, gives |-> None]]
Notes(words, note) == [w \in words |-> [opens |-> None, notes |-> {note}, gives |-> None]]
Gives(word, value) == word :> [opens |-> None, notes |-> {}, gives |-> value]
Both(words, kind, note) == [w \in words |-> [opens |-> kind, notes |-> {note}, gives |-> None]]

Unread == [paths |-> <<>>, rest |-> <<>>, dest |-> None, name |-> None,
           notes |-> {}, opens |-> None]

\* The loop body all detectors share: a value that an option left open, an
\* operand (every word is one after a "--" the command knows), an option.
Read(options, s, w) ==
  CASE s.opens = "path" -> [s EXCEPT !.paths = Append(@, w), !.opens = None]
    [] s.opens = "dest" -> [s EXCEPT !.dest = w, !.opens = None]
    [] s.opens = "name" -> [s EXCEPT !.name = w, !.opens = None]
    [] s.opens = "value" \/ (s.opens = "suffix" /\ w = "''") -> [s EXCEPT !.opens = None]
    [] s.opens \in {None, "suffix"} ->
         LET o == IF w \in DOMAIN options THEN options[w]
                  ELSE [opens |-> None, notes |-> {}, gives |-> None]
         IN  IF w \in Operand \/ "ended" \in s.notes
             THEN IF {"detached", "ended"} \cap s.notes = {"detached"}
                  THEN [s EXCEPT !.notes = @ \ {"detached"}]
                  ELSE [s EXCEPT !.rest = Append(@, w), !.opens = None]
             ELSE [s EXCEPT !.opens = o.opens, !.notes = @ \cup o.notes,
                            !.dest = IF o.gives = None THEN @ ELSE o.gives]

Reading(options, words) == FoldLeft(LAMBDA s, w : Read(options, s, w), Unread, words)

Missing(s) == s.opens \notin {None, "suffix"}
Explicit(s) == PathSet(ToSet(IF s.paths # <<>> THEN s.paths ELSE s.rest))

DoubleDash == Notes({"--"}, "ended")
PathFlags == Takes({"-path", "-literalpath", "-filepath"}, "path")
Values == Takes({"-filter", "-erroraction"}, "value")

WhatIf(words) == "-whatif" \in ToSet(words)
PsHelp(words) == WhatIf(words) \/ ToSet(words) \cap {"-?", "-help", "--help"} # {}

-----------------------------------------------------------------------------
(* Removing and truncating.                                                *)

RemoveNames == {"rm", "remove-item", "rd", "unlink"}

RemoveOptions(name) ==
  Takes({"-path", "-literalpath"}, "path") @@ Values
    @@ Notes({"-r", "--recursive", "-recurse"}, "recursive")
    @@ Notes(IF name = "rm" THEN {"-rf"} ELSE IF name = "rd" THEN {"/s"} ELSE {}, "recursive")

\* _detect_remove.
RemoveItem(name, words) ==
  LET s == Reading(RemoveOptions(name), words)
      dry == IF name = "unlink" THEN words # <<>> /\ words[1] \in {"--help", "--version"}
             ELSE PsHelp(words)
  IN  IF dry THEN None
      ELSE IF Missing(s) THEN Blocked
      ELSE Resolved(Explicit(s), IF "recursive" \in s.notes THEN Explicit(s) ELSE {})

\* _detect_clear_content: help is only seen before a value that is missing.
ClearContent(words) ==
  LET s == Reading(PathFlags @@ Values @@ Notes({"-?", "-help", "--help"}, "help"), words)
  IN  IF WhatIf(words) \/ "help" \in s.notes THEN None
      ELSE IF Missing(s) THEN Blocked
      ELSE Resolved(Explicit(s), {})

\* _detect_truncate_cmdlet for Set-Content and Out-File: the first path flag.
SetContent(words) ==
  LET flags == {i \in DOMAIN words : words[i] \in DOMAIN PathFlags}
      first == CHOOSE i \in flags : \A j \in flags : i <= j
  IN  IF WhatIf(words) THEN None
      ELSE IF flags = {} \/ first = Len(words) THEN Blocked
      ELSE Resolved({Path(words[first + 1])}, {})

\* _detect_truncate_file.
Truncate(words) ==
  LET s == Reading(DoubleDash @@ Both({"-s", "--size", "-r"}, "value", "size")
                     @@ Notes({"--size=v"}, "size") @@ Notes({"--help", "--version"}, "help"),
                   words)
  IN  IF "help" \in s.notes THEN None
      ELSE IF Missing(s) THEN Blocked
      ELSE IF "size" \notin s.notes THEN None
      ELSE Resolved(PathSet(ToSet(s.rest)), {})

\* _detect_dd_output: the last of= and the last oflag= count.
Dd(words) ==
  LET s == Reading(Gives("of=f", "f") @@ Gives("of=*", "*"), words)
      flags == SelectSeq(words, LAMBDA w : w \in {"oflag=append", "oflag=sync"})
  IN  IF s.dest = None \/ (flags # <<>> /\ Last(flags) = "oflag=append") THEN None
      ELSE Resolved({Path(s.dest)}, {})

\* _detect_sed_in_place and _detect_perl_in_place, with their option tables.
SedOptions == DoubleDash @@ Both({"-i"}, "suffix", "inplace") @@ Notes({"-ni"}, "inplace")
                @@ Both({"-e", "-ne"}, "value", "script")
PerlOptions == DoubleDash @@ Notes({"-i", "-pi"}, "inplace") @@ Takes({"-M"}, "value")
                 @@ Both({"-e", "-ne"}, "value", "script") @@ Notes({"--help"}, "help")
InPlace(options, words) ==
  LET s == Reading(options, words)
      files == IF "script" \in s.notes \/ s.rest = <<>> THEN s.rest ELSE Tail(s.rest)
  IN  IF Missing(s) \/ "help" \in s.notes \/ "inplace" \notin s.notes \/ files = <<>>
      THEN None ELSE Resolved(PathSet(ToSet(files)), {})

\* _detect_forced_new_item.
NewItem(words) ==
  LET s == Reading(PathFlags @@ Takes({"-erroraction"}, "value") @@ Takes({"-name"}, "name")
                     @@ Notes({"-force"}, "force"), words)
      targets == IF s.name # None /\ s.paths # <<>> THEN {Append(p, s.name) : p \in Explicit(s)}
                 ELSE IF s.name # None /\ s.rest = <<>> THEN {Path(s.name)}
                 ELSE Explicit(s)
  IN  IF PsHelp(words) \/ Missing(s) \/ "force" \notin s.notes THEN None
      ELSE Resolved(targets, {})

\* _detect_tee.
TeeObject(words) ==
  LET s == Reading(PathFlags @@ Takes({"-inputobject", "-variable"}, "value")
                     @@ Notes({"-append"}, "append"), words)
      targets == IF s.paths # <<>> THEN Explicit(s)
                 ELSE IF s.rest = <<>> THEN {} ELSE {Path(s.rest[1])}
  IN  IF Missing(s) THEN Blocked
      ELSE IF "append" \in s.notes \/ targets = {} THEN None
      ELSE Resolved(targets, {})
Tee(words) ==
  LET s == Reading(DoubleDash @@ Notes({"-a", "--append", "-ai"}, "append")
                     @@ Notes({"--help"}, "help") @@ Notes({"-z"}, "unknown"), words)
  IN  IF "help" \in s.notes THEN None
      ELSE IF "unknown" \in s.notes THEN Blocked
      ELSE IF "append" \in s.notes \/ s.rest = <<>> THEN None
      ELSE Resolved(PathSet(ToSet(s.rest)), {})

\* _detect_truncate_redirect: the first redirection that truncates.
Redirect(words) ==
  LET at == {i \in DOMAIN words : words[i] \in {">", "2>", "&>"}}
      first == CHOOSE i \in at : \A j \in at : i <= j
  IN  IF at = {} THEN None
      ELSE IF first = Len(words) THEN Blocked ELSE Resolved({Path(words[first + 1])}, {})

-----------------------------------------------------------------------------
(* Copying and moving.                                                     *)

MoveNames == {"mv", "move-item", "rename-item"}
PsTransfer == {"copy-item", "move-item", "rename-item"}
Sink == <<"/dev/null">>

TransferOptions(ps) ==
  IF ps
  THEN Takes({"-path", "-literalpath"}, "path") @@ Takes({"-destination", "-newname"}, "dest")
         @@ Values @@ Notes({"-recurse"}, "recursive")
  ELSE DoubleDash @@ Takes({"-t", "--target-directory"}, "dest") @@ Takes({"--suffix"}, "value")
         @@ Both({"-rt"}, "dest", "recursive") @@ Gives("--target-directory=g", "g")
         @@ Notes({"-r", "--recursive"}, "recursive") @@ Notes({"--parents"}, "parents")
         @@ Notes({"--help"}, "help")

\* _transfer_operands: what is copied, and to where.
Operands(name, words) ==
  LET ps == \/ name \in PsTransfer
            \/ ToSet(words) \cap {"-?", "-path", "-destination", "-newname", "-filter"} # {}
      s == Reading(TransferOptions(ps), words)
      last == s.dest = None
      few == last /\ Len(s.rest) < (IF s.paths # <<>> THEN 1 ELSE 2)
      sources == s.paths \o (IF last /\ ~few THEN Front(s.rest) ELSE s.rest)
  IN  IF (ps /\ PsHelp(words)) \/ "help" \in s.notes \/ Missing(s) \/ few \/ sources = <<>>
      THEN None
      ELSE [sources |-> PathSet(ToSet(sources)), dest |-> Path(IF last THEN Last(s.rest) ELSE s.dest),
            notes |-> s.notes]

\* _transfer_destination_candidates: the destination may be a directory.
Inside(o) ==
  {o.dest \o (IF "parents" \in o.notes THEN p ELSE <<Last(p)>>) : p \in {q \in o.sources : Valid(q)}}

\* The new name of a renamed file is in the directory of the old one.
Renamed(o) ==
  {IF Cardinality(o.sources) = 1 /\ Len(o.dest) = 1 THEN Front(p) \o o.dest ELSE o.dest : p \in o.sources}

\* _detect_transfer.
Transfer(name, words) ==
  LET o == Operands(name, words)
      written == IF o.dest = Sink THEN {}
                 ELSE IF name = "rename-item" THEN Renamed(o) ELSE {o.dest} \cup Inside(o)
  IN  IF o = None THEN None
      ELSE IF name \in MoveNames THEN Resolved(o.sources \cup written, o.sources)
      ELSE Resolved(written, IF "recursive" \in o.notes /\ o.dest # Sink THEN Inside(o) ELSE {})

-----------------------------------------------------------------------------
(* Git.                                                                    *)

\* The words before "--".
Options(words) ==
  LET dashes == {i \in DOMAIN words : words[i] = "--"}
  IN  SubSeq(words, 1, Min(dashes \cup {Len(words) + 1}) - 1)

\* The last of two contrary options counts.
Ends(words, on, off) ==
  LET said == SelectSeq(words, LAMBDA w : w \in on \cup off)
  IN  said # <<>> /\ Last(said) \in on

\* _git_option_flags, _git_patch_mode and _parse_git_pathspec.
PathspecOptions(sub) ==
  DoubleDash @@ Notes({"--pathspec-from-file"}, "fromfile")
    @@ Gives("-p", "patch") @@ Gives("--patch", "patch") @@ Gives("--no-patch", "whole")
    @@ CASE sub = "checkout" -> Takes({"-b", "--conflict", "--orphan"}, "value")
                                 @@ Notes({"--detach", "-d"}, "detached")
         [] sub = "restore" -> Takes({"-s", "--source", "--conflict"}, "value")
         [] sub = "rm" -> <<>>

Pathspec(sub, words) ==
  LET s == Reading(PathspecOptions(sub), words)
      paths == PathSet(ToSet(s.rest))
      within == IF \/ sub = "restore" \/ (sub = "checkout" /\ "--" \in ToSet(words))
                   \/ sub = "rm" /\ ToSet(words) \cap {"-r", "-rf", "--recursive"} # {}
                THEN paths ELSE {}
  IN  IF "fromfile" \in s.notes THEN Blocked
      ELSE IF paths = {} THEN IF s.dest = "patch" THEN Blocked ELSE None
      ELSE Resolved(paths, within)

\* _detect_git, with _parse_checkout_options.
Git(words) ==
  LET sub == words[1]
      rest == Tail(words)
      said == ToSet(Options(rest))
  IN  CASE words = <<>> -> None
        [] sub \in {"reset", "clean", "stash", "--git-dir=v"} -> Blocked
        [] sub = "switch" ->
             IF ToSet(rest) \cap {"-f", "--force", "--discard-changes"} # {} THEN Blocked ELSE None
        [] sub = "rm" /\ said \cap {"-n", "--dry-run", "--cached"} # {} -> None
        [] sub = "checkout" /\ Ends(Options(rest), {"-f", "--force", "-Bf"}, {"--no-force"}) -> Blocked
        [] sub = "checkout" /\ said \cap {"-b", "-B", "-Bf"} # {} -> None
        [] sub \in {"checkout", "restore", "rm"} -> Pathspec(sub, rest)
        [] OTHER -> None

-----------------------------------------------------------------------------
(* Where a command begins, and commands inside commands.                   *)

Opening == {"(", "{"}
Closing(w) == IF w = "(" THEN ")" ELSE "}"
Terminators == {"fi", "done", "esac", "}", ")"}
Leading == {"if", "then", "do", "else", "!", "coproc", "A=v"} \cup Opening

RECURSIVE Unbracketed(_, _)
\* The closing brackets that belong to the opening ones before the command.
Unbracketed(words, open) ==
  IF words # <<>> /\ open # <<>> /\ Last(words) = Closing(Last(open))
  THEN Unbracketed(Front(words), Front(open)) ELSE words

\* _command_position_tokens: keywords, assignments and brackets come first.
Position(words) ==
  LET at == Min({i \in DOMAIN words : words[i] \notin Leading} \cup {Len(words) + 1})
      rest == SubSeq(words, at, Len(words))
      open == SelectSeq(SubSeq(words, 1, at - 1), LAMBDA w : w \in Opening)
  IN  IF ToSet(rest) \subseteq Terminators THEN <<>> ELSE Unbracketed(rest, open)

\* _normalize_powershell_parameters: a prefix stands for the one parameter it
\* fits, a switch may be turned off, a value may be attached.
Normalized(name, words) ==
  FoldLeft(LAMBDA seen, w :
             CASE w = "-f" -> Append(seen, IF name = "new-item" THEN "-force" ELSE "-filepath")
               [] w = "-rec" -> Append(seen, "-recurse")
               [] w = "-path:f" -> seen \o <<"-path", "f">>
               [] w = "-recurse:$false" -> seen
               [] OTHER -> Append(seen, w),
           <<>>, words)
Cmdlets == {"remove-item", "clear-content", "set-content", "copy-item", "move-item",
            "rename-item", "new-item", "tee-object", "iex"}
\* -f fits -filter and -force, where a cmdlet has both.
Unclear(name, words) ==
  "-f" \in ToSet(words) /\ name \notin {"new-item", "tee-object", "iex"}

Transparent == {"sudo", "env", "timeout", "xargs", "command"}
Shells == {"bash", "iex"}   \* OPAQUE_WRAPPER_COMMAND_NAMES

\* _wrapper_payload_tokens: options of the wrapper, assignments of env, the
\* duration of timeout.
Payload(name, words) ==
  LET s == FoldLeft(LAMBDA n, i :
             IF i # n + 1 THEN n
             ELSE IF words[i] = "-u" THEN i + 1
             ELSE IF words[i] \in {"-c", "-n", "--"} \/ (name = "env" /\ words[i] = "A=v") THEN i
             ELSE n, 0, [i \in DOMAIN words |-> i])
      skip == IF name = "timeout" THEN s + 1 ELSE s
  IN  IF name = "command" /\ "-v" \in ToSet(words) THEN <<>>
      ELSE SubSeq(words, skip + 1, Len(words))

\* What is_proven_read_only_command proves of the commands used here.
ReadOnly(words) == words \in {<<"cat">>, <<"cat", "f">>}

RECURSIVE Segment(_), Found(_, _)

\* _detect_wrapper_indirect: a shell's own text is never taken at its word.
Wrapper(name, words) ==
  LET payload == Payload(name, words)
      nested == IF payload = <<>> THEN None ELSE Segment(payload)
  IN  IF payload = <<>> THEN None
      ELSE IF name \in Transparent THEN nested
      ELSE IF nested = None /\ ReadOnly(payload) THEN None ELSE Blocked

\* _detect_find_exec, with the files it has found to be written so far.
Found(words, outputs) ==
  IF words = <<>> THEN IF outputs = {} THEN None ELSE Resolved(outputs, {})
  ELSE LET w == Head(words)
           ends == {i \in DOMAIN words : words[i] = ";"}
           After(n) == SubSeq(words, n + 1, Len(words))
       IN  CASE w = "-name" -> Found(After(2), outputs)
             [] w = "-delete" -> Blocked
             [] w = "-fprint" ->
                  IF Len(words) < 2 THEN Blocked ELSE Found(After(2), outputs \cup {Path(words[2])})
             [] w = "-exec" ->
                  IF ends = {} \/ Min(ends) = 2 THEN Blocked
                  ELSE LET nested == Segment(SubSeq(words, 2, Min(ends) - 1))
                       IN  IF nested # None THEN nested ELSE Found(After(Min(ends)), outputs)
             [] OTHER -> Found(After(1), outputs)

\* The detectors of one command by its name; a redirection is looked for
\* before any of them but tee's.
Detect(name, words) ==
  CASE name = "tee" /\ Tee(words) # None -> Tee(words)
    [] name = "tee-object" /\ TeeObject(words) # None -> TeeObject(words)
    [] Redirect(words) # None -> Redirect(words)
    [] name = "git" -> IF words = <<>> THEN None ELSE Git(words)
    [] name \in RemoveNames -> RemoveItem(name, words)
    [] name = "clear-content" -> ClearContent(words)
    [] name = "set-content" -> SetContent(words)
    [] name = "truncate" -> Truncate(words)
    [] name = "dd" -> Dd(words)
    [] name \in MoveNames \cup PsTransfer \cup {"cp"} -> Transfer(name, words)
    [] name = "sed" -> InPlace(SedOptions, words)
    [] name = "perl" -> InPlace(PerlOptions, words)
    [] name = "new-item" -> NewItem(words)
    [] name = "find" -> Found(words, {})
    [] name \in Transparent \cup Shells -> Wrapper(name, words)
    [] OTHER -> None

\* _parse_destructive_segment.
Segment(words) ==
  LET w == Position(words)
      name == IF w[1] = "sc" THEN "set-content" ELSE w[1]
      read == IF name \in Cmdlets THEN Normalized(name, Tail(w)) ELSE Tail(w)
  IN  CASE w = <<>> -> None
        [] w[1] = "sc" /\ Len(w) > 1 /\ w[2] = "query" -> None   \* _is_bare_sc_service_command
        [] name \in Cmdlets /\ Unclear(name, Tail(w)) -> Blocked
        [] name = "[io.file]::delete" -> IF read = <<>> THEN Blocked ELSE Resolved({Path(read[1])}, {})
        [] name \in {"$c", "r'm'"} -> Blocked   \* _detect_dynamic_command_head, _detect_obfuscated_fallback
        [] OTHER -> Detect(name, read)

-----------------------------------------------------------------------------
(* What may be typed, and what it means.                                   *)

Says(words, means) == {[words |-> w, means |-> means, path |-> None] : w \in words}
Names(flags, means) ==
  {[words |-> flags \o <<p>>, means |-> means, path |-> p] : p \in {"f", "d/f", "*", "."}}

PsPhrases ==
  Names(<<"-path">>, "target") \cup Says({<<"-filter", "v">>}, "nothing") \cup Says({<<"-whatif">>}, "dry")

\* The phrases a command's manual lists (some of them).
Phrases(name) ==
  CASE name \in {"rm", "rd"} ->
         Names(<<>>, "operand") \cup Says({<<"-r">>}, "recursive")
           \cup Says({<<"-erroraction", "v">>}, "nothing") \cup Says({<<"--help">>}, "dry")
    [] name = "remove-item" ->
         PsPhrases \cup Says({<<"-rec">>}, "recursive") \cup Says({<<"-recurse:$false">>}, "nothing")
    [] name = "unlink" -> Names(<<>>, "operand")
    [] name = "clear-content" -> PsPhrases
    [] name = "set-content" ->
         Names(<<"-path">>, "target") \cup Says({<<"-value", "v">>}, "nothing") \cup Says({<<"-whatif">>}, "dry")
    [] name = "truncate" ->
         Names(<<>>, "operand") \cup Says({<<"-s", "v">>, <<"--size=v">>}, "needed")
           \cup Says({<<"-c">>}, "nothing") \cup Says({<<"--help">>}, "dry")
    [] name = "dd" ->
         {[words |-> <<"of=f">>, means |-> "target", path |-> "f"],
          [words |-> <<"of=*">>, means |-> "target", path |-> "*"]}
           \cup Says({<<"oflag=append">>}, "spares") \cup Says({<<"if=g">>}, "nothing")
    [] name \in {"sed", "perl"} ->
         Names(<<>>, "operand") \cup Says({<<"-i">>}, "needed") \cup Says({<<"-e", "s/a/b/">>}, "script")
    [] name = "new-item" ->
         Names(<<"-path">>, "target") \cup Says({<<"-erroraction", "v">>}, "nothing")
           \cup Says({<<"-whatif">>}, "dry") \cup Says({<<"-force">>}, "needed")
    [] name = "tee" ->
         Names(<<>>, "operand") \cup Says({<<"-a">>}, "spares") \cup Says({<<"-p">>}, "nothing")
           \cup Says({<<"--help">>}, "dry")
    [] name = "tee-object" ->
         Names(<<"-filepath">>, "target") \cup Says({<<"-append">>}, "spares")
           \cup Says({<<"-inputobject", "g">>}, "nothing")
    [] name \in {"cp", "mv"} ->
         Names(<<>>, "operand") \cup Says({<<"-r">>}, "recursive") \cup Says({<<"--suffix", "v">>}, "nothing")
           \cup Names(<<"-t">>, "into") \cup Says({<<"--help">>}, "dry")
    [] name \in {"copy-item", "move-item"} ->
         PsPhrases \cup Names(<<"-destination">>, "into") \cup Says({<<"-recurse">>}, "recursive")
    [] name = "checkout" ->
         Names(<<>>, "operand") \cup Says({<<"--">>}, "paths") \cup Says({<<"--detach", "main">>}, "nothing")
           \cup Says({<<"--conflict", "v">>}, "nothing") \cup Says({<<"--force">>}, "force")
           \cup Says({<<"--no-force">>}, "unforce") \cup Says({<<"-b", "main">>}, "branch")
           \cup Says({<<"-p">>}, "patch")
    [] name = "restore" ->
         Names(<<>>, "operand") \cup Says({<<"--source", "main">>}, "nothing") \cup Says({<<"-p">>}, "patch")
    [] name = "git-rm" ->
         Names(<<>>, "operand") \cup Says({<<"-r">>}, "recursive") \cup Says({<<"--cached">>}, "dry")
    [] name = "find" ->
         Names(<<"-fprint">>, "target")
           \cup Says({<<"-name", "-delete">>, <<"-exec", "cat", "f", ";">>}, "nothing")
           \cup Says({<<"-delete">>, <<"-exec", "rm", "*", ";">>}, "force")
    [] name = "cat" ->
         Says({<<"f">>, <<">>", "f">>, <<"2>&1">>}, "nothing") \cup Names(<<">">>, "target")

KnownCommands == {"rm", "rd", "remove-item", "unlink", "clear-content", "set-content", "truncate",
                  "dd", "sed", "perl", "new-item", "tee", "tee-object", "cp", "mv", "copy-item",
                  "move-item", "checkout", "restore", "git-rm", "find", "cat"}

Line(name) ==
  CASE name \in {"checkout", "restore"} -> <<"git", name>>
    [] name = "git-rm" -> <<"git", "rm">>
    [] OTHER -> <<name>>

\* What may stand before a command; a shell gets the rest as one text.
Before ==
  {[words |-> w, closes |-> <<>>, shell |-> FALSE] :
     w \in {<<>>, <<"sudo">>, <<"sudo", "-u", "v">>, <<"env", "A=v">>, <<"timeout", "v">>,
            <<"if">>, <<"A=v">>, <<"do", "sudo">>}}
    \cup {[words |-> <<"!", "(">>, closes |-> <<")">>, shell |-> FALSE],
          [words |-> <<"bash", "-c">>, closes |-> <<>>, shell |-> TRUE]}

Spoken(after) == FlattenSeq([i \in DOMAIN after |-> after[i].words])
Words(t) == t.before.words \o Line(t.name) \o Spoken(t.after) \o t.before.closes

Count(after, means) == Cardinality({i \in DOMAIN after : after[i].means = means})

\* What the commands themselves accept: one destination, one redirection,
\* operands only after "--".
Legal(t) ==
  /\ Count(t.after, "into") <= 1
  /\ t.name \in {"dd", "set-content", "cat"} => Count(t.after, "target") <= 1
  /\ \A i, j \in DOMAIN t.after : i < j /\ t.after[i].means = "paths" => t.after[j].means = "operand"
  /\ t.before.shell => t.name # "cat"

\* The paths a command destroys by its manual; otherwise: what it is taken
\* for if it names none.
Destroys(targets, within, otherwise) ==
  IF targets = {} THEN otherwise
  ELSE IF targets \cap Opaque # {} THEN Blocked
  ELSE [targets |-> PathSet(targets), within |-> PathSet(within)]

MeantTransfer(name, after) ==
  LET operands == SelectSeq(after, LAMBDA x : x.means = "operand")
      into == SelectSeq(after, LAMBDA x : x.means = "into")
      sources == {x.path : x \in ToSet(SelectSeq(after, LAMBDA x : x.means = "target"))
                                   \cup ToSet(IF into = <<>> /\ operands # <<>> THEN Front(operands)
                                              ELSE operands)}
      dest == IF into # <<>> THEN into[1].path ELSE Last(operands).path
      inside == {Append(Path(dest), Last(Path(p))) : p \in sources \ Opaque}
  IN  IF sources = {} \/ into \o operands = <<>> THEN None
      ELSE IF dest \in Opaque \/ (name \in MoveNames /\ sources \cap Opaque # {}) THEN Blocked
      ELSE IF name \in MoveNames
      THEN [targets |-> PathSet(sources \cup {dest}) \cup inside, within |-> PathSet(sources)]
      ELSE [targets |-> {Path(dest)} \cup inside,
            within |-> IF Count(after, "recursive") > 0 THEN inside ELSE {}]

MeantCommand(name, after) ==
  LET Has(means) == Count(after, means) > 0
      operands == SelectSeq(after, LAMBDA x : x.means = "operand")
      targets == {x.path : x \in {y \in ToSet(after) : y.means \in {"operand", "target"}}}
      files == IF Has("script") \/ operands = <<>> THEN operands ELSE Tail(operands)
      forced == SelectSeq(after, LAMBDA x : x.means \in {"force", "unforce"})
  IN  CASE Has("dry") \/ Has("spares") -> None
        [] name \in {"truncate", "sed", "perl", "new-item"} /\ ~Has("needed") -> None
        [] name \in {"cp", "mv", "copy-item", "move-item"} -> MeantTransfer(name, after)
        [] name \in {"sed", "perl"} -> Destroys({files[i].path : i \in DOMAIN files}, {}, None)
        [] forced # <<>> /\ Last(forced).means = "force" -> Blocked
        [] Has("branch") -> None
        [] OTHER ->
             Destroys(targets,
                      IF Has("recursive") \/ Has("paths") \/ name = "restore" THEN targets ELSE {},
                      IF Has("patch") \/ name \in RemoveNames \cup
                                {"clear-content", "set-content", "truncate", "new-item"}
                      THEN Blocked ELSE None)

Meant(t) ==
  LET m == MeantCommand(t.name, t.after)
  IN  IF ~t.before.shell \/ (m = None /\ ReadOnly(Line(t.name) \o Spoken(t.after)))
      THEN m ELSE Blocked

-----------------------------------------------------------------------------
(* Typing a command.                                                       *)

CommandTypeOK == typed.before \in Before /\ typed.name \in KnownCommands /\ Len(typed.after) <= MaxPhrases

Init == typed \in [before : Before, name : KnownCommands, after : {<<>>}]

\* Bound: fewer phrases after something that stands before the command.
Type ==
  \E x \in Phrases(typed.name) :
    /\ Len(typed.after) < IF typed.before.words = <<>> THEN MaxPhrases ELSE 1
    /\ typed' = [typed EXCEPT !.after = Append(@, x)]
    /\ Legal(typed')

Next == Type

Spec == Init /\ [][Next]_typed

\* Whatever the order of its options and operands, a command is read as it is
\* meant: a value of an option is not taken for an operand nor an operand for
\* a value, an option that spares the file is seen, and a command whose paths
\* are not known is blocked.
ReadAsMeant == Legal(typed) => Segment(Words(typed)) = Meant(typed)
=============================================================================
