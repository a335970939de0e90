---------------------------- MODULE ShellSegments ----------------------------
(***************************************************************************)
(* Which words of a shell text are run as commands, as the guard of        *)
(* destructive commands finds them (core/destructive_guard.py,             *)
(* _r2_command_segments): here-documents are taken out first, the rest is  *)
(* split where the shell starts a new command, and the text of every       *)
(* command substitution is split in the same way.                          *)
(*                                                                         *)
(* A text is a sequence of lexemes, written by someone who knows the shell *)
(* and notes which words it will run; what the guard finds is compared     *)
(* with that.                                                              *)
(***************************************************************************)
EXTENDS Naturals, Sequences, FiniteSets, SequencesExt

CONSTANTS None, MaxLexemes, MaxWords   \* bounds: the length of a text, its command words

VARIABLES
  text,    \* what has been written so far
  open,    \* what is open in it, innermost last: quotes, substitutions, brackets
  fresh,   \* the next word starts a command
  doc,     \* the here-document asked for or being written
  run      \* words that the shell will run

segmentVars == <<text, open, fresh, doc, run>>

Word(n) == <<"c1", "c2", "c3", "c4">>[n]
Quotes == {"'", "\""}
Documents == {"<<E", "<<'E'"}
Separators == {";", "&", "|", "\n", ";;"}

-----------------------------------------------------------------------------
(* Where a quotation, a substitution ends.                                 *)

RECURSIVE BacktickEnd(_, _), SubstitutionEnd(_, _, _, _)

\* _find_backtick_end: the position of the closing backtick, or 0.
BacktickEnd(s, i) ==
  IF i > Len(s) THEN 0
  ELSE IF s[i] = "\\" THEN BacktickEnd(s, i + 2)
  ELSE IF s[i] = "tick" THEN i ELSE BacktickEnd(s, i + 1)

\* _find_substitution_end, from the lexeme at i on.
SubstitutionEnd(s, i, depth, quote) ==
  IF i > Len(s) THEN 0
  ELSE LET On(d, q) == SubstitutionEnd(s, i + 1, d, q)
           Past(end) == IF end = 0 THEN 0 ELSE SubstitutionEnd(s, end + 1, depth, quote)
       IN  CASE quote = "'" -> On(depth, IF s[i] = "'" THEN None ELSE quote)
             [] s[i] = "\\" -> SubstitutionEnd(s, i + 2, depth, quote)
             [] s[i] = "tick" -> Past(BacktickEnd(s, i + 1))
             [] s[i] = "$(" -> Past(SubstitutionEnd(s, i + 1, 1, None))
             [] quote = "\"" -> On(depth, IF s[i] = "\"" THEN None ELSE quote)
             [] s[i] \in Quotes -> On(depth, s[i])
             [] s[i] = "(" -> On(depth + 1, quote)
             [] s[i] = ")" -> IF depth = 1 THEN i ELSE On(depth - 1, quote)
             [] OTHER -> On(depth, quote)

\* Where the substitution that is opened at i ends.
End(s, i) == IF s[i] = "tick" THEN BacktickEnd(s, i + 1) ELSE SubstitutionEnd(s, i + 1, 1, None)

-----------------------------------------------------------------------------
(* Splitting.                                                              *)

RECURSIVE Split(_, _, _), Segments(_)

\* _starts_case_construct, and a later clause written as a "case" of its own.
Clause(st, s, end) ==
  LET segment == SubSeq(s, st.start, end)
  IN  [words |-> IF st.pattern /\ segment # <<>> THEN <<"case">> \o segment ELSE segment,
       after |-> st.after]

\* The loop of _command_segments; quoted and escaped lexemes split nothing.
Split(s, i, st) ==
  IF i > Len(s)
  THEN [segments |-> Append(st.segments, Clause(st, s, Len(s))) \o st.nested, bad |-> st.bad]
  ELSE LET end == End(s, i)
           inner == Segments(SubSeq(s, i + 1, end - 1))
           cases == st.cases \/ (i > st.start /\ s[st.start] = "case")
           ends == s[i] \in Separators /\ ~(s[i] = "&" /\ i = st.start)
       IN  CASE st.quote = "'" ->
                  Split(s, i + 1, [st EXCEPT !.quote = IF s[i] = "'" THEN None ELSE @])
             [] s[i] = "\\" -> Split(s, i + 2, st)
             [] s[i] \in {"$(", "tick"} ->
                  IF end = 0 THEN Split(s, i + 1, [st EXCEPT !.bad = TRUE])
                  ELSE Split(s, end + 1, [st EXCEPT !.nested = @ \o inner.segments,
                                                    !.bad = @ \/ inner.bad])
             [] st.quote = "\"" ->
                  Split(s, i + 1, [st EXCEPT !.quote = IF s[i] = "\"" THEN None ELSE @])
             [] st.quote = None /\ s[i] \in Quotes -> Split(s, i + 1, [st EXCEPT !.quote = s[i]])
             [] st.quote = None /\ ends ->
                  Split(s, i + 1,
                        [st EXCEPT !.segments = Append(@, Clause(st, s, i - 1)),
                                   !.start = i + 1, !.after = s[i], !.cases = cases,
                                   !.pattern = \/ cases /\ s[i] = ";;"
                                               \/ @ /\ SubSeq(s, st.start, i - 1) = <<>>])
             [] OTHER -> Split(s, i + 1, st)

\* _command_segments.
Segments(s) ==
  Split(s, 1, [segments |-> <<>>, nested |-> <<>>, start |-> 1, quote |-> None,
               after |-> None, cases |-> FALSE, pattern |-> FALSE, bad |-> FALSE])

-----------------------------------------------------------------------------
(* Here-documents.                                                         *)

\* _command_position_tokens: brackets and the pattern of a case come first.
Command(words) ==
  LET i == IF words # <<>> /\ words[1] = "case" THEN
             Min({j \in DOMAIN words : words[j] = "p)"} \cup {Len(words)}) + 1 ELSE 1
      body == SubSeq(words, i, Len(words))
      j == Min({k \in DOMAIN body : body[k] # "("} \cup {Len(body) + 1})
      command == SubSeq(body, j, Len(body))
  IN  IF ToSet(command) \subseteq {")", "esac"} THEN <<>> ELSE command

\* _shell_stdin_is_script.
StdinIsScript(command) ==
  LET given == SelectInSeq(Tail(command), LAMBDA w : w # "-s")
  IN  given = 0 \/ (Len(command) > 1 /\ command[2] = "-s")

RECURSIVE Expanded(_, _), Declared(_, _, _), TakeOut(_, _, _, _)

\* _heredoc_expansion_commands.
Expanded(s, i) ==
  IF i > Len(s) THEN [texts |-> <<>>, bad |-> FALSE]
  ELSE IF s[i] = "\\" THEN Expanded(s, i + 2)
  ELSE IF s[i] \notin {"$(", "tick"} THEN Expanded(s, i + 1)
  ELSE IF End(s, i) = 0 THEN [texts |-> <<>>, bad |-> TRUE]
  ELSE LET later == Expanded(s, End(s, i) + 1)
       IN  [later EXCEPT !.texts = <<SubSeq(s, i + 1, End(s, i) - 1)>> \o @]

\* Variant: the first one of a line.
DeclaredAnywhere(line, i, quote) ==
  IF ToSet(line) \cap Documents = {} THEN 0 ELSE SelectInSeq(line, LAMBDA x : x \in Documents)

\* _heredoc_declarations: the first one of a line that is not quoted, or 0.
Declared(line, i, quote) ==
  IF i > Len(line) THEN 0
  ELSE IF line[i] = "\\" /\ quote # "'" THEN Declared(line, i + 2, quote)
  ELSE IF quote # None THEN Declared(line, i + 1, IF line[i] = quote THEN None ELSE quote)
  ELSE IF line[i] \in Quotes THEN Declared(line, i + 1, line[i])
  ELSE IF line[i] \in Documents THEN i ELSE Declared(line, i + 1, quote)

\* _heredoc_consumer and _shell_reads_heredoc: a shell may be told by its
\* arguments not to read its script from there.
Scripted(line, at) ==
  LET before == SubSeq(line, 1, at - 1)
      bounds == {i \in DOMAIN before : before[i] \in {";", "&", "|"}}
      command == Command(SubSeq(before, Max(bounds \cup {0}) + 1, Len(before)))
  IN  command # <<>> /\ command[1] = "sh" /\ StdinIsScript(command)

\* _without_heredoc_bodies, line by line: what remains, and what is run.
TakeOut(lines, pending, kept, bodies) ==
  IF lines = <<>> THEN [kept |-> kept, bodies |-> bodies, bad |-> pending # None]
  ELSE LET line == Head(lines)
           at == Declared(line, 1, None)
           expanded == IF pending = None THEN None ELSE Expanded(pending.body, 1)
           more == IF pending.script THEN <<pending.body>>
                   ELSE IF pending.expands THEN expanded.texts ELSE <<>>
           rest == TakeOut(Tail(lines), None, Append(kept, <<>>), bodies \o more)
       IN  IF pending = None
           THEN TakeOut(Tail(lines),
                        IF at = 0 THEN None
                        ELSE [script |-> Scripted(line, at), expands |-> line[at] = "<<E", body |-> <<>>],
                        Append(kept, line), bodies)
           ELSE IF line # <<"E">>
           THEN TakeOut(Tail(lines), [pending EXCEPT !.body = @ \o line \o <<"\n">>],
                        Append(kept, <<>>), bodies)
           ELSE [rest EXCEPT !.bad = @ \/ (~pending.script /\ pending.expands /\ expanded.bad)]

Lines(s) ==
  LET cuts == {0, Len(s) + 1} \cup {i \in DOMAIN s : s[i] = "\n"}
      at == SetToSortSeq(cuts, LAMBDA a, b : a < b)
  IN  [n \in 1..(Len(at) - 1) |-> SubSeq(s, at[n] + 1, at[n + 1] - 1)]

\* _r2_command_segments.
R2Segments(s) ==
  LET out == TakeOut(Lines(s), None, <<>>, <<>>)
      parts == <<Segments(FlattenSeq([n \in DOMAIN out.kept |->
                                        IF n = 1 THEN out.kept[n] ELSE <<"\n">> \o out.kept[n]]))>>
                 \o [n \in DOMAIN out.bodies |-> Segments(out.bodies[n])]
  IN  [segments |-> FlattenSeq([n \in DOMAIN parts |-> parts[n].segments]),
       bad |-> out.bad \/ \E n \in DOMAIN parts : parts[n].bad]

\* executable_command_positions, and _detect_pipeline_shell_receiver for
\* parse_destructive_commands.
Found(s) ==
  LET r == R2Segments(s)
      commands == {[words |-> Command(x.words), after |-> x.after] : x \in ToSet(r.segments)}
  IN  [heads |-> {x.words[1] : x \in {y \in commands : y.words # <<>>}},
       fed |-> \E x \in commands : /\ x.words # <<>> /\ x.words[1] = "sh"
                                   /\ x.after = "|" /\ StdinIsScript(x.words),
       bad |-> r.bad]

-----------------------------------------------------------------------------
(* Writing a text (external: the shell's grammar).  Left out: functions,   *)
(* redirections, a substitution or a quotation where a command's name is   *)
(* expected; at most one here-document on a line, and none after a line    *)
(* that ends within quotes.                                                *)

Absent == [state |-> "none", script |-> FALSE, expands |-> FALSE]
Inner == IF open = <<>> THEN None ELSE Last(open)
Is(lexeme) == text # <<>> /\ Last(text) = lexeme
InBody == doc.state = "body"
NoDocument == doc.state \in {"none", "wrapped"}
\* Lexemes that are not read as a command: quoted, or of a document that is
\* no script.
IsText == InBody /\ open = <<>> /\ ~doc.script
IsData == Inner \in Quotes \/ IsText
Arguments == ~fresh /\ ~IsData /\ ~Is("sh") /\ ~Is("-s")

Write(lexemes) == Len(text) + Len(lexemes) <= MaxLexemes /\ text' = text \o lexemes
Names == ToSet(text) \cap {Word(n) : n \in 1..4}

WriteWord ==
  /\ ~Is("E") /\ Cardinality(Names) < MaxWords
  /\ LET w == Word(Cardinality(Names) + 1)
     IN  /\ Write(<<w>>)
         /\ run' = IF fresh /\ ~IsData THEN run \cup {w} ELSE run
  /\ fresh' = (fresh /\ IsData)
  /\ UNCHANGED <<open, doc>>

\* A shell that is given no other script reads the one on its input.
WriteShell ==
  /\ fresh /\ ~IsData /\ ~Is("E") /\ "(" \notin ToSet(open)
  /\ \E w \in {<<"sh">>, <<"sh", "-s">>} : Write(w)
  /\ run' = run \cup {"sh"}
  /\ fresh' = FALSE
  /\ UNCHANGED <<open, doc>>

Separate ==
  /\ ~fresh /\ ~IsData
  /\ \E s \in {";", "&", "|"} : Write(<<s>>)
  /\ fresh' = TRUE
  /\ UNCHANGED <<open, doc, run>>

EndLine ==
  /\ ~IsData /\ (~fresh \/ Is("E"))
  /\ Write(<<"\n">>)
  /\ doc.state = "asked" => open = <<>>
  /\ doc' = IF doc.state = "asked" THEN [doc EXCEPT !.state = "body"] ELSE doc
  /\ fresh' = TRUE
  /\ UNCHANGED <<open, run>>

\* Data: what the context makes of each lexeme is nothing.
WriteData ==
  /\ IsData
  /\ \E d \in {";", ")", "'", "\"", "tick", "$(", "\\", "\n", "<<E"} :
       /\ d # Inner
       /\ d \in {"tick", "$("} => Inner = "'" \/ (IsText /\ ~doc.expands)
       /\ d = "tick" => "tick" \notin ToSet(open)
       /\ d = "\\" => Inner = "'"
       /\ d = "<<E" => Inner \in Quotes /\ doc.state = "none"
       /\ d = "\n" => IsText \/ NoDocument
       /\ Write(<<d>>)
       /\ doc' = IF d = "\n" /\ ~IsText THEN [doc EXCEPT !.state = "wrapped"] ELSE doc
  /\ UNCHANGED <<open, fresh, run>>

Escape ==
  /\ Arguments \/ IsData
  /\ "tick" \notin ToSet(open)
  /\ \E x \in {"'", "\"", ";", "tick", "$("} :
       /\ CASE Inner = "'" -> FALSE
            [] Inner = "\"" -> x \in {"\"", "tick", "$("}
            [] IsText -> doc.expands /\ x \in {"tick", "$("}
            [] OTHER -> x # "$("
       /\ Write(<<"\\", x>>)
  /\ UNCHANGED <<open, fresh, doc, run>>

Open ==
  /\ ~Is("E") /\ Len(open) < 3
  /\ \E o \in {"'", "\"", "$(", "tick", "("} :
       /\ CASE o \in Quotes -> Arguments
            [] o = "(" -> fresh /\ ~IsData
            [] OTHER -> Arguments \/ Inner = "\"" \/ (IsText /\ doc.expands)
       /\ o = "tick" => "tick" \notin ToSet(open)
       /\ Write(<<o>>)
       /\ open' = Append(open, IF o = "$(" THEN ")" ELSE o)
       /\ fresh' = (o \notin Quotes)
  /\ UNCHANGED <<doc, run>>

Close ==
  /\ Inner \in Quotes \cup {")", "tick", "("}
  /\ Inner \in Quotes \/ ~fresh
  /\ Write(<<IF Inner = "(" THEN ")" ELSE Inner>>)
  /\ open' = Front(open)
  /\ fresh' = (InBody /\ ~doc.script /\ Len(open) = 1)
  /\ UNCHANGED <<doc, run>>

OpenCase ==
  /\ fresh /\ open = <<>> /\ NoDocument
  /\ Write(<<"case", "p)">>)
  /\ open' = <<"esac">>
  /\ UNCHANGED <<fresh, doc, run>>

EndClause ==
  /\ Inner = "esac" /\ ~fresh
  /\ \/ Write(<<";;", "p)">>) /\ fresh' = TRUE /\ open' = open
     \/ Write(<<";;", "esac">>) /\ fresh' = FALSE /\ open' = Front(open)
  /\ UNCHANGED <<doc, run>>

\* A here-document: its text is a script if a shell reads it.
AskDocument ==
  /\ open = <<>> /\ doc.state = "none" /\ ~fresh
  /\ ToSet(text) \cap Documents = {} /\ ~Is("esac")
  /\ \E d \in Documents :
       /\ Write(<<d>>)
       /\ doc' = [script |-> Is("sh") \/ \E n \in {0, 1} : n < Len(text) /\ text[Len(text) - n] = "-s",
                  expands |-> d = "<<E", state |-> "asked"]
  /\ UNCHANGED <<open, fresh, run>>

EndDocument ==
  /\ InBody /\ open = <<>> /\ Is("\n")
  /\ Write(<<"E">>)
  /\ doc' = Absent
  /\ fresh' = TRUE
  /\ UNCHANGED <<open, run>>

Init ==
  /\ text = <<>> /\ open = <<>> /\ fresh = TRUE /\ doc = Absent /\ run = {}

Next ==
  \/ WriteWord \/ WriteShell \/ Separate \/ EndLine \/ WriteData \/ Escape
  \/ Open \/ Close \/ OpenCase \/ EndClause \/ AskDocument \/ EndDocument

Spec == Init /\ [][Next]_segmentVars

SegmentTypeOK ==
  /\ Len(text) <= MaxLexemes
  /\ ToSet(open) \subseteq Quotes \cup {")", "tick", "(", "esac"}
  /\ fresh \in BOOLEAN
  /\ run \subseteq {Word(n) : n \in 1..4} \cup {"sh"}

\* A shell that runs what a pipe gives it.
Fed ==
  \E i \in DOMAIN text :
    /\ i > 1 /\ text[i] = "sh"
    /\ text[i - 1] = "|" \/ (i > 3 /\ text[i - 1] = "p)" /\ text[i - 3] = "|")
    /\ i = Len(text) \/ text[i + 1] \notin Documents \cup {Word(n) : n \in 1..4}

\* In a text that is complete, exactly the commands the shell will run are
\* found, quoted and escaped operators hide and separate none, and a shell at
\* the end of a pipe is known.
RunIsFound ==
  open = <<>> /\ NoDocument =>
    Found(text) = [heads |-> run, fed |-> Fed, bad |-> FALSE]
=============================================================================
