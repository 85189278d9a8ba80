---------------------------------- MODULE Cli ----------------------------------
(* The console of tester_ev3 (cli.cpp): what read returns is put together to   *)
(* lines, and a line is looked up and run.  A character is one of a small      *)
(* alphabet; a command is the line that names it.  What a command does is in   *)
(* the modules of its component; `quit' ends the loop.                         *)
EXTENDS Integers, Sequences, FiniteSets, SequencesExt

CONSTANTS
  Char,       \* printable characters
  Blank,      \* a character cli_line_trim removes
  LF,         \* the newline
  Commands,   \* the lines that name a registered command, `quit' excepted
  Quit,       \* the line that names cli_cmd_quit
  Cap,        \* sizeof(line_fb_data)
  LineCap,    \* sizeof(line_buf) in cli_input_line
  ReadMax,    \* the longest chunk one read returns
  MaxInput    \* bound: characters typed

Symbol == Char \union {Blank, LF}
Chunk == UNION {[1..n -> Symbol] : n \in 1..ReadMax}

VARIABLES
  line_fb,  \* the console's buffer
  up,       \* the console is there: cli1_release has not been called
  quit,     \* impl.quit
  typed,    \* history: characters typed since the buffer was last dropped
  run       \* history: the lines handed to cli_input_line since then

vars == <<line_fb, up, quit, typed, run>>

TypeOK == line_fb \in Seq(Symbol) /\ Len(line_fb) < Cap /\ up \in BOOLEAN /\ quit \in BOOLEAN

Init ==
  /\ line_fb = <<>> /\ up = TRUE /\ quit = FALSE
  /\ typed = <<>> /\ run = <<>>

-----------------------------------------------------------------------------
(* The console's line assembly.                                                *)

\* cli_line_trim: blanks and newlines go from both ends.
Trim(s) ==
  LET ink == {i \in DOMAIN s : s[i] \in Char} IN
  IF ink = {} THEN <<>>
  ELSE SubSeq(s, CHOOSE i \in ink : \A j \in ink : i <= j,
                 CHOOSE i \in ink : \A j \in ink : i >= j)

\* cli_input_line and cli_lut_find: what becomes of one line.
cli_input_line(s) ==
  LET t == Trim(s) IN
  CASE t = <<>> -> "blank"
    [] Len(t) >= LineCap -> "too long"
    [] t = Quit -> "quit"
    [] t \in Commands -> "command"
    [] OTHER -> "not found"

\* The members of a finite set of numbers in increasing order.
Ascending(S) ==
  CHOOSE s \in [1..Cardinality(S) -> S] : \A i, j \in 1..Cardinality(S) : i < j => s[i] < s[j]

\* Mutant: the search starts one character late.
Newlines_late(buf, from) == Ascending({i \in from + 2..Len(buf) : buf[i] = LF})

\* The positions of the newlines cli_input finds: only the new data is searched.
Newlines(buf, from) == Ascending({i \in from + 1..Len(buf) : buf[i] = LF})

\* The lines cut at those newlines, each with its newline, and what is left.
Cut(buf, nl) ==
  [lines |-> [k \in DOMAIN nl |-> SubSeq(buf, IF k = 1 THEN 1 ELSE nl[k - 1] + 1, nl[k])],
   rest  |-> IF nl = <<>> THEN buf ELSE SubSeq(buf, Last(nl) + 1, Len(buf))]

(* cli_input: a chunk that does not fit drops the buffer, and itself.          *)
cli_input(data) ==
  LET buf == line_fb \o data
      cut == Cut(buf, Newlines(buf, Len(line_fb)))
  IN IF Len(buf) >= Cap
     THEN line_fb' = <<>> /\ typed' = <<>> /\ run' = <<>> /\ UNCHANGED quit
     ELSE /\ line_fb' = cut.rest
          /\ typed' = typed \o data
          /\ run' = run \o cut.lines
          /\ quit' = (quit \/ \E k \in DOMAIN cut.lines : cli_input_line(cut.lines[k]) = "quit")

-----------------------------------------------------------------------------
(* The callback of the console.                                                *)

\* cli1_cb with data.  Characters are typed as long as the bound allows.
cli1_cb(data) ==
  /\ up /\ ~quit
  /\ Len(typed) + Len(data) <= MaxInput
  /\ cli_input(data)
  /\ UNCHANGED up

\* End of file or a read error: cli1_release.  EAGAIN is a call without effect.
cli1_cb_end(r) ==
  /\ up /\ ~quit
  /\ up' = (r = "EAGAIN")
  /\ UNCHANGED <<line_fb, quit, typed, run>>

Next ==
  \/ \E data \in Chunk : cli1_cb(data)
  \/ \E r \in {"eof", "error", "EAGAIN"} : cli1_cb_end(r)

Spec == Init /\ [][Next]_vars

-----------------------------------------------------------------------------
(* However the input is cut into reads, the lines run are the lines typed, in  *)
(* order and each once, and what waits in the buffer is the start of the next  *)
(* line: nothing is searched twice and nothing skipped when a line is          *)
(* completed by a later read (cli_input).                                      *)
LinesOnce ==
  /\ FlattenSeq(run) \o line_fb = typed
  /\ \A i \in DOMAIN line_fb : line_fb[i] # LF
  /\ \A k \in DOMAIN run : Last(run[k]) = LF /\ \A i \in 1..Len(run[k]) - 1 : run[k][i] # LF
================================================================================
