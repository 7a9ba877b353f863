------------------------------ MODULE MCShell ------------------------------
(***************************************************************************)
(* The shell, model-checked in one run.  A behaviour exercises one of its  *)
(* aspects, which part tells at its beginning, while the others keep their *)
(* initial state:                                                          *)
(*   keys      the interactive shell and its descriptors, all keys;        *)
(*   untabbed  the same without tabs;                                      *)
(*   editor    letters, arrows and the history: two letters, lines of up   *)
(*             to two, a history of two lines and a file of three;         *)
(*   script    scripts of up to three lines, among them an empty one, cd,  *)
(*             words that are no program, two bars, and a bar at either    *)
(*             end; in MCshell a pipe that holds all that programs write,  *)
(*             in MCscript_fill one that does not;                         *)
(*   standard  the same with a C library that remembers the end of stdin,  *)
(*             as the C standard has it, and script with one that does not.*)
(* For the descriptors a library that forgets is the general case: one     *)
(* that remembers only takes keys away.                                    *)
(***************************************************************************)
EXTENDS Shell

CONSTANTS prog, typo, a, b, NUL, NONE, PipeSize

VARIABLES
  part,
  line, idx, history_cursor, history, history_block, file, screen, status, lost,  \* LineEditor
  at, words, child, pipe, ended, pipe_temp, execute_checker, lines, written, failed, piped  \* Script

editorVars == <<line, idx, history_cursor, history, history_block, file, screen, status, lost>>
scriptVars == <<at, words, child, pipe, ended, pipe_temp, execute_checker, lines, written, failed, piped>>

MCLines ==
  {<<>>, <<CD>>, <<CD, prog>>, <<prog>>, <<typo>>, <<prog, BAR>>, <<BAR, prog>>,
   <<prog, BAR, prog>>, <<typo, BAR, prog>>, <<prog, BAR, typo>>,
   <<prog, BAR, prog, BAR, prog>>}

Untabbed == INSTANCE Shell WITH Keys <- Keys \ {TAB}

Editor ==
  INSTANCE LineEditor
  WITH Letters <- {a, b}, Size <- 3, HISTORY_MAX <- 2, MaxFile <- 3, buffer <- line

File ==
  INSTANCE Script
  WITH Programs <- {prog}, Lines <- MCLines, MaxLines <- 3, MaxOut <- 3, pc <- at, eof <- ended,
       StickyEof <- FALSE

Standard ==
  INSTANCE Script
  WITH Programs <- {prog}, Lines <- MCLines, MaxLines <- 3, MaxOut <- 3, pc <- at, eof <- ended,
       StickyEof <- TRUE

MCInit ==
  /\ part \in {"keys", "untabbed", "editor", "script", "standard"}
  /\ Init
  /\ Editor!Init
  /\ File!Init

MCKeys == part = "keys" /\ Next /\ UNCHANGED <<part, editorVars, scriptVars>>
MCUntabbed == part = "untabbed" /\ Untabbed!Next /\ UNCHANGED <<part, editorVars, scriptVars>>
MCEditor == part = "editor" /\ Editor!Next /\ UNCHANGED <<part, vars, scriptVars>>
MCScript(Step) == part = "script" /\ Step /\ UNCHANGED <<part, vars, editorVars>>
MCStandard(Step) == part = "standard" /\ Step /\ UNCHANGED <<part, vars, editorVars>>

MCNext ==
  MCKeys \/ MCUntabbed \/ MCEditor \/ MCScript(File!Next) \/ MCStandard(Standard!Next)

MCVars == <<part, vars, editorVars, scriptVars>>

\* The fairness of Script.
MCSpec ==
  /\ MCInit /\ [][MCNext]_MCVars
  /\ WF_MCVars(MCScript(File!ShellStep))
  /\ WF_MCVars(MCScript(File!ChildStep))
  /\ WF_MCVars(MCStandard(Standard!ShellStep))
  /\ WF_MCVars(MCStandard(Standard!ChildStep))

-----------------------------------------------------------------------------
(* Properties *)

\* A line of sish_loop leaves the descriptors as they were; and, unless a completion
\* closed the copies of them, descriptor 0 is the terminal again.
DescriptorsKept == LineBalanced /\ (part = "untabbed" => TerminalBack)

\* history_save and history_load keep the newest lines.
HistoryIsRecent == Editor!HistoryIsRecent

\* The arrows and keys of sish_loop: what is shown is what is run, and what is
\* recalled is what the cursor is at.
ShownIsRun == Editor!ShownIsRun /\ Editor!CursorAgrees

\* README: what is run is what was typed.  False: an arrow up that finds nothing older
\* clears the line (sish_loop).
LineTaken == Editor!LineTaken

\* The pipe of execute, by way of .pipe_temp, which does not outlast its line: all
\* pipes of a script deliver, or the first where the library remembers the end of stdin.
PipeDelivers ==
  /\ part = "script" => File!PipeDelivers
  /\ part = "standard" => Standard!PipeDelivers
  /\ File!TempRemoved

\* Every pipe delivers under both libraries.  False where the end of stdin is remembered.
EveryPipeDelivers == File!EveryPipeDelivers

\* sish_file_mode goes on past a line just when its programs started.
FailureStops == File!FailureStops

\* README: "When the given program completes its execution, it receives the next
\* input string, to run another program" (execute).
Repetition == File!Repetition
=============================================================================
