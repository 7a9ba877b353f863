------------------------------- MODULE Script -------------------------------
(***************************************************************************)
(* src/hw1-shell: sish_file_mode, which runs the lines of a script, and    *)
(* execute, which runs a line as one program or as two with a pipe between *)
(* them.  The shell does not connect the two programs: it waits for the    *)
(* left one, copies what it wrote from the pipe to a file, and gives the   *)
(* name of the file to the right one as its last argument.                 *)
(*                                                                         *)
(* The processes are the shell and the one child it has at a time.  What a *)
(* program writes is counted in lines of text; the k-th one is k.          *)
(***************************************************************************)
EXTENDS ShellLine

CONSTANTS
  Programs,    \* words execvp finds a program for
  Lines,       \* the lines scripts are made of: sequences of words
  MaxLines,    \* bound: lines in a script
  MaxOut,      \* bound: what a program writes
  PipeSize,    \* what a pipe holds, not 0
  StickyEof,   \* does the C library remember that stdin has ended?
  NONE

VARIABLES
  pc,                \* where the shell is, or how it ended
  words,             \* arr: the words of the line
  child,             \* the child, [role, word, pc, todo], or NONE
  pipe,              \* what is in the pipe
  eof,               \* the end-of-file flag of the stream stdin
  pipe_temp,         \* the contents of the file .pipe_temp, or NONE
  execute_checker,   \* the flag execute shares with its children
  lines,             \* bound: lines read
  written, failed,   \* history: what the left program of the line wrote; did a
                     \* program of the line fail to start?
  piped              \* history: did an earlier line have a pipe?

vars ==
  <<pc, words, child, pipe, eof, pipe_temp, execute_checker, lines, written, failed, piped>>

Ended == {"exited", "failed", "crashed"}

Init ==
  /\ pc = "read"
  /\ words = <<>>
  /\ child = NONE
  /\ pipe = <<>>
  /\ eof = FALSE
  /\ pipe_temp = NONE
  /\ execute_checker = 0
  /\ lines = 0
  /\ written = <<>>
  /\ failed = FALSE
  /\ piped = FALSE

-----------------------------------------------------------------------------
(* sish_file_mode *)

\* The line is read and split.  The test for an empty line comes after its newline
\* was cut off and never holds; strcmp is then given the null at the end of arr.
ReadLine ==
  /\ pc = "read"
  /\ lines < MaxLines
  /\ lines' = lines + 1
  /\ \E line \in Lines :
       /\ words' = line
       /\ pc' = IF line = <<>> THEN "crashed"
                ELSE IF line[1] = CD THEN "read" ELSE "execute"
  /\ UNCHANGED <<child, pipe, eof, pipe_temp, execute_checker, written, failed, piped>>

EndOfScript ==
  /\ pc = "read"
  /\ pc' = "exited"
  /\ UNCHANGED <<words, child, pipe, eof, pipe_temp, execute_checker, lines, written, failed, piped>>

-----------------------------------------------------------------------------
(* execute, the shell's part *)

Child(role, word) == [role |-> role, word |-> word, pc |-> "exec", todo |-> 0]

\* A new flag, a new pipe if the line has one, and the first child.
Fork ==
  /\ pc = "execute"
  /\ execute_checker' = 0
  /\ written' = <<>>
  /\ failed' = FALSE
  /\ pipe' = <<>>
  /\ IF ~IsPipe(words)
     THEN child' = Child("only", words[1]) /\ pc' = "wait"
     ELSE child' = Child("left", words[1]) /\ pc' = "wait left"
  /\ UNCHANGED <<words, eof, pipe_temp, lines, piped>>

\* wait(0); then stdin is the pipe, the other end is closed and .pipe_temp is new.
WaitLeft ==
  /\ pc = "wait left"
  /\ child = NONE
  /\ pipe_temp' = <<>>
  /\ pc' = "copy"
  /\ UNCHANGED <<words, child, pipe, eof, execute_checker, lines, written, failed, piped>>

\* A bug to be caught: the shell keeps open the end of the pipe it does not use.
AtEnd_open == StickyEof /\ eof

\* A bug to be caught: a line that comes last is taken for the end.
AtEnd_early == Len(pipe) <= 1

\* fgets returns null: the pipe is empty and no writer is left, or the stream
\* remembers an earlier end.
AtEnd == (pipe = <<>> /\ child = NONE) \/ (StickyEof /\ eof)

CopyLine ==
  /\ pc = "copy"
  /\ ~AtEnd
  /\ pipe # <<>>
  /\ pipe_temp' = Append(pipe_temp, Head(pipe))
  /\ pipe' = Tail(pipe)
  /\ UNCHANGED <<pc, words, child, eof, execute_checker, lines, written, failed, piped>>

CopyEnd ==
  /\ pc = "copy"
  /\ AtEnd
  /\ eof' = TRUE
  /\ pc' = "fork right"
  /\ UNCHANGED <<words, child, pipe, pipe_temp, execute_checker, lines, written, failed, piped>>

ForkRight ==
  /\ pc = "fork right"
  /\ child' = Child("right", words[PipeAt(words) + 1])
  /\ pc' = "wait"
  /\ UNCHANGED <<words, pipe, eof, pipe_temp, execute_checker, lines, written, failed, piped>>

\* A bug to be caught: the file stays.
AfterWait_kept == pipe_temp

\* What the last wait leaves of .pipe_temp.
AfterWait == NONE

\* wait(0), and sish_file_mode with the result of execute: an error ends the script.
Wait ==
  /\ pc = "wait"
  /\ child = NONE
  /\ pipe_temp' = AfterWait
  /\ pc' = IF execute_checker = -1 THEN "failed" ELSE "read"
  /\ piped' = (piped \/ IsPipe(words))
  /\ UNCHANGED <<words, child, pipe, eof, execute_checker, lines, written, failed>>

\* fork or pipe may fail; execute or its caller then exits, and .pipe_temp stays.
ForkFails ==
  /\ pc \in {"execute", "fork right"}
  /\ pc' = "failed"
  /\ UNCHANGED <<words, child, pipe, eof, pipe_temp, execute_checker, lines, written, failed, piped>>

-----------------------------------------------------------------------------
(* execute, the child's part *)

\* execvp succeeds, with a program that has some number of lines to write.
Exec ==
  /\ child # NONE
  /\ child.pc = "exec"
  /\ child.word \in Programs
  /\ \E n \in 0..(IF child.role = "left" THEN MaxOut ELSE 0) :
       child' = [child EXCEPT !.pc = "run", !.todo = n]
  /\ UNCHANGED <<pc, words, pipe, eof, pipe_temp, execute_checker, lines, written, failed, piped>>

\* A bug to be caught: the flag is private to the child.
CheckerOf_private == execute_checker

\* The flag a child that could not start its program leaves.
CheckerOf == -1

ExecFails ==
  /\ child # NONE
  /\ child.pc = "exec"
  /\ child.word \notin Programs
  /\ execute_checker' = CheckerOf
  /\ failed' = TRUE
  /\ child' = NONE
  /\ UNCHANGED <<pc, words, pipe, eof, pipe_temp, lines, written, piped>>

\* The left program, whose stdout is the pipe, waits for room in it.
Write ==
  /\ child # NONE
  /\ child.pc = "run"
  /\ child.todo > 0
  /\ Len(pipe) < PipeSize
  /\ pipe' = Append(pipe, Len(written) + 1)
  /\ written' = Append(written, Len(written) + 1)
  /\ child' = [child EXCEPT !.todo = @ - 1]
  /\ UNCHANGED <<pc, words, eof, pipe_temp, execute_checker, lines, failed, piped>>

Exit ==
  /\ child # NONE
  /\ child.pc = "run"
  /\ child.todo = 0
  /\ child' = NONE
  /\ UNCHANGED <<pc, words, pipe, eof, pipe_temp, execute_checker, lines, written, failed, piped>>

-----------------------------------------------------------------------------
ChildStep == Exec \/ ExecFails \/ Write \/ Exit

\* What the shell does of itself once it has a line.
ShellStep == Fork \/ WaitLeft \/ CopyLine \/ CopyEnd \/ ForkRight \/ Wait \/ ForkFails

Next == ReadLine \/ EndOfScript \/ ShellStep \/ ChildStep

Spec == Init /\ [][Next]_vars

\* The kernel schedules both processes, and programs go on writing.
FairSpec == Spec /\ WF_vars(ShellStep) /\ WF_vars(ChildStep)

-----------------------------------------------------------------------------
(* Properties *)

\* A right program starts with what the left program of its line wrote, by way of the
\* pipe, the stream stdin and the file (execute): all of it and nothing of an earlier
\* line's.  Where the library remembers the end of stdin that is so for the first pipe
\* of a script only; the right programs of later ones get an empty file.
PipeDelivers ==
  pc = "fork right" => pipe_temp = IF StickyEof /\ piped THEN <<>> ELSE written

\* The same for every pipe, whatever earlier lines did.  False where the library
\* remembers the end: execute does not clear it (execute.c:99).
EveryPipeDelivers == pc = "fork right" => pipe_temp = written

\* The result of a line, -1 or not, comes by one flag from two children: the script
\* goes on past a line just when all its programs started.
FailureStops ==
  [][ /\ (pc = "wait" /\ pc' = "read" => ~failed)
      /\ (pc = "wait" /\ pc' = "failed" => failed) ]_pc

\* .pipe_temp is there only within a line.
TempRemoved == pc \in {"read", "execute", "exited"} => pipe_temp = NONE

\* README: "When the given program completes its execution, it receives the next
\* input string, to run another program."
Repetition == (pc = "execute") ~> (pc \in Ended \union {"read"})
=============================================================================
