------------------------------- MODULE Shell -------------------------------
(***************************************************************************)
(* src/hw1-shell: sish_loop, the interactive shell, and its descriptors.   *)
(* For each line it duplicates stdin and stdout; execute puts a pipe in    *)
(* place of stdin, and the end of the line puts the copy back.             *)
(*                                                                         *)
(* The user types words and spaces; Script has the children of a line, and *)
(* LineEditor the letters of a word and the history.  Here the descriptor  *)
(* table of the shell, what it reads from, and the way a line ends.        *)
(***************************************************************************)
EXTENDS ShellLine, SequencesExt

CONSTANTS
  Keys,        \* what the user types: words, SPACE and TAB
  SPACE, TAB, QUIT,
  MaxFds,      \* size of the descriptor table
  MaxKeys,     \* bound: words and spaces in a line
  StickyEof    \* does the C library remember that stdin has ended?

ASSUME ShellAssumption == MaxFds \in Nat /\ MaxFds >= 6 /\ MaxKeys \in Nat /\ StickyEof \in BOOLEAN

VARIABLES
  pc,        \* where the shell is, or how it ended
  fds,       \* the descriptor table
  stdin_copy, stdout_copy,
  eof,       \* the end-of-file flag of the stream stdin
  buffer,    \* what was typed
  tabbed,    \* before = 9: the last key was a tab
  clean,     \* history: was the line executed, and did every fork of it succeed?
  found      \* history: the open descriptors at the start of the line

vars == <<pc, fds, stdin_copy, stdout_copy, eof, buffer, tabbed, clean, found>>

-----------------------------------------------------------------------------
(* The descriptor table t *)

OpenFds(t) == {n \in DOMAIN t : t[n] # "free"}

FreeFds(t) == DOMAIN t \ OpenFds(t)

\* The number open, dup and pipe give out.
Lowest(t) == IF FreeFds(t) = {} THEN -1 ELSE Min(FreeFds(t))

Opened(t, n, what) == IF n = -1 THEN t ELSE [t EXCEPT ![n] = what]

Closed(t, n) == IF n \in DOMAIN t THEN [t EXCEPT ![n] = "free"] ELSE t

Dup2(t, from, to) == IF from \in OpenFds(t) THEN [t EXCEPT ![to] = t[from]] ELSE t

Init ==
  /\ pc = "line"
  /\ fds = [n \in 0..(MaxFds - 1) |-> IF n < 3 THEN "terminal" ELSE "free"]
  /\ stdin_copy = -1 /\ stdout_copy = -1
  /\ eof = FALSE
  /\ buffer = <<>>
  /\ tabbed = FALSE
  /\ clean = FALSE
  /\ found = 0..2

-----------------------------------------------------------------------------
(* execute *)

\* pipe fails, and execute exits.
PipeFails(t) == Cardinality(FreeFds(t)) < 2

\* A bug to be caught: the shell does not close the end of the pipe it reads.
PipeDone_open(t) ==
  LET r == Lowest(t)
      w == Lowest(Opened(t, r, "pipe"))
  IN  Closed(Dup2(Opened(Opened(t, r, "pipe"), w, "pipe end"), r, 0), w)

\* The table after a pipe: stdin is what is left of it.  The file .pipe_temp was
\* opened when one end was closed, so a number was free for it.
PipeDone(t) ==
  LET r == Lowest(t)
      w == Lowest(Opened(t, r, "pipe"))
  IN  Closed(Closed(Dup2(Opened(Opened(t, r, "pipe"), w, "pipe end"), r, 0), w), r)

\* After a fork that failed the pipe stays open: both ends, or the end that was read.
NoFork(t) ==
  LET r == Lowest(t)
      w == Lowest(Opened(t, r, "pipe"))
  IN  Opened(Opened(t, r, "pipe"), w, "pipe end")

NoSecondFork(t) == Closed(Dup2(NoFork(t), Lowest(t), 0), Lowest(Opened(t, Lowest(t), "pipe")))

\* What execute may leave: the table, the flag of stdin, whether every fork
\* succeeded, and whether it returns 0.
Outcome(t, ended, forked, ok) == [t |-> t, eof |-> ended, forked |-> forked, ok |-> ok]

Outcomes(piped) ==
  IF ~piped
  THEN {Outcome(fds, eof, TRUE, TRUE), Outcome(fds, eof, TRUE, FALSE), Outcome(fds, eof, FALSE, FALSE)}
  ELSE {Outcome(PipeDone(fds), TRUE, TRUE, TRUE), Outcome(PipeDone(fds), TRUE, TRUE, FALSE),
        Outcome(NoFork(fds), eof, FALSE, FALSE), Outcome(NoSecondFork(fds), TRUE, FALSE, FALSE)}

\* A bug to be caught: stdin is not put back.
Restored_not(t) == Closed(Closed(t, stdin_copy), stdout_copy)

\* The copies are put back and closed.
Restored(t) ==
  Closed(Closed(Dup2(Dup2(t, stdin_copy, 0), stdout_copy, 1), stdin_copy), stdout_copy)

-----------------------------------------------------------------------------
(* sish_loop *)

\* The top of the loop.
NewLine ==
  /\ pc = "line"
  /\ stdin_copy' = Lowest(fds)
  /\ LET t == Opened(fds, stdin_copy', fds[0])
     IN  /\ stdout_copy' = Lowest(t)
         /\ fds' = Opened(t, stdout_copy', fds[1])
  /\ buffer' = <<>>
  /\ tabbed' = FALSE
  /\ pc' = "keys"
  /\ found' = OpenFds(fds)
  /\ clean' = TRUE
  /\ UNCHANGED eof

\* getchar finds the end of what stdin is, and goes on finding it.
Blind == fds[0] # "terminal" \/ (StickyEof /\ eof)

Type(key) ==
  /\ pc = "keys"
  /\ ~Blind
  /\ key # TAB
  /\ Len(buffer) < MaxKeys
  /\ buffer' = Append(buffer, key)
  /\ tabbed' = FALSE
  /\ UNCHANGED <<pc, fds, stdin_copy, stdout_copy, eof, clean, found>>

\* A second tab in a row runs "ls | grep" with the last word, and puts stdin back.
Tab ==
  /\ pc = "keys"
  /\ ~Blind
  /\ TAB \in Keys
  /\ tabbed' = TRUE
  /\ IF ~tabbed THEN UNCHANGED <<pc, fds, eof, clean>>
     ELSE IF PipeFails(fds) THEN pc' = "failed" /\ UNCHANGED <<fds, eof, clean>>
     ELSE \E out \in Outcomes(TRUE) :
            /\ fds' = Restored(out.t)
            /\ eof' = out.eof
            /\ clean' = (clean /\ out.forked)
            /\ UNCHANGED pc
  /\ UNCHANGED <<stdin_copy, stdout_copy, buffer, found>>

Words == SelectSeq(buffer, LAMBDA key : key # SPACE)

Enter(then) ==
  /\ pc = "keys"
  /\ ~Blind
  /\ pc' = then
  /\ UNCHANGED <<stdin_copy, stdout_copy, buffer, tabbed, found>>

\* An empty line, and cd with any arguments: the loop goes on from the top.
Skip ==
  /\ Enter("line")
  /\ buffer = <<>> \/ (Words # <<>> /\ Words[1] = CD)
  /\ clean' = FALSE
  /\ UNCHANGED <<fds, eof>>

\* A line of spaces: arr[0] is null and strcmp follows it.
Blank ==
  /\ Enter("crashed")
  /\ buffer # <<>>
  /\ Words = <<>>
  /\ UNCHANGED <<fds, eof, clean>>

Quit ==
  /\ Enter("exited")
  /\ Words # <<>>
  /\ Words[1] = QUIT
  /\ UNCHANGED <<fds, eof, clean>>

IsCommand == Words # <<>> /\ Words[1] \notin {CD, QUIT}

\* Any other line is executed, saved in the history file if that went well, and
\* stdin is put back.
Execute ==
  /\ Enter("line")
  /\ IsCommand
  /\ IsPipe(Words) => ~PipeFails(fds)
  /\ \E out \in Outcomes(IsPipe(Words)) :
       /\ out.ok => FreeFds(out.t) # {}
       /\ fds' = Restored(out.t)
       /\ eof' = out.eof
       /\ clean' = (clean /\ out.forked)

\* No descriptor is free for the pipe: execute exits.
NoPipe ==
  /\ Enter("failed")
  /\ IsCommand
  /\ IsPipe(Words)
  /\ PipeFails(fds)
  /\ UNCHANGED <<fds, eof, clean>>

\* None is free for the history file: history_save writes to a null stream.
NoHistory ==
  /\ Enter("crashed")
  /\ IsCommand
  /\ IsPipe(Words) => ~PipeFails(fds)
  /\ \E out \in Outcomes(IsPipe(Words)) : out.ok /\ FreeFds(out.t) = {}
  /\ UNCHANGED <<fds, eof, clean>>

Next ==
  \/ NewLine
  \/ \E key \in Keys : Type(key)
  \/ Tab
  \/ Skip \/ Blank \/ Quit \/ Execute \/ NoPipe \/ NoHistory

Spec == Init /\ [][Next]_vars

-----------------------------------------------------------------------------
(* Properties *)

\* An executed line leaves open the descriptors that were open before it, if no
\* fork failed; completions on the way, which close the copies that the end of the
\* line closes again, make no difference.
LineBalanced == pc = "line" /\ clean => OpenFds(fds) = found

\* The end of a line puts the terminal back in place of the pipe (sish_loop), unless a
\* completion closed the copy of it: keys are read from the terminal.
TerminalBack == pc = "keys" => fds[0] = "terminal"

\* README: "it receives the next input string": what the shell waits for a key on
\* is the terminal, and its stream not at its end.  False after completions, and after
\* a pipe where the library remembers the end of stdin.
PromptReads == pc = "keys" => ~Blind

\* README: "SiSH finishes execution when it gets 'quit' string from the user."
EndsOnlyByQuit == pc \notin {"failed", "crashed"}
=============================================================================
