----------------------------- MODULE LineEditor -----------------------------
(***************************************************************************)
(* src/hw1-shell: the keys of one line in sish_loop, with the arrows that  *)
(* recall earlier lines, and the history in memory and in its file.        *)
(*                                                                         *)
(* buffer is an array of letters in which NUL ends a string, as in C;      *)
(* what the user sees of the line is screen.  (Erasing more than the line  *)
(* has, which the code does, damages the prompt; that is left out.)        *)
(***************************************************************************)
EXTENDS Integers, SequencesExt

CONSTANTS
  Letters, NUL,  \* NUL is not a letter
  Size,          \* letters in the buffer (arg_max)
  HISTORY_MAX,   \* lines of history in memory: 500
  MaxFile        \* bound: lines in the history file

VARIABLES
  buffer, idx,       \* the line being typed, and where the next letter goes
  history_cursor,    \* which line of history is shown, newest first; -1: none
  history,           \* that line
  history_block,     \* the history in memory, oldest line first
  file,              \* the history file
  screen,            \* the line as shown
  status,            \* "running" or "crashed"
  lost               \* history: the buffer was cleared under the line being typed

vars == <<buffer, idx, history_cursor, history, history_block, file, screen, status, lost>>

-----------------------------------------------------------------------------
(* Strings in arrays *)

Cleared == [i \in 0..(Size - 1) |-> NUL]

strlen(b) == CHOOSE n \in 0..Size :
               /\ \A i \in 0..(n - 1) : b[i] # NUL
               /\ n < Size => b[n] = NUL

String(b) == [i \in 1..strlen(b) |-> b[i - 1]]

\* What was beyond the end of the string stays.
strcpy(b, s) == [i \in DOMAIN b |-> IF i < Len(s) THEN s[i + 1]
                                    ELSE IF i = Len(s) THEN NUL ELSE b[i]]

erase_console(shown, n) == SubSeq(shown, 1, Len(shown) - n)

-----------------------------------------------------------------------------
(* The history *)

\* A bug to be caught: the newest line is dropped.
Bounded_newest(block) == IF Len(block) > HISTORY_MAX THEN Front(block) ELSE block

\* The block is kept to its maximum at the cost of the oldest line.
Bounded(block) == IF Len(block) > HISTORY_MAX THEN Tail(block) ELSE block

\* The loop that reads the file.
Loaded(f) == FoldLeft(LAMBDA block, line : Bounded(Append(block, line)), <<>>, f)

\* l_get(history_block, size - 1 - history_cursor)
Recalled(c) == history_block[Len(history_block) - c]

\* A bug to be caught: the line recalled is remembered and the cursor is not.
FreshLine_recalled ==
  /\ buffer' = Cleared
  /\ idx' = 0
  /\ history_cursor' = -1
  /\ history' = history
  /\ screen' = <<>>
  /\ lost' = FALSE

\* The local variables of a line.
FreshLine ==
  /\ buffer' = Cleared
  /\ idx' = 0
  /\ history_cursor' = -1
  /\ history' = <<>>
  /\ screen' = <<>>
  /\ lost' = FALSE

Init ==
  /\ buffer = Cleared
  /\ idx = 0
  /\ history_cursor = -1
  /\ history = <<>>
  /\ screen = <<>>
  /\ file = <<>>
  /\ history_block = Loaded(file)
  /\ status = "running"
  /\ lost = FALSE

-----------------------------------------------------------------------------
(* The arrows *)

\* The buffer is not what was recalled: it is erased and cleared, idx stays.
Edited == String(buffer) # history
Buffer1 == IF Edited THEN Cleared ELSE buffer
Screen1 == IF Edited THEN erase_console(screen, strlen(buffer)) ELSE screen

Recall(c) ==
  /\ history_cursor' = c
  /\ history' = Recalled(c)
  /\ screen' = erase_console(Screen1, Len(history)) \o Recalled(c)
  /\ buffer' = strcpy(Buffer1, Recalled(c))
  /\ idx' = Len(Recalled(c))
  /\ UNCHANGED <<history_block, file, status, lost>>

HasOlder == history_cursor < HISTORY_MAX /\ history_cursor < Len(history_block) - 1

Up ==
  /\ status = "running"
  /\ IF HasOlder
     THEN Recall(history_cursor + 1)
     ELSE /\ buffer' = Buffer1
          /\ screen' = Screen1
          /\ lost' = (lost \/ (Edited /\ idx > 0))
          /\ UNCHANGED <<idx, history_cursor, history, history_block, file, status>>

Down ==
  /\ status = "running"
  /\ IF history_cursor > 0
     THEN Recall(history_cursor - 1)
     ELSE /\ history' = <<>>
          /\ buffer' = Cleared
          /\ screen' = erase_console(Screen1, Len(history))
          /\ idx' = 0
          /\ UNCHANGED <<history_cursor, history_block, file, status, lost>>

-----------------------------------------------------------------------------
(* The other keys *)

Type(letter) ==
  /\ status = "running"
  /\ idx < Size - 1
  /\ Len(screen) < Size   \* bound: letters that were lost stay on the screen
  /\ buffer' = [buffer EXCEPT ![idx] = letter]
  /\ idx' = idx + 1
  /\ screen' = Append(screen, letter)
  /\ UNCHANGED <<history_cursor, history, history_block, file, status, lost>>

\* The letter stays in the buffer.
Backspace ==
  /\ status = "running"
  /\ idx > 0
  /\ idx' = idx - 1
  /\ screen' = erase_console(screen, 1)
  /\ UNCHANGED <<buffer, history_cursor, history, history_block, file, status, lost>>

\* A bug to be caught: the end of the line is not marked.
Terminated_not == buffer

\* The string that a line ends as, by a tab or at its end.
Terminated == [buffer EXCEPT ![idx] = NUL]

Line == String(Terminated)

\* Completion shows the line again.
Complete ==
  /\ status = "running"
  /\ buffer' = Terminated
  /\ screen' = Line
  /\ UNCHANGED <<idx, history_cursor, history, history_block, file, status, lost>>

EmptyLine ==
  /\ status = "running"
  /\ idx = 0
  /\ FreshLine
  /\ UNCHANGED <<history_block, file, status>>

\* The line is executed; if that goes well it is saved, in the file and in memory.
Enter(ok) ==
  /\ status = "running"
  /\ idx > 0
  /\ Line # <<>>
  /\ ok => Len(file) < MaxFile
  /\ FreshLine
  /\ IF ok
     THEN /\ file' = Append(file, Line)
          /\ history_block' = Bounded(Append(history_block, Line))
     ELSE UNCHANGED <<file, history_block>>
  /\ UNCHANGED status

\* No word in the line: strcmp is given a null pointer.
EnterNothing ==
  /\ status = "running"
  /\ idx > 0
  /\ Line = <<>>
  /\ status' = "crashed"
  /\ UNCHANGED <<buffer, idx, history_cursor, history, history_block, file, screen, lost>>

\* The shell ends and is started again.
Restart ==
  /\ status = "running"
  /\ FreshLine
  /\ history_block' = Loaded(file)
  /\ UNCHANGED <<file, status>>

Next ==
  \/ Up \/ Down
  \/ \E letter \in Letters : Type(letter)
  \/ Backspace \/ Complete
  \/ EmptyLine \/ \E ok \in BOOLEAN : Enter(ok)
  \/ EnterNothing \/ Restart

Spec == Init /\ [][Next]_vars

-----------------------------------------------------------------------------
(* Properties *)

\* The history in memory is the newest part of the file, by the lines of this
\* session as well as by those it was loaded with.
HistoryIsRecent ==
  history_block = SubSeq(file, Max({1, Len(file) - HISTORY_MAX + 1}), Len(file))

\* The line recalled last is the one the cursor is at, until it is given up for an
\* empty line.
CursorAgrees ==
  /\ history_cursor \in -1..(Len(history_block) - 1)
  /\ history # <<>> => history_cursor >= 0 /\ history = Recalled(history_cursor)

\* Whatever is typed, erased, recalled and recalled over, the line that will be run
\* is the line shown, unless an arrow that found nothing older has cleared it on the way.
ShownIsRun == ~lost => Line = screen

\* README: "takes program name as input string": what is run is what was typed.
LineTaken == Line = screen
=============================================================================
