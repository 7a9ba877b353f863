---------------------------- MODULE ProcessMemory ----------------------------
(***************************************************************************)
(* What virtual memory promises a process: memory of its own.  The first   *)
(* access to a word writes it, unless the word came with the program; every *)
(* later access reads what was written.  (One word per page stands for     *)
(* all of them.)                                                           *)
(***************************************************************************)
CONSTANTS Procs,    \* processes
          Pages,    \* page numbers
          BLANK,    \* a word whose high bit is clear
          PROGRAM   \* a word of the initial memory whose high bit is set

Owned(p, v) == <<p, v>>

VARIABLES
  store,   \* store[p][v]: the word of page v of process p
  access   \* the last access: who, which page, whether it wrote, and the word

vars == <<store, access>>

NoAccess == [proc |-> BLANK, page |-> BLANK, wrote |-> FALSE, word |-> BLANK]

Init ==
  /\ store = [p \in Procs |-> [v \in Pages |-> BLANK]]
  /\ access = NoAccess

Answer(p, v, wrote, word) ==
  access' = [proc |-> p, page |-> v, wrote |-> wrote, word |-> word]

Write(p, v) ==
  /\ store[p][v] = BLANK
  /\ store' = [store EXCEPT ![p][v] = Owned(p, v)]
  /\ Answer(p, v, TRUE, Owned(p, v))

\* The word read is what the page holds; a page not accessed before may have
\* come with the program.
Read(p, v) ==
  /\ \/ store[p][v] # BLANK /\ UNCHANGED store
     \/ store[p][v] = BLANK /\ store' = [store EXCEPT ![p][v] = PROGRAM]
  /\ Answer(p, v, FALSE, store'[p][v])

Next == \E p \in Procs, v \in Pages : Write(p, v) \/ Read(p, v)

Spec == Init /\ [][Next]_vars
=============================================================================
