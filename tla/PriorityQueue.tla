---------------------------- MODULE PriorityQueue ----------------------------
(***************************************************************************)
(* What the ready heap of the SJF scheduler promises: a set of nodes from  *)
(* which a node with the smallest cpu burst is taken.  Which one of several *)
(* equal nodes is taken is left open.                                      *)
(***************************************************************************)
EXTENDS Naturals

CONSTANTS Nodes,    \* the PCBs, each with a field cpu_burst
          NULL      \* what a delete from an empty queue returns

VARIABLES items,    \* the nodes in the queue
          returned  \* what the last operation returned, NULL for an insert

pqVars == <<items, returned>>

PQInit == items = {} /\ returned = NULL

Insert(node) ==
  /\ node \notin items
  /\ items' = items \cup {node}
  /\ returned' = NULL

DeleteMin ==
  \E node \in items :
    /\ \A other \in items : node.cpu_burst <= other.cpu_burst
    /\ items' = items \ {node}
    /\ returned' = node

DeleteEmpty ==
  /\ items = {}
  /\ returned' = NULL
  /\ UNCHANGED items

PQNext == DeleteMin \/ DeleteEmpty \/ \E node \in Nodes : Insert(node)

PQSpec == PQInit /\ [][PQNext]_pqVars
=============================================================================
