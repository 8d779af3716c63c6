------------------------- MODULE ReachabilitySweep --------------------------
(***************************************************************************)
(* The fixed-point sweep of logic/dock_rando.py (_reachable_nodes and      *)
(* _probe_reachable, which share it).  It walks a snapshot of the visited  *)
(* nodes, in whatever order Python's set gives them, grants the flags of   *)
(* each node, adds the targets of its open edges, and starts over until a  *)
(* whole pass changes nothing.                                             *)
(*                                                                         *)
(* An edge is open when its needs are among the flags.  An "or" is several *)
(* edges; negated events are left out (see the README).                    *)
(***************************************************************************)
EXTENDS FiniteSets

CONSTANTS Nodes, Flags

VARIABLES
  start,      \* the node the sweep starts from
  edges,      \* the candidate graph's edges, [from, to, needs]
  triggers,   \* pairs <<node, flag>>: the flags a visited node grants
  visited, flags, changed,
  todo        \* what is left of the snapshot list(visited)

graph == <<start, edges, triggers>>
vars  == <<graph, visited, flags, changed, todo>>

Edge    == [from : Nodes, to : Nodes, needs : SUBSET Flags]
Trigger == Nodes \X Flags

Init ==
  /\ start \in Nodes
  /\ edges \in SUBSET Edge
  /\ triggers \in SUBSET Trigger
  /\ visited = {start}
  /\ flags = {}
  /\ changed = TRUE
  /\ todo = {}

GrantedAt(n) == {f \in Flags : <<n, f>> \in triggers}

\* The targets of the edges of n that are open while holding held.
Found(n, held) ==
  {m \in Nodes : \E e \in edges : e.from = n /\ e.to = m /\ e.needs \subseteq held}

StartPass ==
  /\ todo = {}
  /\ changed
  /\ changed' = FALSE
  /\ todo' = visited
  /\ UNCHANGED <<graph, visited, flags>>

ScanIgnoresFlags(n) ==   \* mutant: only new nodes ask for another pass
  /\ n \in todo
  /\ todo' = todo \ {n}
  /\ flags' = flags \cup GrantedAt(n)
  /\ visited' = visited \cup Found(n, flags')
  /\ changed' = (changed \/ visited' # visited)
  /\ UNCHANGED graph

Scan(n) ==
  /\ n \in todo
  /\ todo' = todo \ {n}
  /\ flags' = flags \cup GrantedAt(n)
  /\ visited' = visited \cup Found(n, flags')
  /\ changed' = (changed \/ flags' # flags \/ visited' # visited)
  /\ UNCHANGED graph

Next == StartPass \/ \E n \in todo : Scan(n)

Spec     == Init /\ [][Next]_vars
FairSpec == Spec /\ WF_vars(Next)

Done == todo = {} /\ ~changed
-----------------------------------------------------------------------------
(* Properties.                                                             *)

TypeOK ==
  /\ start \in Nodes
  /\ edges \subseteq Edge
  /\ triggers \subseteq Trigger
  /\ visited \subseteq Nodes /\ todo \subseteq visited
  /\ flags \subseteq Flags
  /\ changed \in BOOLEAN

(* What is reached: the least set of nodes and flags closed under the graph. *)
Closed(ns, fs) ==
  /\ start \in ns
  /\ \A t \in triggers : t[1] \in ns => t[2] \in fs
  /\ \A e \in edges : e.from \in ns /\ e.needs \subseteq fs => e.to \in ns

Within(ns, fs) == visited \subseteq ns /\ flags \subseteq fs

\* At no time has the sweep visited a node, or granted a flag, that the graph
\* does not give: it accepts no candidate for an edge that is still shut.
SweepIsSound ==
  \A ns \in SUBSET Nodes, fs \in SUBSET Flags : Closed(ns, fs) => Within(ns, fs)

\* When it ends, whatever order the snapshots were walked in, it has found
\* everything, flags learned on the last node of a pass included.
SweepIsComplete == Done => Closed(visited, flags)

\* It ends on every graph.
SweepEnds == <>Done
=============================================================================
