------------------------------ MODULE Evacuation ------------------------------
(***************************************************************************)
(* What the control API promises about where deployments are served while  *)
(* nodes are deleted, without jobs, sweeps and reports.  NodeDeletion      *)
(* implements it (NodeDeletion!EvacuationSpec); the sentences are those of *)
(* docs/self-hosting.md:378-389.                                           *)
(*                                                                         *)
(* The promise lasts until the drain of a node is undone.                  *)
(***************************************************************************)

CONSTANTS
    Nodes, Deployments,
    Nowhere

VARIABLES
    home,             \* the node each deployment is assigned to, if any
    routed,           \* the deployments that their home answers for
    copies,           \* the artifacts each node has
    gone,             \* the nodes deleted
    undone            \* a node that drained takes on deployments again

vars == <<home, routed, copies, gone, undone>>

Init ==
    /\ home = [d \in Deployments |-> Nowhere]
    /\ routed = {}
    /\ copies = {}
    /\ gone = {}
    /\ undone = FALSE

Place(d, n) ==
    /\ home[d] = Nowhere
    /\ n \notin gone
    /\ home' = [home EXCEPT ![d] = n]
    /\ UNCHANGED <<routed, copies, gone>>

(* A deployment retired or a build that ended; nothing else takes a route  *)
(* down ("a failed deletion keeps the source routes intact").              *)
Withdraw(d) ==
    /\ home' = [home EXCEPT ![d] = Nowhere]
    /\ routed' = routed \ {d}
    /\ UNCHANGED <<copies, gone>>

Stage(n, d) ==
    /\ n \notin gone
    /\ copies' = copies \cup {<<n, d>>}
    /\ UNCHANGED <<home, routed, gone>>

Serve(n, d) ==
    /\ home[d] = n
    /\ n \notin gone
    /\ copies' = copies \cup {<<n, d>>}
    /\ routed' = routed \cup {d}
    /\ UNCHANGED <<home, gone>>

(* Everything a node has goes to another one in one step, and only when    *)
(* every replacement is there ("routes switch atomically only after every  *)
(* replacement is Ready").                                                 *)
HandOver(n, t) ==
    LET leaving == {d \in Deployments : home[d] = n}
    IN  /\ t \notin gone
        /\ \A d \in leaving : <<t, d>> \in copies
        /\ home' = [d \in Deployments |-> IF d \in leaving THEN t ELSE home[d]]
        /\ UNCHANGED <<routed, copies, gone>>

(* A node is deleted when nothing is left on it.                           *)
Remove(n) ==
    /\ \A d \in Deployments : home[d] # n
    /\ gone' = gone \cup {n}
    /\ UNCHANGED <<home, routed, copies>>

Next ==
    \/ \E d \in Deployments :
          \/ Withdraw(d)
          \/ \E n \in Nodes : Place(d, n) \/ Stage(n, d) \/ Serve(n, d)
    \/ \E n \in Nodes : Remove(n) \/ \E t \in Nodes : HandOver(n, t)

Spec == Init /\ [][undone' \/ (Next /\ UNCHANGED undone)]_vars
===============================================================================
