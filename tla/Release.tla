-------------------------------- MODULE Release --------------------------------
(***************************************************************************)
(* What the control API promises of one production environment, without    *)
(* saying how: which version is active, which one waits to become active,  *)
(* and which ones a Serve node can answer with.  Delivery implements it    *)
(* (Delivery!ReleaseSpec); the sentences are those of                      *)
(* docs/self-hosting.md:552-567.                                           *)
(*                                                                         *)
(* Where several versions are served, which of the superseded ones stop    *)
(* being served, and when, is left open: never the active one.             *)
(***************************************************************************)

CONSTANTS
    Versions,
    NoVersion

VARIABLES
    active,           \* the version published, if any
    waiting,          \* the version to be published once it is served, if any
    served            \* the versions a Serve node has ready

vars == <<active, waiting, served>>

Init ==
    /\ active = NoVersion
    /\ waiting = NoVersion
    /\ served = {}

(* Superseded versions may stop being served in any step.                  *)
KeepActive == active \in served => active \in served'

(* A version becomes active when it is served, and at once: what was       *)
(* active before is replaced in the same step.  A version that waited      *)
(* waits no longer; another one that waits goes on waiting.                *)
Publish(v) ==
    /\ active' = v
    /\ waiting' = IF waiting = v THEN NoVersion ELSE waiting
    /\ v \in served'
    /\ served' \subseteq served \cup {v}

(* A version that is not served waits; one at a time, and none is replaced.*)
Queue(v) ==
    /\ waiting = NoVersion
    /\ v \notin served
    /\ waiting' = v
    /\ served' \subseteq served
    /\ KeepActive
    /\ UNCHANGED active

(* A node reports a version ready: if it was the one that waits, it is     *)
(* published (Publish).                                                    *)
Serve(v) ==
    /\ v # waiting
    /\ v \in served'
    /\ served' \subseteq served \cup {v}
    /\ KeepActive
    /\ UNCHANGED <<active, waiting>>

(* A node synchronizes a version again, or superseded ones are retired.    *)
Resync(v) ==
    /\ served' = served \ {v}
    /\ UNCHANGED <<active, waiting>>

Retire ==
    /\ served' \subseteq served
    /\ KeepActive
    /\ UNCHANGED <<active, waiting>>

(* A publication is removed: the version is neither active nor served, and *)
(* does not come back by itself.                                           *)
Remove(v) ==
    /\ active' = IF active = v THEN NoVersion ELSE active
    /\ waiting' = IF waiting = v THEN NoVersion ELSE waiting
    /\ served' \subseteq served \ {v}
    /\ active # v => KeepActive

Next ==
    \/ \E v \in Versions : Publish(v) \/ Queue(v) \/ Serve(v) \/ Resync(v) \/ Remove(v)
    \/ Retire

Spec == Init /\ [][Next]_vars
===============================================================================
