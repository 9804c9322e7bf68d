-------------------------- MODULE SnapshotRegister --------------------------
(***************************************************************************)
(* What the allied build-queue overlay of tdraw.dll promises a viewer: it  *)
(* shows nothing, or one of the snapshots its ally took of its own queue,  *)
(* whole, and it never goes back to an older snapshot without having been  *)
(* cleared in between.                                                     *)
(***************************************************************************)
EXTENDS Naturals, FiniteSets

CONSTANT Content      \* the snapshots there may be

VARIABLES
    published,        \* the snapshots taken so far: records of turn and content
    shown,            \* the turn of the snapshot on display, 0 for none
    display           \* what the viewer sees

Entry == [turn : Nat, content : Content]

Init ==
    /\ published = {} /\ shown = 0 /\ display = {}

\* The ally takes one more snapshot.
Publish(content) ==
    /\ published' = published \cup {[turn |-> Cardinality(published) + 1, content |-> content]}
    /\ UNCHANGED <<shown, display>>

\* The display moves on to a later snapshot.
Show(e) ==
    /\ e.turn > shown
    /\ shown' = e.turn /\ display' = e.content
    /\ UNCHANGED published

\* The display is cleared: nothing was heard for too long, or the alliance ended.
Clear ==
    /\ shown' = 0 /\ display' = {}
    /\ UNCHANGED published

Next ==
    \/ \E content \in Content : Publish(content)
    \/ \E e \in published : Show(e)
    \/ Clear

Spec == Init /\ [][Next]_<<published, shown, display>>
=============================================================================
