------------------------------ MODULE Install ------------------------------
(***************************************************************************)
(* What the addon controller promises of the workload cluster behind a     *)
(* Cluster: Kubewarden is put there stage by stage, a stage is begun only  *)
(* when those before it are done, nothing that was done is undone while    *)
(* the Cluster exists, and the Cluster is marked last.  How long it takes, *)
(* how often it is tried and by whom is left open.                         *)
(***************************************************************************)
EXTENDS Naturals

CONSTANTS Cluster,  \* names of Clusters
          Stage     \* the stages, by number

VARIABLE site       \* per Cluster: what there is of it

\* Whether the Cluster is there and says that Kubewarden is; the stages of
\* which something is there, and those of which everything is.
Site == [exists : BOOLEAN, marked : BOOLEAN, begun : SUBSET Stage, done : SUBSET Stage]

Nothing == [exists |-> FALSE, marked |-> FALSE, begun |-> {}, done |-> {}]
Fresh == [Nothing EXCEPT !.exists = TRUE]

Init == site \in [Cluster -> {Nothing, Fresh}]

\* Stages b may be begun when the stages d are done.
InOrder(b, d) == \A s \in b : \A q \in Stage : q < s => q \in d

Appear(old, new) == old = Nothing /\ new = Fresh

Vanish(old, new) == old.exists /\ new = Nothing

Work(old, new) ==
    /\ new \in Site
    /\ old.exists /\ new.exists
    /\ new.marked = old.marked
    /\ old.begun \subseteq new.begun
    /\ old.done \subseteq new.done
    /\ InOrder(new.begun, new.done)

Mark(old, new) ==
    /\ old.exists /\ old.done = Stage
    /\ new = [old EXCEPT !.marked = TRUE]

Moves(old, new) == Appear(old, new) \/ Vanish(old, new) \/ Work(old, new) \/ Mark(old, new)

\* The Clusters are independent of each other.
Next == \A c \in Cluster : site'[c] = site[c] \/ Moves(site[c], site'[c])

Spec == Init /\ [][Next]_site
=============================================================================
