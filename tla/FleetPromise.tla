--------------------------- MODULE FleetPromise ---------------------------
(***************************************************************************)
(* What a fleet promises about its replicas, without its reads, its cache, *)
(* its status or its tie-breaks.                                           *)
(*                                                                         *)
(* In rounds, the fleet surveys the nodes known to be on their way out and *)
(* draws up orders: at most one per slot, at most Cap moves, each move off *)
(* a node on its way out and onto one that is not, creations likewise, and *)
(* removals of slots it does not want.  Orders are carried out one at a    *)
(* time, or dropped.  Nothing else ever gives a replica another node; a    *)
(* replica can only be lost.                                               *)
(***************************************************************************)
EXTENDS Integers, FiniteSets

CONSTANTS
    Slots,      \* names of the replicas
    Nodes,      \* names of the nodes
    NoNode,     \* no replica
    Cap         \* moves per round; none when not positive

VARIABLES
    child,      \* slot -> node of its replica, or NoNode
    wanted,     \* slots the fleet believes it is asked for
    displaced,  \* nodes on their way out
    orders      \* what is left of the round

promiseVars == <<child, wanted, displaced, orders>>

MaybeNode == Nodes \cup {NoNode}

Order == [slot : Slots, from : MaybeNode, to : MaybeNode]

IsMove(o) == o.from # NoNode /\ o.to \notin {NoNode, o.from}

Moved(os) == {i \in Slots : \E o \in os : o.slot = i /\ IsMove(o)}

\* Orders that may be given on a survey that knows of the nodes `gone`.
Sound(os, gone) ==
    /\ os \subseteq Order
    /\ \A o \in os, p \in os : o.slot = p.slot => o = p
    /\ \A o \in os :
          /\ o.from = child[o.slot]
          /\ o.to = NoNode <=> o.slot \notin wanted
          /\ o.to \notin {NoNode, o.from} =>
                o.from \in gone \cup {NoNode} /\ o.to \notin gone
    /\ Moved(os) # {} => Cardinality(Moved(os)) <= Cap

Survey ==
    /\ orders = {}
    /\ \E gone \in SUBSET displaced : Sound(orders', gone)
    /\ UNCHANGED <<child, wanted, displaced>>

\* A replica lost since the survey is put where the order says.
CarryOut(o) ==
    /\ o \in orders
    /\ child[o.slot] \in {o.from, NoNode}
    /\ child' = [child EXCEPT ![o.slot] = o.to]
    /\ orders' = orders \ {o}
    /\ UNCHANGED <<wanted, displaced>>

Drop ==
    /\ orders' = {}
    /\ UNCHANGED <<child, wanted, displaced>>

\* The fleet learns what is asked of it, in a round or between two.
Hear ==
    /\ wanted' \subseteq Slots
    /\ UNCHANGED <<child, displaced, orders>>

Displace ==
    /\ displaced' \subseteq Nodes
    /\ UNCHANGED <<child, wanted, orders>>

Lose(i) ==
    /\ child[i] # NoNode
    /\ child' = [child EXCEPT ![i] = NoNode]
    /\ UNCHANGED <<wanted, displaced, orders>>

Init ==
    /\ child = [i \in Slots |-> NoNode]
    /\ wanted \subseteq Slots
    /\ displaced = {}
    /\ orders = {}

Next ==
    \/ Survey
    \/ \E o \in orders : CarryOut(o)
    \/ Drop
    \/ Hear
    \/ Displace
    \/ \E i \in Slots : Lose(i)

Spec == Init /\ [][Next]_promiseVars
=============================================================================
