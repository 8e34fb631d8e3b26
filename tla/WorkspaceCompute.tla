-------------------------- MODULE WorkspaceCompute --------------------------
(***************************************************************************)
(* What the cloud runtime promises its host about the compute of one       *)
(* workspace, without coordinators, locks, calls or provider: machines     *)
(* come one after the other, and a generation begins only after the one    *)
(* before it has been confirmed destroyed.                                 *)
(***************************************************************************)
EXTENDS Naturals

CONSTANT MaxGen

Generations == 1 .. MaxGen

VARIABLES
    life,   \* generation -> how far the workspace has gone with it
    up,     \* the generations that have a machine
    strays  \* the destroyed generations of which a late create left a container

computeVars == <<life, up, strays>>

\* none: not begun; planned: its allocation is committed; condemned: so is its
\* destroy; gone: the machine is destroyed; retired: and that is confirmed.
Stations == {"none", "planned", "condemned", "gone", "retired"}

ComputeInit ==
    /\ life = [g \in Generations |-> "none"]
    /\ up = {}
    /\ strays = {}

\* Generation g goes from one station to another.
Move(g, from, to) ==
    /\ life[g] = from
    /\ life' = [life EXCEPT ![g] = to]
    /\ UNCHANGED <<up, strays>>

Plan(g) ==
    /\ \A h \in Generations : h < g => life[h] = "retired"
    /\ Move(g, "none", "planned")

Condemn(g) == Move(g, "planned", "condemned")

Bury(g) == g \notin up /\ Move(g, "condemned", "gone")

Retire(g) == Move(g, "gone", "retired")

\* A machine appears only while its generation lives, if at all.
Appear(g) ==
    /\ life[g] \in {"planned", "condemned"}
    /\ up' = up \cup {g}
    /\ UNCHANGED <<life, strays>>

\* A create that docker finishes too late leaves a container of a generation
\* that is gone, and only of such a one.
Stray(g) ==
    /\ life[g] \in {"gone", "retired"}
    /\ strays' = strays \cup {g}
    /\ UNCHANGED <<life, up>>

Vanish(g) ==
    /\ up' = up \ {g}
    /\ strays' = strays \ {g}
    /\ UNCHANGED life

ComputeNext ==
    \E g \in Generations :
        \/ Plan(g) \/ Condemn(g) \/ Bury(g) \/ Retire(g)
        \/ Appear(g) \/ Stray(g) \/ Vanish(g)

ComputeSpec == ComputeInit /\ [][ComputeNext]_computeVars
=============================================================================
