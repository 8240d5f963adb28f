------------------------------ MODULE ChainRule ------------------------------
(***************************************************************************)
(* What a walk of a Born trie promises: the outcomes of a plan's           *)
(* directions are drawn one after the other, each from the law of its      *)
(* direction on the bare register projected through the outcomes drawn     *)
(* before it in the same walk.  There is no trie, no memo and no carried   *)
(* state, but for one thing a walk cut by an exception may leave: after it *)
(* no walk draws, and any may end the process.                             *)
(***************************************************************************)
EXTENDS Integers, Sequences

CONSTANTS
    Plans, NoPlan,
    Lam           \* the directions of each plan

VARIABLES
    plan,         \* the plan being walked, or NoPlan
    bits,         \* outcomes drawn in this walk
    asked,        \* the law the last outcome was drawn from
    ended,        \* how the last walk ended
    lost          \* an exception has left the walker unusable

chainVars == <<plan, bits, asked, ended, lost>>

Nowhere == [on |-> <<>>, of |-> <<>>]

(* The law of direction dirs[Len(z) + 1] after the outcomes z. *)
LawAfter(dirs, z) ==
    [on |-> [i \in DOMAIN z |-> <<dirs[i], z[i]>>], of |-> dirs[Len(z) + 1]]

ChainInit ==
    /\ plan = NoPlan
    /\ bits = <<>>
    /\ asked = Nowhere
    /\ ended = "never"
    /\ lost = FALSE

ChainStart ==
    /\ plan = NoPlan
    /\ ended # "died"
    /\ plan' \in Plans
    /\ UNCHANGED <<bits, asked, ended, lost>>

ChainDraw ==
    /\ plan # NoPlan
    /\ ~lost
    /\ Len(bits) < Len(Lam[plan])
    /\ bits' \in {Append(bits, 0), Append(bits, 1)}
    /\ asked' = LawAfter(Lam[plan], bits)
    /\ UNCHANGED <<plan, ended, lost>>

(* A walk is complete only after its last direction; it may be cut short    *)
(* by an exception, which may leave the walker unusable.                    *)
ChainEnd ==
    /\ plan # NoPlan
    /\ plan' = NoPlan
    /\ \/ ended' = "complete" /\ Len(bits) = Len(Lam[plan]) /\ UNCHANGED lost
       \/ ended' = "thrown" /\ lost' \in {lost, TRUE}
       \/ ended' = "died" /\ lost /\ UNCHANGED lost
    /\ bits' = <<>>
    /\ asked' = Nowhere

ChainNext == ChainStart \/ ChainDraw \/ ChainEnd

ChainSpec == ChainInit /\ [][ChainNext]_chainVars /\ WF_chainVars(ChainDraw \/ ChainEnd)

=============================================================================
