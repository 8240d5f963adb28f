---------------------------- MODULE RecordStream ----------------------------
(***************************************************************************)
(* What the sampler promises (docs/twirl_record_sampler.md, Sampling): the *)
(* rows since the last seed are those of the shots 0, 1, 2, ... of that    *)
(* seed, a shot's row being a function of the seed and of its index alone, *)
(* without the rows that a postselection mask drops.  There are no calls,  *)
(* batches, routes or caches here.  A call that fails gives up the promise *)
(* until the sampler is seeded again.                                      *)
(***************************************************************************)
EXTENDS Integers, Sequences

CONSTANTS
    Seeds,          \* the seeds
    Answer(_, _),   \* Answer(sd, i): the row of shot i under seed sd
    Bad             \* the answers a postselection mask drops

VARIABLES
    seed,           \* the seed in force
    at,             \* index of the next shot
    out,            \* rows since the seed: shot index and answer
    masked,         \* the call in force has a postselection mask
    exact           \* no call has failed since the seed

vars == <<seed, at, out, masked, exact>>

Row(i) == [shot |-> i, answer |-> Answer(seed, i)]

Init == seed \in Seeds /\ at = 0 /\ out = <<>> /\ masked = FALSE /\ exact = TRUE

(* The next shot: its row, unless the mask of the call drops it. *)
Shot ==
    /\ exact
    /\ at' = at + 1
    /\ out' = IF masked /\ Answer(seed, at) \in Bad THEN out ELSE Append(out, Row(at))
    /\ UNCHANGED <<seed, masked, exact>>

Call(m) == masked' = m /\ UNCHANGED <<seed, at, out, exact>>

Reseed(sd) == seed' = sd /\ at' = 0 /\ out' = <<>> /\ exact' = TRUE /\ UNCHANGED masked

(* A call fails, and what the sampler does until it is seeded again: anything. *)
Fail == exact' = FALSE /\ UNCHANGED seed

Next == \/ Shot
        \/ \E m \in BOOLEAN : Call(m)
        \/ \E sd \in Seeds : Reseed(sd)
        \/ Fail

Spec == Init /\ [][Next]_vars

=============================================================================
