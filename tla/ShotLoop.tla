------------------------------ MODULE ShotLoop ------------------------------
(***************************************************************************)
(* The shot loop of the twirl record sampler (run_w of                     *)
(* cpp/src/twirl_sampler_runw.inc.hpp) with its noise (DiagErrorSampler,   *)
(* keyed mode, cpp/src/diag_error_sampler.cpp), its fault accumulators,    *)
(* the early-reject mask (twirl_sampler_er.cpp) and set_seed.              *)
(*                                                                         *)
(* A noise channel k fires at the shots Fires[seed][k][0], [1], ..., which *)
(* is the sequence its keyed words give (word c gives the gap before event *)
(* c).  A channel has one alternative here.  The residual of a shot is the *)
(* set of its channels, composed by symmetric difference: the GF(2) part   *)
(* of the composition, which is what the plan key is made of.  The plan    *)
(* cache answers a lookup freely, its content being no part of a row.      *)
(***************************************************************************)
EXTENDS Integers, Sequences, FiniteSets

CONSTANTS
    Seeds,          \* seeds a call may pass
    NChannels,      \* number of noise channels
    Draws,          \* bound: the last event of a channel has this number
    Fires,          \* Fires[seed][k][c]: the shot at which event c of k fires
    Term,           \* channels with a PPR atom: their shots are term-routed
    EarlyBad,       \* residuals the early test of a mask rejects
    Bad,            \* residuals whose row a mask drops
    BatchMax,       \* shots of one noise batch (4096)
    SelfCheck,      \* configured self-check window
    MaxShots,       \* krng::kMaxShots: shot indices of one seed
    MaxAhead,       \* bound: noise shots generated beyond the index (failed calls)
    CutPoints       \* where a call may be ended by an exception

Channels == 1..NChannels

ASSUME ConstantsAssumption ==
    /\ NChannels \in Nat \ {0}
    /\ Draws \in Nat
    /\ Fires \in [Seeds -> [Channels -> [0..Draws -> Nat]]]
    /\ \A sd \in Seeds, k \in Channels : \A c, d \in 0..Draws :
          c < d => Fires[sd][k][c] < Fires[sd][k][d]
    /\ \A sd \in Seeds, k \in Channels : Fires[sd][k][Draws] >= MaxShots + MaxAhead
    /\ Term \subseteq Channels
    /\ EarlyBad \subseteq Bad
    /\ BatchMax \in Nat \ {0}
    /\ SelfCheck \in Nat
    /\ MaxShots \in Nat
    /\ MaxAhead \in Nat
    /\ CutPoints \subseteq {"clean", "term", "stream", "fast", "slow"}

VARIABLES
    seed,           \* seed_
    nextFire,       \* next_[k]: next event of channel k, from the batch's start
    drawn,          \* number of that event (kpos_[k] in words of the stream)
    pc,             \* where the sampler is; "idle": between calls
    genK,           \* the channel gen_events is at
    batch,          \* batch: channels fired in each shot of the batch
    cursor,         \* s: shots of the batch already taken
    left,           \* shots - done, not counting the batch
    doneShots,      \* done_shots_
    acc,            \* a_acc, v_acc, czw and their dirty lists
    key,            \* the key of the shot under way (ab_kw)
    checked,        \* checked: shots the window has verified
    window,         \* sc: the window of this call
    spent,          \* selfcheck_spent_
    masked,         \* this call has a postselection mask
    record,         \* how this call writes records: "none", on the plan's paths
                    \* (famrec) or all on the term route (fam_term_all_)
    rows,           \* history: rows since the seed
    exact,          \* history: no call has failed since the seed
    ahead           \* history: noise shots drawn and never sampled

noise == <<nextFire, drawn, genK, batch>>
call == <<left, window, masked, record>>
vars == <<seed, nextFire, drawn, pc, genK, batch, cursor, left, doneShots, acc, key,
          checked, window, spent, masked, record, rows, exact, ahead>>

-----------------------------------------------------------------------------
(* reseed: every channel at its first event. *)
FirstFire(sd) == [k \in Channels |-> Fires[sd][k][0]]

(* The state a construction leaves for seed sd. *)
Seeded(sd) ==
    /\ seed = sd
    /\ nextFire = FirstFire(sd)
    /\ drawn = [k \in Channels |-> 0]
    /\ doneShots = 0
    /\ checked = 0
    /\ rows = <<>> /\ exact = TRUE /\ ahead = 0

Init ==
    /\ \E sd \in Seeds : Seeded(sd)
    /\ pc = "idle"
    /\ genK = 1 /\ batch = <<>> /\ cursor = 0 /\ left = 0
    /\ acc = {} /\ key = {}
    /\ window = 0 /\ spent = FALSE
    /\ masked = FALSE /\ record = "none"

(* Mutant of SetSeed: the noise streams go on. *)
SetSeedKeepNoise(sd) ==
    /\ seed' = sd
    /\ UNCHANGED <<nextFire, drawn>>
    /\ doneShots' = 0
    /\ checked' = 0
    /\ rows' = <<>> /\ exact' = TRUE /\ ahead' = 0

(* set_seed: the streams, the shot index and the counters as a construction *)
(* leaves them.  The accumulators are not among what it resets.             *)
SetSeed(sd) ==
    /\ seed' = sd
    /\ nextFire' = FirstFire(sd)
    /\ drawn' = [k \in Channels |-> 0]
    /\ doneShots' = 0
    /\ checked' = 0
    /\ rows' = <<>> /\ exact' = TRUE /\ ahead' = 0

(* The seed of a call: sample(shots, seed). *)
Reseed(sd) ==
    /\ pc = "idle"
    /\ SetSeed(sd)
    /\ UNCHANGED <<pc, genK, batch, cursor, left, acc, key, window, spent, masked, record>>

(* run(n): refused by name when the index would pass MaxShots.  The window  *)
(* is that of the sampler's first call with shots, once.                    *)
Run(n, m, r) ==
    /\ pc = "idle"
    /\ n > 0
    /\ n <= MaxShots - doneShots
    /\ n <= (MaxShots - doneShots) + MaxAhead - ahead
    /\ left' = n
    /\ window' = IF spent THEN 0 ELSE SelfCheck
    /\ spent' = TRUE
    /\ masked' = m
    /\ record' = r
    /\ pc' = "shot"
    /\ UNCHANGED <<seed, noise, cursor, doneShots, acc, key, checked, rows, exact, ahead>>

-----------------------------------------------------------------------------
BatchOver == pc = "shot" /\ cursor = Len(batch)

(* Mutant of BatchSize: one shot short. *)
BatchSizeShort == IF left - 1 < BatchMax THEN left - 1 ELSE BatchMax

BatchSize == IF left < BatchMax THEN left ELSE BatchMax

(* sample_events(S): an empty batch of S shots, filled channel by channel. *)
StartBatch ==
    /\ BatchOver
    /\ left > 0
    /\ batch' = [s \in 1..BatchSize |-> {}]
    /\ left' = left - BatchSize
    /\ cursor' = 0
    /\ genK' = 1
    /\ pc' = "draw"
    /\ UNCHANGED <<seed, nextFire, drawn, doneShots, acc, key, checked, window, spent,
                   masked, record, rows, exact, ahead>>

(* The gap the next word of channel k gives. *)
Gap(k) == Fires[seed][k][drawn[k] + 1] - Fires[seed][k][drawn[k]] - 1

(* gen_events, one event of channel genK: the shot at which it fires, and   *)
(* the geometric gap to the next one.                                       *)
FireEvent ==
    /\ pc = "draw" /\ genK \in Channels
    /\ nextFire[genK] < Len(batch)
    /\ batch' = [batch EXCEPT ![nextFire[genK] + 1] = @ \cup {genK}]
    /\ nextFire' = [nextFire EXCEPT ![genK] = @ + 1 + Gap(genK)]
    /\ drawn' = [drawn EXCEPT ![genK] = @ + 1]
    /\ UNCHANGED <<seed, pc, genK, cursor, left, doneShots, acc, key, checked, window,
                   spent, masked, record, rows, exact, ahead>>

(* What is left of channel k's gap for the next batch. *)
Carried(k) == nextFire[k] - Len(batch)

(* The channel's next event lies beyond the batch: the gap is carried over. *)
ChannelDone ==
    /\ pc = "draw" /\ genK \in Channels
    /\ nextFire[genK] >= Len(batch)
    /\ nextFire' = [nextFire EXCEPT ![genK] = Carried(genK)]
    /\ genK' = genK + 1
    /\ UNCHANGED <<seed, drawn, pc, batch, cursor, left, doneShots, acc, key, checked,
                   window, spent, masked, record, rows, exact, ahead>>

BatchDrawn ==
    /\ pc = "draw" /\ genK = NChannels + 1
    /\ pc' = "shot"
    /\ UNCHANGED <<seed, noise, cursor, call, doneShots, acc, key, checked, spent, rows,
                   exact, ahead>>

-----------------------------------------------------------------------------
(* The shot under way, its index and its faults. *)
Faults == batch[cursor]
ShotIndex == doneShots - 1

(* The streaming path: outside the window, when no record needs the prefix. *)
Streams == record = "none" /\ checked >= window

SymDiff(A, B) == (A \ B) \cup (B \ A)

(* The term route: a fired PPR atom, or a recording run that is all-term. *)
TermRouted(F) == F \cap Term # {} \/ record = "term"

(* The next shot: its index is taken before anything else, so a rejected    *)
(* shot has one too.  The key is composed at once except on the             *)
(* accumulator path, where it is read off the accumulators.                 *)
TakeShot ==
    /\ pc = "shot" /\ cursor < Len(batch)
    /\ cursor' = cursor + 1
    /\ doneShots' = doneShots + 1
    /\ LET F == batch[cursor + 1]
       IN  \/ TermRouted(F) /\ pc' = "term" /\ key' = F
           \/ ~TermRouted(F) /\ F = {} /\ pc' = "clean" /\ key' = F
           \/ ~TermRouted(F) /\ F # {} /\ Streams /\ pc' = "stream" /\ key' = F
           \/ ~TermRouted(F) /\ F # {} /\ ~Streams /\ pc' = "sum" /\ key' = {}
    /\ UNCHANGED <<seed, noise, call, acc, checked, spent, rows, exact, ahead>>

(* The streaming path misses: the plan is not resident or has Born          *)
(* directions.                                                              *)
StreamMiss ==
    /\ pc = "stream"
    /\ ~(masked /\ key \in EarlyBad)
    /\ pc' = "sum"
    /\ UNCHANGED <<seed, noise, cursor, call, doneShots, acc, key, checked, spent, rows,
                   exact, ahead>>

(* The sparse accumulation and the canonical key read off it. *)
Accumulate ==
    /\ pc = "sum"
    /\ acc' = SymDiff(acc, Faults)
    /\ key' = acc'
    /\ pc' = "keyed"
    /\ UNCHANGED <<seed, noise, cursor, call, doneShots, checked, spent, rows, exact, ahead>>

(* Mutant of RejectIndex: a rejected shot gives its index back. *)
RejectIndexBack == doneShots - 1

(* The cumulative index after an early reject. *)
RejectIndex == doneShots

(* Mutant of Cleared: an early reject leaves the accumulators. *)
ClearedNot == acc

(* The accumulators after their reset. *)
Cleared == {}

(* Early reject: the mask drops the shot before any plan or draw. *)
RejectEarly ==
    /\ pc \in {"term", "clean", "stream", "keyed"}
    /\ masked /\ key \in EarlyBad
    /\ doneShots' = RejectIndex
    /\ acc' = IF pc = "keyed" THEN Cleared ELSE acc
    /\ pc' = "shot"
    /\ UNCHANGED <<seed, noise, cursor, call, key, checked, spent, rows, exact, ahead>>

(* The accumulator fast path: a resident plan outside the window.  The      *)
(* record rows are drawn first, then the accumulators are reset.            *)
FastPath ==
    /\ pc = "keyed" /\ ~(masked /\ key \in EarlyBad)
    /\ checked >= window
    /\ acc' = {}
    /\ pc' = "tail"
    /\ UNCHANGED <<seed, noise, cursor, call, doneShots, key, checked, spent, rows, exact,
                   ahead>>

(* The slow path: the normal form is copied and the accumulators are reset  *)
(* before anything is built.                                                *)
SlowPath ==
    /\ pc = "keyed" /\ ~(masked /\ key \in EarlyBad)
    /\ acc' = {}
    /\ pc' = "slow"
    /\ UNCHANGED <<seed, noise, cursor, call, doneShots, key, checked, spent, rows, exact,
                   ahead>>

(* The plan is found or built, the record drawn, a window shot counted. *)
SlowServed ==
    /\ pc = "slow"
    /\ checked' = IF checked < window THEN checked + 1 ELSE checked
    /\ pc' = "tail"
    /\ UNCHANGED <<seed, noise, cursor, call, doneShots, acc, key, spent, rows, exact, ahead>>

(* A term-routed, clean or streamed shot: nothing is accumulated. *)
Served ==
    /\ pc \in {"term", "clean", "stream"}
    /\ ~(masked /\ key \in EarlyBad)
    /\ pc' = "tail"
    /\ UNCHANGED <<seed, noise, cursor, call, doneShots, acc, key, checked, spent, rows,
                   exact, ahead>>

(* Mutant of Kept: the late filter is skipped. *)
KeptAll == TRUE

(* The late filter: the packed row is kept unless a flagged detector is set. *)
Kept == ~(masked /\ key \in Bad)

(* The one shot tail: the row is emitted, and taken back if the late filter *)
(* drops it.                                                                *)
EmitShot ==
    /\ pc = "tail"
    /\ rows' = IF Kept THEN Append(rows, [shot |-> ShotIndex, answer |-> key]) ELSE rows
    /\ pc' = "shot"
    /\ UNCHANGED <<seed, noise, cursor, call, doneShots, acc, key, checked, spent, exact,
                   ahead>>

(* The last shot of the call is done. *)
Return ==
    /\ BatchOver
    /\ left = 0
    /\ pc' = "idle"
    /\ batch' = <<>> /\ cursor' = 0
    /\ UNCHANGED <<seed, nextFire, drawn, genK, call, doneShots, acc, key, checked, spent, rows,
                   exact, ahead>>

-----------------------------------------------------------------------------
(* The call ends without its remaining shots; the noise of the batch is     *)
(* drawn all the same.                                                      *)
CallFails ==
    /\ pc' = "idle"
    /\ exact' = FALSE
    /\ ahead' = ahead + (Len(batch) - cursor)
    /\ batch' = <<>> /\ cursor' = 0
    /\ UNCHANGED <<seed, nextFire, drawn, genK, call, doneShots, acc, key, checked, spent, rows>>

(* An exception from a build, a Born walk or a record write: in the         *)
(* accumulator fast path before the accumulators are reset.                 *)
Throw ==
    /\ \/ pc \in {"clean", "term", "stream", "slow"} \cap CutPoints
       \/ pc = "keyed" /\ checked >= window /\ "fast" \in CutPoints
    /\ ~(masked /\ key \in EarlyBad)
    /\ CallFails

-----------------------------------------------------------------------------
Step ==
    \/ StartBatch \/ FireEvent \/ ChannelDone \/ BatchDrawn
    \/ TakeShot \/ StreamMiss \/ Accumulate \/ RejectEarly
    \/ FastPath \/ SlowPath \/ SlowServed \/ Served \/ EmitShot \/ Return
    \/ Throw

Caller ==
    \/ \E sd \in Seeds : Reseed(sd)
    \/ \E n \in 1..MaxShots, m \in BOOLEAN, r \in {"none", "plan", "term"} :
          Run(n, m, r)

Next == Step \/ Caller

Spec == Init /\ [][Next]_vars

(* A call runs by itself once it is entered; callers owe nothing. *)
FairSpec == Spec /\ WF_vars(Step)

-----------------------------------------------------------------------------
(* What the keyed words of seed sd make of shot i: the channels that fire. *)
NoiseAt(sd, i) == {k \in Channels : \E c \in 0..Draws : Fires[sd][k][c] = i}

(* A shot is under way once its index is taken. *)
UnderWay == {"term", "clean", "stream", "sum", "keyed", "slow", "tail"}

(* The variables have their types. *)
TypeOK ==
    /\ seed \in Seeds
    /\ nextFire \in [Channels -> Nat]
    /\ drawn \in [Channels -> 0..Draws]
    /\ pc \in UnderWay \cup {"idle", "shot", "draw"}
    /\ genK \in 1..(NChannels + 1)
    /\ batch \in Seq(SUBSET Channels)
    /\ cursor \in 0..Len(batch)
    /\ left \in 0..MaxShots
    /\ doneShots \in 0..MaxShots
    /\ acc \subseteq Channels /\ key \subseteq Channels
    /\ checked \in Nat /\ window \in Nat
    /\ spent \in BOOLEAN /\ masked \in BOOLEAN
    /\ record \in {"none", "plan", "term"}
    /\ rows \in Seq([shot : Nat, answer : SUBSET Channels])
    /\ exact \in BOOLEAN
    /\ ahead \in Nat

(* Since the seed, unless a call failed, the shot under way has the faults  *)
(* that the seed and its index give: whatever the split of the shots into   *)
(* calls and batches, the routes taken and the shots rejected before.       *)
OwnNoise == exact /\ pc \in UnderWay => Faults = NoiseAt(seed, ShotIndex)

(* A shot is looked up, early-tested and emitted under its own residual,    *)
(* with nothing of the shots before it in the accumulators.                 *)
KeyIsTheShots == pc \in UnderWay \ {"sum"} => key = Faults

(* In the self-check window the key from the accumulators is the composed   *)
(* residual, which is what the accumulator and key oracles compare: the     *)
(* oracle's "return false" is not reached.                                  *)
OraclesAgree == pc = "slow" /\ checked < window => key = Faults

(* Since the seed, unless a call failed, the rows emitted are those the     *)
(* seed gives ("the same seed gives the same bytes").                       *)
RowsArePure ==
    exact => \A j \in 1..Len(rows) : rows[j].answer = NoiseAt(seed, rows[j].shot)

(* The shots whose row is settled: emitted, dropped or rejected. *)
Settled == IF pc \in UnderWay THEN doneShots - 1 ELSE doneShots

Stream == INSTANCE RecordStream WITH at <- Settled, out <- rows, Answer <- NoiseAt

(* The loop gives the rows RecordStream promises: shot by shot in the order *)
(* of their index, none twice, and under a mask the unmasked rows without   *)
(* those it drops.                                                          *)
Implements == Stream!Spec

(* A call that is entered ends. *)
CallEnds == pc # "idle" ~> pc = "idle"

=============================================================================
