-------------------------- MODULE ShotLoopProofs --------------------------
(***************************************************************************)
(* Proofs about ShotLoop, for all seeds, channels, noise streams, masks,   *)
(* batch sizes and windows.                                                *)
(***************************************************************************)
EXTENDS ShotLoop, SequenceTheorems, TLAPS

(* The shots of noise drawn before the batch, those of failed calls that    *)
(* were never taken included.                                               *)
Clock == doneShots + ahead - cursor

(* The shots of noise a channel has drawn: gen_events is at channel genK.   *)
DrawnTo(k, from) == Clock + (IF pc = "draw" /\ from <= k THEN 0 ELSE Len(batch))

(* Where a call stands, and that it stays below the bounds. *)
CallInv ==
    /\ pc = "idle" =>
          batch = <<>> /\ cursor = 0 /\ doneShots + ahead <= MaxShots + MaxAhead
    /\ pc # "idle" =>
          /\ doneShots - cursor + Len(batch) + left <= MaxShots
          /\ Clock + Len(batch) + left <= MaxShots + MaxAhead
    /\ pc = "draw" => cursor = 0
    /\ pc \in UnderWay => cursor >= 1
    /\ cursor <= doneShots
    /\ exact => ahead = 0

(* The next event of a channel is where its stream says, counted from the   *)
(* shots already drawn; the events before it are behind.                    *)
StreamsInStep ==
    \A k \in Channels :
        /\ nextFire[k] + DrawnTo(k, genK) = Fires[seed][k][drawn[k]]
        /\ \A c \in 0..(drawn[k] - 1) : Fires[seed][k][c] < DrawnTo(k, genK + 1)

(* The batch holds what the streams have drawn. *)
BatchIsDrawn ==
    \A s \in 1..Len(batch), k \in Channels :
        k \in batch[s] <=> \E c \in 0..(drawn[k] - 1) : Fires[seed][k][c] = Clock + s - 1

NoiseInv == StreamsInStep /\ BatchIsDrawn

IInv == TypeOK /\ CallInv /\ NoiseInv

-----------------------------------------------------------------------------
(* The streams, read at a channel and an event. *)
LEMMA FiresType ==
    ASSUME NEW sd \in Seeds, NEW k \in Channels
    PROVE  /\ \A c \in 0..Draws : Fires[sd][k][c] \in Nat
           /\ \A c, d \in 0..Draws : c < d => Fires[sd][k][c] < Fires[sd][k][d]
           /\ Fires[sd][k][Draws] >= MaxShots + MaxAhead
BY ConstantsAssumption

LEMMA Naturals == /\ NChannels \in Nat /\ Draws \in Nat /\ BatchMax \in Nat
                  /\ SelfCheck \in Nat /\ MaxShots \in Nat /\ MaxAhead \in Nat
BY ConstantsAssumption

LEMMA InitIInv == Init => IInv
<1> SUFFICES ASSUME Init PROVE IInv
  OBVIOUS
<1> USE ConstantsAssumption
<1>1. PICK sd \in Seeds : Seeded(sd)
  BY DEF Init
<1>2. TypeOK
  <2>1. nextFire \in [Channels -> Nat]
    BY <1>1, FiresType DEF Seeded, FirstFire
  <2>2. drawn \in [Channels -> 0..Draws] /\ genK \in 1..(NChannels + 1) /\ doneShots \in 0..MaxShots
    BY <1>1 DEF Init, Seeded
  <2>3. batch \in Seq(SUBSET Channels) /\ rows \in Seq([shot : Nat, answer : SUBSET Channels])
    BY <1>1 DEF Init, Seeded
  <2>4. cursor \in 0..Len(batch) /\ left \in 0..MaxShots
    BY DEF Init
  <2> QED
    BY <1>1, <2>1, <2>2, <2>3, <2>4 DEF Init, Seeded, TypeOK, UnderWay
<1>3. CallInv
  BY <1>1 DEF Init, Seeded, CallInv, UnderWay, Clock
<1>4. NoiseInv
  BY <1>1, FiresType
     DEF Init, Seeded, FirstFire, NoiseInv, StreamsInStep, BatchIsDrawn, DrawnTo, Clock
<1> QED
  BY <1>2, <1>3, <1>4 DEF IInv

(* Steps that draw no noise and keep the batch: shots move from "to take"   *)
(* to "taken" or nowhere.                                                   *)
LEMMA QuietKeepsNoise ==
    ASSUME NoiseInv, pc # "draw", pc' # "draw", Clock' = Clock,
           UNCHANGED <<seed, nextFire, drawn, batch>>
    PROVE  NoiseInv'
BY DEF NoiseInv, StreamsInStep, BatchIsDrawn, DrawnTo

(* Steps that end a call: the whole batch counts as drawn. *)
LEMMA EndKeepsNoise ==
    ASSUME IInv, pc # "draw", pc' = "idle", batch' = <<>>,
           Clock' = Clock + Len(batch), UNCHANGED <<seed, nextFire, drawn>>
    PROVE  NoiseInv'
<1>1. Len(batch) \in Nat /\ Clock \in Int
  BY DEF IInv, TypeOK, Clock
<1>2. \A k \in Channels : \A g : DrawnTo(k, g)' = Clock + Len(batch) /\ DrawnTo(k, g) = Clock + Len(batch)
  BY <1>1 DEF DrawnTo
<1>3. StreamsInStep'
  BY <1>2 DEF IInv, NoiseInv, StreamsInStep
<1>4. BatchIsDrawn'
  BY DEF BatchIsDrawn
<1> QED
  BY <1>3, <1>4 DEF NoiseInv

-----------------------------------------------------------------------------
(* One lemma per kind of step. *)
LEMMA ReseedIInv ==
    ASSUME IInv, NEW sd \in Seeds, Reseed(sd)
    PROVE  IInv'
<1> USE ConstantsAssumption
<1>1. nextFire' \in [Channels -> Nat]
  BY FiresType DEF Reseed, SetSeed, FirstFire
<1>2. TypeOK'
  BY <1>1 DEF IInv, Reseed, SetSeed, TypeOK
<1>3. CallInv'
  BY DEF IInv, Reseed, SetSeed, CallInv, UnderWay, Clock
<1>4. NoiseInv'
  BY FiresType DEF IInv, CallInv, Reseed, SetSeed, FirstFire,
                   NoiseInv, StreamsInStep, BatchIsDrawn, DrawnTo, Clock
<1> QED
  BY <1>2, <1>3, <1>4 DEF IInv

LEMMA RunIInv ==
    ASSUME IInv, NEW n \in 1..MaxShots, NEW m \in BOOLEAN,
           NEW r \in {"none", "plan", "term"}, Run(n, m, r)
    PROVE  IInv'
<1> USE ConstantsAssumption
<1>1. TypeOK'
  BY DEF IInv, Run, TypeOK, noise, UnderWay
<1>2. CallInv'
  BY DEF IInv, Run, TypeOK, CallInv, noise, UnderWay, Clock
<1>3. NoiseInv'
  BY QuietKeepsNoise DEF IInv, Run, noise, Clock
<1> QED
  BY <1>1, <1>2, <1>3 DEF IInv

LEMMA StartBatchIInv ==
    ASSUME IInv, StartBatch
    PROVE  IInv'
<1> USE ConstantsAssumption
<1>1. BatchSize \in Nat /\ BatchSize <= left /\ left \in Nat
  BY DEF IInv, TypeOK, BatchSize
<1>2. batch' \in Seq(SUBSET Channels) /\ Len(batch') = BatchSize
  BY <1>1 DEF StartBatch
<1>3. TypeOK'
  BY <1>1, <1>2 DEF IInv, StartBatch, TypeOK, UnderWay
<1>4. Clock' = Clock + Len(batch)
  BY DEF IInv, TypeOK, StartBatch, BatchOver, Clock
<1>5. CallInv'
  BY <1>1, <1>2, <1>4 DEF IInv, TypeOK, StartBatch, BatchOver, CallInv, UnderWay, Clock
<1>6. StreamsInStep'
  <2> SUFFICES ASSUME NEW k \in Channels
               PROVE  /\ nextFire[k] + DrawnTo(k, genK)' = Fires[seed][k][drawn[k]]
                      /\ \A c \in 0..(drawn[k] - 1) : Fires[seed][k][c] < DrawnTo(k, genK + 1)'
    BY DEF StreamsInStep, StartBatch
  <2>1. DrawnTo(k, genK) = Clock + Len(batch) /\ DrawnTo(k, genK + 1) = Clock + Len(batch)
    BY DEF DrawnTo, StartBatch, BatchOver
  <2>2. DrawnTo(k, genK)' = Clock' /\ DrawnTo(k, genK + 1)' >= Clock'
    BY <1>1, <1>2, <1>3 DEF DrawnTo, StartBatch, Clock, TypeOK, Channels
  <2>3. DrawnTo(k, genK + 1)' \in Int /\ Clock' \in Int
    BY <1>1, <1>2, <1>3 DEF DrawnTo, StartBatch, Clock, TypeOK
  <2>4. \A c \in 0..(drawn[k] - 1) : Fires[seed][k][c] \in Nat
    BY FiresType DEF IInv, TypeOK
  <2> QED
    BY <1>4, <2>1, <2>2, <2>3, <2>4 DEF IInv, NoiseInv, StreamsInStep
<1>7. BatchIsDrawn'
  <2> SUFFICES ASSUME NEW s \in 1..Len(batch'), NEW k \in Channels
               PROVE  k \in batch'[s] <=> \E c \in 0..(drawn[k] - 1) :
                                              Fires[seed][k][c] = Clock' + s - 1
    BY DEF BatchIsDrawn, StartBatch
  <2>1. batch'[s] = {}
    BY <1>1, <1>2 DEF StartBatch
  <2>2. \A c \in 0..(drawn[k] - 1) : Fires[seed][k][c] \in Nat /\ Fires[seed][k][c] < Clock'
    <3>1. DrawnTo(k, genK + 1) = Clock + Len(batch)
      BY DEF DrawnTo, StartBatch, BatchOver
    <3> QED
      BY <1>4, <3>1, FiresType DEF IInv, TypeOK, NoiseInv, StreamsInStep
  <2>3. Clock' \in Int
    BY <1>3 DEF Clock, TypeOK
  <2> QED
    BY <2>1, <2>2, <2>3
<1> QED
  BY <1>3, <1>5, <1>6, <1>7 DEF IInv, NoiseInv

(* Event drawn[genK] fires in the batch: the next one is a gap further.     *)
LEMMA FireEventIInv ==
    ASSUME IInv, FireEvent
    PROVE  IInv'
<1> DEFINE g == genK
           at == nextFire[g]
           F(c) == Fires[seed][g][c]
<1>1. /\ seed \in Seeds /\ g \in Channels /\ at \in Nat /\ drawn[g] \in 0..Draws
      /\ Clock \in Int /\ Len(batch) \in Nat /\ at + 1 \in 1..Len(batch)
      /\ cursor = 0 /\ left \in Nat /\ doneShots \in Nat /\ ahead \in Nat
  BY Naturals DEF IInv, TypeOK, CallInv, FireEvent, Clock
<1>2. /\ DrawnTo(g, g) = Clock /\ DrawnTo(g, g + 1) = Clock + Len(batch)
  BY <1>1 DEF DrawnTo, FireEvent, Channels
<1>3. F(drawn[g]) = at + Clock
  BY <1>1, <1>2 DEF IInv, NoiseInv, StreamsInStep
<1>4. drawn[g] + 1 \in 0..Draws
  <2>1. F(drawn[g]) < MaxShots + MaxAhead
    <3>1. Clock + Len(batch) + left <= MaxShots + MaxAhead
      BY DEF IInv, CallInv, FireEvent
    <3> HIDE DEF F
    <3> QED
      BY <1>1, <1>3, <3>1, Naturals
  <2>2. F(Draws) >= MaxShots + MaxAhead
    BY <1>1, FiresType
  <2>3. drawn[g] # Draws
    BY <1>1, <2>1, <2>2, FiresType, Naturals
  <2> QED
    BY <1>1, <2>3, Naturals
<1>5. /\ nextFire' = [nextFire EXCEPT ![g] = F(drawn[g] + 1) - Clock]
      /\ F(drawn[g] + 1) - Clock \in Nat
  <2>1. F(drawn[g]) \in Nat /\ F(drawn[g] + 1) \in Nat /\ F(drawn[g]) < F(drawn[g] + 1)
    BY <1>1, <1>4, FiresType
  <2>2. Gap(g) = F(drawn[g] + 1) - F(drawn[g]) - 1
    BY DEF Gap
  <2>3. at + 1 + Gap(g) = F(drawn[g] + 1) - Clock
    <3> HIDE DEF F, at
    <3> QED
      BY <1>1, <1>3, <2>1, <2>2
  <2>4. F(drawn[g] + 1) - Clock \in Nat
    <3> HIDE DEF F, at
    <3> QED
      BY <1>1, <1>3, <2>1
  <2>5. nextFire' = [nextFire EXCEPT ![g] = at + 1 + Gap(g)]
    BY DEF FireEvent
  <2> QED
    BY <2>3, <2>4, <2>5
<1>6. /\ batch' \in Seq(SUBSET Channels) /\ Len(batch') = Len(batch)
      /\ \A s \in 1..Len(batch) :
            batch'[s] = IF s = at + 1 THEN batch[s] \cup {g} ELSE batch[s]
  <2>1. batch \in Seq(SUBSET Channels) /\ nextFire[g] + 1 \in DOMAIN batch
    BY <1>1 DEF IInv, TypeOK
  <2>2. batch[nextFire[g] + 1] \cup {g} \in SUBSET Channels
    BY <1>1, <2>1
  <2>3. batch' = [batch EXCEPT ![nextFire[g] + 1] = batch[nextFire[g] + 1] \cup {g}]
    BY DEF FireEvent
  <2>4. batch' \in Seq(SUBSET Channels) /\ Len(batch') = Len(batch)
    BY <1>1, <2>1, <2>2, <2>3
  <2>5. \A s \in 1..Len(batch) :
            batch'[s] = IF s = at + 1 THEN batch[s] \cup {g} ELSE batch[s]
    <3>1. \A s \in DOMAIN batch : batch'[s] = IF s = at + 1 THEN batch[at + 1] \cup {g} ELSE batch[s]
      BY <2>3
    <3>2. DOMAIN batch = 1..Len(batch)
      BY <2>1
    <3> QED
      BY <3>1, <3>2
  <2> QED
    BY <2>4, <2>5
<1>7. /\ nextFire' \in [Channels -> Nat]
      /\ drawn' \in [Channels -> 0..Draws]
      /\ drawn' = [drawn EXCEPT ![g] = @ + 1]
  BY <1>1, <1>4, <1>5 DEF IInv, TypeOK, FireEvent
<1>8. TypeOK'
  BY <1>6, <1>7 DEF IInv, TypeOK, FireEvent
<1>9. Clock' = Clock /\ \A k \in Channels : \A x : DrawnTo(k, x)' = DrawnTo(k, x)
  BY <1>6 DEF FireEvent, Clock, DrawnTo
<1>10. CallInv'
  BY <1>6, <1>9 DEF IInv, CallInv, FireEvent, UnderWay
<1>11. StreamsInStep'
  <2> SUFFICES ASSUME NEW k \in Channels
               PROVE  /\ nextFire'[k] + DrawnTo(k, g) = Fires[seed][k][drawn'[k]]
                      /\ \A c \in 0..(drawn'[k] - 1) : Fires[seed][k][c] < DrawnTo(k, g + 1)
    BY <1>9 DEF StreamsInStep, FireEvent
  <2>1. CASE k # g
    BY <2>1, <1>1, <1>5, <1>7 DEF IInv, TypeOK, NoiseInv, StreamsInStep
  <2>2. CASE k = g
    <3>1. nextFire'[g] = F(drawn[g] + 1) - Clock /\ drawn'[g] = drawn[g] + 1
      BY <1>1, <1>5, <1>7 DEF IInv, TypeOK
    <3>2. F(drawn[g] + 1) \in Nat
      BY <1>1, <1>4, FiresType
    <3>3. nextFire'[g] + DrawnTo(g, g) = F(drawn'[g])
      BY <1>1, <1>2, <3>1, <3>2
    <3>4. F(drawn[g]) < DrawnTo(g, g + 1)
      BY <1>1, <1>2, <1>3
    <3>5. \A c \in 0..drawn[g] : F(c) < DrawnTo(g, g + 1)
      BY <1>1, <3>4 DEF IInv, NoiseInv, StreamsInStep
    <3> QED
      BY <1>1, <2>2, <3>1, <3>3, <3>5
  <2> QED
    BY <2>1, <2>2
<1>12. BatchIsDrawn'
  <2> SUFFICES ASSUME NEW s \in 1..Len(batch), NEW k \in Channels
               PROVE  k \in batch'[s] <=> \E c \in 0..(drawn'[k] - 1) :
                                              Fires[seed][k][c] = Clock + s - 1
    BY <1>6, <1>9 DEF BatchIsDrawn, FireEvent
  <2>1. k \in batch[s] <=> \E c \in 0..(drawn[k] - 1) : Fires[seed][k][c] = Clock + s - 1
    BY DEF IInv, NoiseInv, BatchIsDrawn
  <2>2. CASE k # g
    <3>1. drawn'[k] = drawn[k]
      BY <1>7, <2>2 DEF IInv, TypeOK
    <3>2. k \in batch'[s] <=> k \in batch[s]
      BY <1>6, <2>2
    <3> QED
      BY <2>1, <3>1, <3>2
  <2>3. CASE k = g
    <3>1. drawn'[g] = drawn[g] + 1
      BY <1>1, <1>7 DEF IInv, TypeOK
    <3>2. F(drawn[g]) = Clock + s - 1 <=> s = at + 1
      BY <1>1, <1>3
    <3>3. (\E c \in 0..(drawn'[g] - 1) : F(c) = Clock + s - 1) <=>
             (\E c \in 0..(drawn[g] - 1) : F(c) = Clock + s - 1) \/ F(drawn[g]) = Clock + s - 1
      <4>1. \A c : c \in 0..(drawn'[g] - 1) <=> c \in 0..(drawn[g] - 1) \/ c = drawn[g]
        BY <1>1, <3>1
      <4> QED
        BY <4>1
    <3>4. g \in batch'[s] <=> g \in batch[s] \/ s = at + 1
      BY <1>6
    <3> QED
      BY <2>1, <2>3, <3>2, <3>3, <3>4
  <2> QED
    BY <2>2, <2>3
<1> QED
  BY <1>8, <1>10, <1>11, <1>12 DEF IInv, NoiseInv

(* The rest of the gap is carried to the next batch. *)
LEMMA ChannelDoneIInv ==
    ASSUME IInv, ChannelDone
    PROVE  IInv'
<1>1. /\ genK \in Channels /\ nextFire[genK] \in Nat /\ Len(batch) \in Nat
      /\ Carried(genK) \in Nat /\ Clock \in Int
  BY Naturals DEF IInv, TypeOK, ChannelDone, Carried, Clock
<1>2. TypeOK'
  <2>1. genK' \in 1..(NChannels + 1)
    BY <1>1, Naturals DEF ChannelDone, Channels
  <2>2. nextFire' \in [Channels -> Nat]
    BY <1>1 DEF IInv, TypeOK, ChannelDone
  <2> QED
    BY <2>1, <2>2 DEF IInv, TypeOK, ChannelDone
<1>3. Clock' = Clock
  BY DEF ChannelDone, Clock
<1>4. CallInv'
  BY <1>3 DEF IInv, CallInv, ChannelDone, UnderWay
<1>5. StreamsInStep'
  <2> SUFFICES ASSUME NEW k \in Channels
               PROVE  /\ nextFire'[k] + DrawnTo(k, genK)' = Fires[seed][k][drawn[k]]
                      /\ \A c \in 0..(drawn[k] - 1) : Fires[seed][k][c] < DrawnTo(k, genK + 1)'
    BY DEF StreamsInStep, ChannelDone
  <2>1. /\ nextFire[k] + DrawnTo(k, genK) = Fires[seed][k][drawn[k]]
        /\ \A c \in 0..(drawn[k] - 1) : Fires[seed][k][c] < DrawnTo(k, genK + 1)
    BY DEF IInv, NoiseInv, StreamsInStep
  <2>2. drawn[k] \in 0..Draws /\ nextFire[k] \in Nat /\ seed \in Seeds
    BY DEF IInv, TypeOK
  <2>3. CASE k # genK
    <3>1. DrawnTo(k, genK)' = DrawnTo(k, genK)
      BY <1>1, <1>3, <2>3 DEF DrawnTo, ChannelDone, Channels
    <3>2. DrawnTo(k, genK + 1)' = DrawnTo(k, genK + 1) \/ DrawnTo(k, genK + 1)' = DrawnTo(k, genK + 1) + Len(batch)
      BY <1>1, <1>3 DEF DrawnTo, ChannelDone, Channels
    <3>3. nextFire'[k] = nextFire[k]
      BY <2>3 DEF IInv, TypeOK, ChannelDone
    <3>4. DrawnTo(k, genK + 1) \in Int /\ \A c \in 0..(drawn[k] - 1) : Fires[seed][k][c] \in Nat
      BY <1>1, <2>2, FiresType, Naturals DEF DrawnTo
    <3> QED
      BY <1>1, <2>1, <3>1, <3>2, <3>3, <3>4
  <2>4. CASE k = genK
    <3>1. DrawnTo(k, genK) = Clock /\ DrawnTo(k, genK)' = Clock + Len(batch)
      BY <1>1, <1>3, <2>4 DEF DrawnTo, ChannelDone, Channels
    <3>2. DrawnTo(k, genK + 1)' = DrawnTo(k, genK + 1)
      BY <1>1, <1>3, <2>4 DEF DrawnTo, ChannelDone, Channels
    <3>3. nextFire'[k] = nextFire[k] - Len(batch)
      BY <2>4 DEF IInv, TypeOK, ChannelDone, Carried
    <3> QED
      BY <1>1, <2>1, <2>2, <3>1, <3>2, <3>3
  <2> QED
    BY <2>3, <2>4
<1>6. BatchIsDrawn'
  BY <1>3 DEF IInv, NoiseInv, BatchIsDrawn, ChannelDone
<1> QED
  BY <1>2, <1>4, <1>5, <1>6 DEF IInv, NoiseInv

LEMMA BatchDrawnIInv ==
    ASSUME IInv, BatchDrawn
    PROVE  IInv'
<1>1. TypeOK' /\ CallInv' /\ Clock' = Clock
  BY DEF IInv, TypeOK, CallInv, BatchDrawn, noise, call, UnderWay, Clock
<1>2. \A k \in Channels : DrawnTo(k, genK)' = DrawnTo(k, genK) /\ DrawnTo(k, genK + 1)' = DrawnTo(k, genK + 1)
  BY <1>1, Naturals DEF DrawnTo, BatchDrawn, noise, Channels
<1>3. NoiseInv'
  BY <1>1, <1>2 DEF IInv, NoiseInv, StreamsInStep, BatchIsDrawn, BatchDrawn, noise
<1> QED
  BY <1>1, <1>3 DEF IInv

(* The steps of a shot. *)
LEMMA ShotStepIInv ==
    ASSUME IInv,
           \/ TakeShot \/ StreamMiss \/ Accumulate \/ RejectEarly \/ FastPath
           \/ SlowPath \/ SlowServed \/ Served \/ EmitShot
    PROVE  IInv'
<1> USE DEF noise, call, UnderWay
<1>1. CASE TakeShot
  <2>1. batch[cursor + 1] \in SUBSET Channels /\ doneShots + 1 <= MaxShots
    <3>1. /\ cursor \in Nat /\ cursor + 1 \in 1..Len(batch) /\ left \in Nat
          /\ doneShots - cursor + Len(batch) + left <= MaxShots
      BY <1>1 DEF IInv, TypeOK, CallInv, TakeShot
    <3> QED
      BY <3>1, Naturals DEF IInv, TypeOK
  <2>2. TypeOK' /\ CallInv' /\ Clock' = Clock
    <3>1. Clock' = Clock
      BY <1>1, Naturals DEF IInv, TypeOK, TakeShot, Clock
    <3>2. TypeOK'
      <4>1. key' \subseteq Channels /\ pc' \in {"term", "clean", "stream", "sum"}
        BY <1>1, <2>1 DEF TakeShot
      <4>2. cursor' \in 0..Len(batch') /\ doneShots' \in 0..MaxShots
        BY <1>1, <2>1, Naturals DEF IInv, TypeOK, TakeShot
      <4> QED
        BY <1>1, <4>1, <4>2 DEF IInv, TypeOK, TakeShot
    <3>3. CallInv'
      BY <1>1, <2>1, <3>1 DEF IInv, TypeOK, CallInv, TakeShot
    <3> QED
      BY <3>1, <3>2, <3>3
  <2> QED
    BY <1>1, <2>2, QuietKeepsNoise DEF IInv, TakeShot
<1>2. CASE StreamMiss \/ FastPath \/ SlowPath \/ SlowServed \/ Served
  <2>1. TypeOK' /\ CallInv' /\ Clock' = Clock
    <3>1. Clock' = Clock
      BY <1>2 DEF IInv, TypeOK, StreamMiss, FastPath, SlowPath, SlowServed, Served, Clock
    <3>2. TypeOK'
      BY <1>2 DEF IInv, TypeOK, StreamMiss, FastPath, SlowPath, SlowServed, Served
    <3>3. CallInv'
      BY <1>2, <3>1 DEF IInv, TypeOK, CallInv, StreamMiss, FastPath, SlowPath, SlowServed, Served
    <3> QED
      BY <3>1, <3>2, <3>3
  <2> QED
    BY <1>2, <2>1, QuietKeepsNoise
       DEF IInv, StreamMiss, FastPath, SlowPath, SlowServed, Served
<1>3. CASE Accumulate
  <2>1. Faults \in SUBSET Channels
    BY <1>3 DEF IInv, TypeOK, CallInv, Accumulate, Faults
  <2>2. TypeOK' /\ CallInv' /\ Clock' = Clock
    <3>1. Clock' = Clock
      BY <1>3, <2>1 DEF IInv, TypeOK, Accumulate, SymDiff, Clock
    <3>2. TypeOK'
      BY <1>3, <2>1 DEF IInv, TypeOK, Accumulate, SymDiff
    <3>3. CallInv'
      BY <1>3, <2>1, <3>1 DEF IInv, TypeOK, CallInv, Accumulate, SymDiff
    <3> QED
      BY <3>1, <3>2, <3>3
  <2> QED
    BY <1>3, <2>2, QuietKeepsNoise DEF IInv, Accumulate
<1>4. CASE RejectEarly
  <2>1. TypeOK' /\ CallInv' /\ Clock' = Clock
    <3>1. Clock' = Clock
      BY <1>4 DEF IInv, TypeOK, RejectEarly, RejectIndex, Cleared, Clock
    <3>2. TypeOK'
      BY <1>4 DEF IInv, TypeOK, RejectEarly, RejectIndex, Cleared
    <3>3. CallInv'
      BY <1>4, <3>1 DEF IInv, TypeOK, CallInv, RejectEarly, RejectIndex, Cleared
    <3> QED
      BY <3>1, <3>2, <3>3
  <2> QED
    BY <1>4, <2>1, QuietKeepsNoise DEF IInv, RejectEarly
<1>5. CASE EmitShot
  <2>1. ShotIndex \in Nat
    BY <1>5 DEF IInv, TypeOK, CallInv, EmitShot, ShotIndex
  <2>2. rows' \in Seq([shot : Nat, answer : SUBSET Channels])
    <3>1. [shot |-> ShotIndex, answer |-> key] \in [shot : Nat, answer : SUBSET Channels]
      BY <2>1 DEF IInv, TypeOK
    <3> QED
      BY <1>5, <3>1, AppendProperties DEF IInv, TypeOK, EmitShot
  <2>3. TypeOK' /\ CallInv' /\ Clock' = Clock
    <3>1. Clock' = Clock
      BY <1>5, <2>2 DEF IInv, TypeOK, EmitShot, Clock
    <3>2. TypeOK'
      BY <1>5, <2>2 DEF IInv, TypeOK, EmitShot
    <3>3. CallInv'
      BY <1>5, <2>2, <3>1 DEF IInv, TypeOK, CallInv, EmitShot
    <3> QED
      BY <3>1, <3>2, <3>3
  <2> QED
    BY <1>5, <2>3, QuietKeepsNoise DEF IInv, EmitShot
<1> QED
  BY <1>1, <1>2, <1>3, <1>4, <1>5

(* A call ends. *)
LEMMA EndIInv ==
    ASSUME IInv, Return \/ Throw
    PROVE  IInv'
<1> USE DEF call, UnderWay
<1>1. CASE Return
  <2>1. Clock' = Clock + Len(batch)
    BY <1>1 DEF IInv, TypeOK, Return, BatchOver, Clock
  <2>2. TypeOK'
    BY <1>1 DEF IInv, TypeOK, Return
  <2>3. CallInv'
    BY <1>1, Naturals DEF IInv, TypeOK, CallInv, Return, BatchOver, Clock
  <2> QED
    BY <1>1, <2>1, <2>2, <2>3, EndKeepsNoise DEF IInv, Return, BatchOver
<1>2. CASE Throw
  <2>1. Clock' = Clock + Len(batch)
    BY <1>2 DEF IInv, TypeOK, Throw, CallFails, Clock
  <2>2. TypeOK'
    <3>1. ahead + (Len(batch) - cursor) \in Nat
      BY DEF IInv, TypeOK
    <3>2. batch' \in Seq(SUBSET Channels) /\ cursor' \in 0..Len(batch') /\ pc' = "idle"
      BY <1>2 DEF Throw, CallFails
    <3>3. ahead' \in Nat /\ exact' \in BOOLEAN
      BY <1>2, <3>1 DEF Throw, CallFails
    <3>4. UNCHANGED <<seed, nextFire, drawn, genK, call, doneShots, acc, key, checked, spent, rows>>
      BY <1>2 DEF Throw, CallFails
    <3> QED
      BY <3>2, <3>3, <3>4 DEF IInv, TypeOK
  <2>3. CallInv'
    <3>1. pc # "idle" /\ pc # "draw"
      BY <1>2 DEF Throw
    <3>2. doneShots' + ahead' <= MaxShots + MaxAhead
      BY <1>2, <2>1, <3>1, Naturals DEF IInv, TypeOK, CallInv, Throw, CallFails, Clock
    <3> QED
      BY <1>2, <3>2 DEF IInv, TypeOK, CallInv, Throw, CallFails
  <2>4. pc # "draw"
    BY <1>2 DEF Throw
  <2> QED
    BY <1>2, <2>1, <2>2, <2>3, <2>4, EndKeepsNoise DEF IInv, Throw, CallFails
<1> QED
  BY <1>1, <1>2

LEMMA NextIInv == IInv /\ [Next]_vars => IInv'
<1> SUFFICES ASSUME IInv, [Next]_vars PROVE IInv'
  OBVIOUS
<1>1. CASE Step
  BY <1>1, StartBatchIInv, FireEventIInv, ChannelDoneIInv, BatchDrawnIInv, ShotStepIInv, EndIInv
     DEF Step
<1>2. CASE Caller
  BY <1>2, ReseedIInv, RunIInv DEF Caller
<1>3. CASE UNCHANGED vars
  <2>1. TypeOK' /\ CallInv'
    BY <1>3 DEF vars, IInv, TypeOK, CallInv, UnderWay, Clock
  <2>2. NoiseInv'
    BY <1>3 DEF vars, IInv, NoiseInv, StreamsInStep, BatchIsDrawn, DrawnTo, Clock
  <2> QED
    BY <2>1, <2>2 DEF IInv
<1> QED
  BY <1>1, <1>2, <1>3 DEF Next

THEOREM Invariance == Spec => []IInv
BY InitIInv, NextIInv, PTL DEF Spec

(* Type correctness. *)
THEOREM TypesHold == Spec => []TypeOK
<1>1. IInv => TypeOK
  BY DEF IInv
<1> QED
  BY Invariance, <1>1, PTL

(* The faults of the shot under way are those of the clock: what the noise  *)
(* streams give at the shot counted from the seed, the shots that failed    *)
(* calls threw away included.                                               *)
LEMMA FaultsOfClock ==
    ASSUME IInv, pc \in UnderWay
    PROVE  Faults = NoiseAt(seed, doneShots + ahead - 1)
<1> DEFINE i == doneShots + ahead - 1
<1>1. /\ cursor \in 1..Len(batch) /\ Clock + cursor - 1 = i /\ i \in Int
      /\ Clock \in Int /\ seed \in Seeds /\ pc # "draw" /\ batch[cursor] \subseteq Channels
  BY DEF IInv, TypeOK, CallInv, Clock, UnderWay
<1>2. ASSUME NEW k \in Channels
      PROVE  k \in batch[cursor] <=> \E c \in 0..Draws : Fires[seed][k][c] = i
  <2>1. drawn[k] \in 0..Draws /\ nextFire[k] \in Nat
    BY DEF IInv, TypeOK
  <2>2. k \in batch[cursor] <=> \E c \in 0..(drawn[k] - 1) : Fires[seed][k][c] = i
    BY <1>1 DEF IInv, NoiseInv, BatchIsDrawn
  <2>3. Fires[seed][k][drawn[k]] > i
    <3>1. nextFire[k] + Clock + Len(batch) = Fires[seed][k][drawn[k]]
      <4>1. DrawnTo(k, genK) = Clock + Len(batch)
        BY <1>1 DEF DrawnTo
      <4> QED
        BY <1>1, <2>1, <4>1 DEF IInv, NoiseInv, StreamsInStep
    <3> QED
      BY <1>1, <2>1, <3>1
  <2>4. \A c \in drawn[k]..Draws : Fires[seed][k][c] # i
    BY <1>1, <2>1, <2>3, FiresType, Naturals
  <2>5. \A c \in 0..Draws : c \in 0..(drawn[k] - 1) \/ c \in drawn[k]..Draws
    BY <2>1, Naturals
  <2>6. \A c \in 0..(drawn[k] - 1) : c \in 0..Draws
    BY <2>1, Naturals
  <2> QED
    BY <2>2, <2>4, <2>5, <2>6
<1> QED
  BY <1>1, <1>2 DEF Faults, NoiseAt

(* Since the seed, unless a call failed, the shot under way has the faults  *)
(* of its seed and index.                                                   *)
THEOREM NoiseIsOwn == Spec => []OwnNoise
<1>1. IInv => OwnNoise
  <2> SUFFICES ASSUME IInv, exact, pc \in UnderWay
               PROVE  Faults = NoiseAt(seed, ShotIndex)
    BY DEF OwnNoise
  <2>1. ahead = 0 /\ doneShots \in Nat
    BY DEF IInv, TypeOK, CallInv
  <2>2. doneShots + ahead - 1 = ShotIndex
    BY <2>1 DEF ShotIndex
  <2> QED
    BY <2>2, FaultsOfClock
<1> QED
  BY Invariance, <1>1, PTL

-----------------------------------------------------------------------------
(* The accumulators may be dirty only after an exception on the fast path,  *)
(* which is outside the window, and the window is the first call's.         *)
Trusted == "fast" \notin CutPoints \/ ~spent \/ (pc # "idle" /\ window # 0)

SumsInv ==
    /\ pc # "idle" => spent
    /\ Trusted => (pc # "keyed" => acc = {}) /\ KeyIsTheShots

LEMMA InitSumsInv == Init => SumsInv
BY DEF Init, SumsInv, Trusted, KeyIsTheShots, UnderWay

LEMMA NextSumsInv == IInv /\ SumsInv /\ [Next]_vars => SumsInv'
<1> SUFFICES ASSUME IInv, SumsInv, [Next]_vars PROVE SumsInv'
  OBVIOUS
<1> USE DEF SumsInv, Trusted, KeyIsTheShots, UnderWay, Faults, noise, call
<1>1. ASSUME NEW sd \in Seeds, Reseed(sd) PROVE SumsInv'
  BY <1>1 DEF Reseed, SetSeed
<1>2. ASSUME NEW n \in 1..MaxShots, NEW m \in BOOLEAN, NEW r \in {"none", "plan", "term"}, Run(n, m, r)
      PROVE SumsInv'
  BY <1>2 DEF Run
<1>3. CASE StartBatch \/ FireEvent \/ ChannelDone \/ BatchDrawn
  BY <1>3 DEF StartBatch, BatchOver, FireEvent, ChannelDone, BatchDrawn
<1>4. CASE TakeShot
  BY <1>4 DEF TakeShot
<1>5. CASE StreamMiss
  BY <1>5 DEF StreamMiss
<1>6. CASE Accumulate
  <2>1. acc = {} => acc' = Faults
    BY <1>6 DEF Accumulate, SymDiff
  <2> QED
    BY <1>6, <2>1 DEF Accumulate
<1>7. CASE RejectEarly
  BY <1>7 DEF RejectEarly, Cleared
<1>8. CASE FastPath \/ SlowPath
  BY <1>8 DEF FastPath, SlowPath
<1>9. CASE SlowServed \/ Served
  BY <1>9 DEF SlowServed, Served
<1>10. CASE EmitShot \/ Return
  BY <1>10 DEF EmitShot, Return, BatchOver
<1>11. CASE Throw
  BY <1>11 DEF Throw, CallFails
<1>12. CASE UNCHANGED vars
  BY <1>12 DEF vars
<1> QED
  BY <1>1, <1>2, <1>3, <1>4, <1>5, <1>6, <1>7, <1>8, <1>9, <1>10, <1>11, <1>12
     DEF Next, Step, Caller

THEOREM SumsInvariance == Spec => [](IInv /\ SumsInv)
<1>1. Init => IInv /\ SumsInv
  BY InitIInv, InitSumsInv
<1>2. IInv /\ SumsInv /\ [Next]_vars => IInv' /\ SumsInv'
  BY NextIInv, NextSumsInv
<1> QED
  BY <1>1, <1>2, PTL DEF Spec

(* Without an exception on the accumulator fast path, every shot is keyed   *)
(* by its own residual.                                                     *)
THEOREM KeysAreOwn ==
    ASSUME "fast" \notin CutPoints
    PROVE  Spec => []KeyIsTheShots
<1>1. SumsInv => KeyIsTheShots
  BY DEF SumsInv, Trusted
<1> QED
  BY SumsInvariance, <1>1, PTL

(* The window never raises a false alarm, wherever calls are cut short.     *)
THEOREM NoFalseAlarm == Spec => []OraclesAgree
<1>1. IInv /\ SumsInv => OraclesAgree
  BY DEF IInv, TypeOK, SumsInv, Trusted, KeyIsTheShots, OraclesAgree, UnderWay
<1> QED
  BY SumsInvariance, <1>1, PTL

-----------------------------------------------------------------------------
(* A shot that settles is the next of its stream. *)
LEMMA ShotSettles ==
    ASSUME IInv, SumsInv, "fast" \notin CutPoints, exact, pc \in UnderWay \ {"sum"}
    PROVE  Settled = ShotIndex /\ NoiseAt(seed, Settled) = key
<1>1. ahead = 0 /\ doneShots \in Nat
  BY DEF IInv, TypeOK, CallInv
<1>2. Settled = ShotIndex /\ doneShots + ahead - 1 = ShotIndex
  BY <1>1 DEF Settled, ShotIndex
<1>3. key = Faults
  BY DEF SumsInv, Trusted, KeyIsTheShots
<1> QED
  BY <1>2, <1>3, FaultsOfClock

LEMMA NextRefines ==
    ASSUME IInv, SumsInv, "fast" \notin CutPoints, [Next]_vars
    PROVE  [Stream!Next]_Stream!vars
<1> USE DEF Stream!Next, Stream!vars, noise, call
<1>1. ASSUME NEW sd \in Seeds, Reseed(sd) PROVE Stream!Next
  BY <1>1 DEF Reseed, SetSeed, Settled, UnderWay, Stream!Reseed
<1>2. ASSUME NEW n \in 1..MaxShots, NEW m \in BOOLEAN, NEW r \in {"none", "plan", "term"}, Run(n, m, r)
      PROVE Stream!Next
  BY <1>2 DEF Run, Settled, UnderWay, Stream!Call
<1>3. CASE StartBatch \/ FireEvent \/ ChannelDone \/ BatchDrawn \/ StreamMiss \/ Accumulate
  BY <1>3 DEF StartBatch, BatchOver, FireEvent, ChannelDone, BatchDrawn, StreamMiss, Accumulate,
              Settled, UnderWay
<1>4. CASE FastPath \/ SlowPath \/ SlowServed \/ Served \/ Return
  BY <1>4 DEF FastPath, SlowPath, SlowServed, Served, Return, BatchOver, Settled, UnderWay
<1>5. CASE TakeShot
  BY <1>5 DEF IInv, TypeOK, TakeShot, Settled, UnderWay
<1>6. CASE RejectEarly \/ EmitShot
  <2>1. CASE ~exact
    BY <1>6, <2>1 DEF RejectEarly, EmitShot, Stream!Fail
  <2>2. CASE exact
    <3>1. Settled = ShotIndex /\ NoiseAt(seed, Settled) = key
      BY <1>6, <2>2, ShotSettles DEF RejectEarly, EmitShot, UnderWay
    <3>2. Settled' = Settled + 1
      BY <1>6 DEF IInv, TypeOK, RejectEarly, RejectIndex, EmitShot, Settled, UnderWay
    <3>3. CASE RejectEarly
      BY <2>2, <3>1, <3>2, <3>3, ConstantsAssumption DEF RejectEarly, Stream!Shot
    <3>4. CASE EmitShot
      BY <2>2, <3>1, <3>2, <3>4 DEF EmitShot, Kept, Stream!Shot, Stream!Row
    <3> QED
      BY <1>6, <3>3, <3>4
  <2> QED
    BY <2>1, <2>2
<1>7. CASE Throw
  BY <1>7 DEF Throw, CallFails, Stream!Fail
<1>8. CASE UNCHANGED vars
  BY <1>8 DEF vars, Settled
<1> QED
  BY <1>1, <1>2, <1>3, <1>4, <1>5, <1>6, <1>7, <1>8 DEF Next, Step, Caller

(* Without an exception on the accumulator fast path, the loop emits the    *)
(* rows of RecordStream: those of the shots of the seed, in order, each a   *)
(* function of the seed and its index.                                      *)
THEOREM LoopImplementsStream ==
    ASSUME "fast" \notin CutPoints
    PROVE  Spec => Implements
<1>1. Init => Stream!Init
  BY DEF Init, Seeded, Stream!Init, Settled, UnderWay
<1>2. IInv /\ SumsInv /\ [Next]_vars => [Stream!Next]_Stream!vars
  BY NextRefines
<1> QED
  BY SumsInvariance, <1>1, <1>2, PTL DEF Spec, Implements, Stream!Spec

=============================================================================
