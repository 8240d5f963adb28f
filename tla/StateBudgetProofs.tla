-------------------------- MODULE StateBudgetProofs --------------------------
(***************************************************************************)
(* Proofs about StateBudget, for any threads, objects, slots, sizes and    *)
(* budget: the types and the covering of scratch buffers, then the totals. *)
(* live is split into what the blocks hold, what each thread holds (its    *)
(* scratch and a grant in hand) and what is on its way to a refusal; each  *)
(* step of a thread moves bytes between its own two parts and the blocks,  *)
(* and commits more only after comparing with all of live.                 *)
(***************************************************************************)
EXTENDS StateBudget, SumLemmas, FiniteSetTheorems, TLAPS

(* A running kernel needs no more than its slot is charged. *)
KernelIsCharged ==
    \A t \in Threads : pc[t] = "kernel" => req[t] <= charged[t][slot[t]]

(* A thread whose scratch goes by itself, or that ends, is in no call. *)
GoesAtRest ==
    \A t \in Threads :
        pc[t] \in {"releasing", "exiting", "dead"} => depth[t] = 0 /\ uses[t] = {}

IInv == TypeOK /\ OwnersCounted /\ KernelIsCharged /\ ScratchIsCovered /\ GoesAtRest

-----------------------------------------------------------------------------
LEMMA InitIInv == Init => IInv
<1> SUFFICES ASSUME Init PROVE IInv
  OBVIOUS
<1>1. Alive = {}
  BY DEF Init, Alive
<1>2. TypeOK
  BY ConstantsAssumption DEF Init, TypeOK
<1>3. OwnersCounted
  BY <1>1, FS_EmptySet DEF Init, OwnersCounted
<1>4. KernelIsCharged /\ ScratchIsCovered /\ GoesAtRest
  BY DEF Init, KernelIsCharged, ScratchIsCovered, GoesAtRest
<1> QED
  BY <1>2, <1>3, <1>4 DEF IInv

LEMMA AliveIsFinite ==
    ASSUME TypeOK
    PROVE  Alive \subseteq Objects /\ IsFiniteSet(Alive) /\ Cardinality(Alive) \in Nat
<1>1. Alive \subseteq Objects
  BY DEF TypeOK, Alive
<1>2. IsFiniteSet(Alive)
  BY <1>1, FS_Subset, ConstantsAssumption
<1> QED
  BY <1>1, <1>2, FS_CardinalityType

(* The owner count changes only with the set of objects: by one, with the   *)
(* object that comes or goes.                                               *)
LEMMA ObjectGoes ==
    ASSUME IInv, NEW t \in Threads, NEW o \in Alive, Dropped(t, o),
           Alive' \subseteq Alive, Alive \ {o} \subseteq Alive'
    PROVE  /\ OwnersCounted' /\ owners' \in Nat
           /\ pc' = pc \/ pc' = [pc EXCEPT ![t] = "releasing"] \/ pc' = [pc EXCEPT ![t] = "idle"]
           /\ pc'[t] = "releasing" /\ pc[t] # "releasing" => Alive' = {} /\ depth[t] = 0
<1>1. IsFiniteSet(Alive) /\ Cardinality(Alive) \in Nat /\ owners = Cardinality(Alive)
  BY AliveIsFinite DEF IInv, OwnersCounted
<1>2. CASE o \in Alive'
  <2>1. Alive' = Alive
    BY <1>2
  <2>2. UNCHANGED <<owners, pc>>
    BY <1>2 DEF Dropped
  <2> QED
    BY <1>1, <2>1, <2>2 DEF OwnersCounted
<1>3. CASE o \notin Alive'
  <2>1. Alive' = Alive \ {o}
    BY <1>3
  <2>2. IsFiniteSet(Alive') /\ Cardinality(Alive') = owners - 1
    BY <1>1, <2>1, FS_RemoveElement
  <2>3. owners' = owners - 1 /\ Goto(t, IF DropReleases(t) THEN "releasing" ELSE "idle")
    BY <1>3 DEF Dropped
  <2>4. Cardinality(Alive') \in Nat
    BY <2>2, FS_CardinalityType
  <2>5. OwnersCounted' /\ owners' \in Nat
    BY <2>2, <2>3, <2>4 DEF OwnersCounted
  <2>6. owners = 1 => Alive' = {}
    BY <1>1, <2>2, FS_EmptySet
  <2>7. t \in DOMAIN pc
    BY DEF IInv, TypeOK
  <2> QED
    BY <2>3, <2>5, <2>6, <2>7 DEF Goto, DropReleases
<1> QED
  BY <1>2, <1>3

-----------------------------------------------------------------------------
LEMMA TypeStorage ==
    ASSUME TypeOK, NEW t \in Threads, Storage(t)
    PROVE  TypeOK'
<1> USE ConstantsAssumption DEF TypeOK, Goto, ownVars, scratchVars, heapVars
<1>1. ASSUME NEW b \in Sizes, Ask(t, b) PROVE TypeOK'
  <2>1. PICK p \in {"allocate", "refuse"} : pc' = [pc EXCEPT ![t] = p]
    BY <1>1 DEF Ask, Charge
  <2> QED
    BY <1>1, <2>1 DEF Ask, Charge
<1>2. ASSUME NEW b \in Sizes, Free(t, b) PROVE TypeOK'
  <2>1. blocks' \in [Sizes -> Nat]
    BY <1>2 DEF Free
  <2> QED
    BY <1>2, <2>1 DEF Free
<1>3. CASE Allocate(t)
  <2>1. \A b \in Sizes : blocks'[b] \in Nat
    BY <1>3 DEF Allocate
  <2>2. blocks' \in [Sizes -> Nat]
    BY <1>3, <2>1 DEF Allocate
  <2> QED
    BY <1>3, <2>2 DEF Allocate
<1>4. CASE AllocateThrows(t)
  BY <1>4 DEF AllocateThrows
<1>5. CASE GiveBack(t)
  BY <1>5 DEF GiveBack
<1>6. CASE Refuse(t)
  BY <1>6 DEF Refuse
<1> QED
  BY <1>1, <1>2, <1>3, <1>4, <1>5, <1>6 DEF Storage

LEMMA TypeScratch ==
    ASSUME TypeOK, NEW t \in Threads, Scratch(t)
    PROVE  TypeOK'
<1> USE ConstantsAssumption DEF TypeOK, Goto, ownVars, scratchVars, heapVars
<1>1. ASSUME NEW s \in Slots, NEW b \in Sizes, Need(t, s, b) PROVE TypeOK'
  <2>1. CASE Covered(t, s, b)
    BY <1>1, <2>1 DEF Need, Covered
  <2>2. CASE Grow(t, s, b)
    <3>1. PICK p \in {"kernel", "refuse"} : pc' = [pc EXCEPT ![t] = p]
      BY <2>2 DEF Grow, Charge
    <3>2. /\ live' \in Int /\ req' \in [Threads -> Nat]
          /\ charged' \in [Threads -> [Slots -> Nat]] /\ scratch' \in [Threads -> Int]
      <4> DEFINE more == b - charged[t][s]
      <4>1. more \in Nat /\ b \in Nat
        BY <2>2 DEF Grow
      <4>2. /\ live' = live + more
            /\ req' = [req EXCEPT ![t] = IF Fits(more) THEN b ELSE more]
            /\ \/ charged' = [charged EXCEPT ![t][s] = b] /\ scratch' = [scratch EXCEPT ![t] = @ + more]
               \/ charged' = charged /\ scratch' = scratch
        BY <2>2 DEF Grow, Charge
      <4>3. live' \in Int
        BY <4>1, <4>2
      <4>4. req' \in [Threads -> Nat]
        BY <4>1, <4>2
      <4>5. scratch' \in [Threads -> Int]
        BY <4>1, <4>2
      <4>6. charged' \in [Threads -> [Slots -> Nat]]
        <5>1. [charged[t] EXCEPT ![s] = b] \in [Slots -> Nat]
          BY <4>1
        <5>2. [charged EXCEPT ![t][s] = b] = [charged EXCEPT ![t] = [charged[t] EXCEPT ![s] = b]]
          OBVIOUS
        <5>3. [charged EXCEPT ![t][s] = b] \in [Threads -> [Slots -> Nat]]
          BY <5>1, <5>2
        <5> QED
          BY <4>2, <5>3
      <4> QED
        BY <4>3, <4>4, <4>5, <4>6
    <3> QED
      BY <1>1, <2>2, <3>1, <3>2 DEF Need, Grow
  <2> QED
    BY <1>1, <2>1, <2>2 DEF Need
<1>2. ASSUME NEW s \in Slots, FreeBuffers(t, s) PROVE TypeOK'
  BY <1>2 DEF FreeBuffers
<1>3. ASSUME NEW s \in Slots, Credit(t, s) PROVE TypeOK'
  BY <1>3 DEF Credit, Credited
<1>4. ASSUME NEW s \in Slots, ExitCredit(t, s) PROVE TypeOK'
  BY <1>4 DEF ExitCredit, Credited
<1>5. CASE Kernel(t)
  BY <1>5 DEF Kernel
<1>6. CASE Released(t)
  BY <1>6 DEF Released
<1>7. CASE AskRelease(t)
  BY <1>7 DEF AskRelease
<1>8. CASE Exit(t)
  BY <1>8 DEF Exit
<1> QED
  BY <1>1, <1>2, <1>3, <1>4, <1>5, <1>6, <1>7, <1>8 DEF Scratch

(* Storage and scratch leave the objects and the calls alone. *)
LEMMA OwnersUntouched ==
    ASSUME OwnersCounted, NEW t \in Threads, Storage(t) \/ Scratch(t)
    PROVE  OwnersCounted' /\ UNCHANGED ownVars
<1>1. UNCHANGED ownVars
  BY DEF Storage, Ask, Allocate, AllocateThrows, GiveBack, Refuse, Free, Scratch, Need,
         FreeBuffers, Credit, ExitCredit, Kernel, Released, AskRelease, Exit
<1> QED
  BY <1>1 DEF OwnersCounted, Alive, ownVars

(* A step of the calls keeps the types and the count, leaves the storage    *)
(* alone, and lets its thread's scratch go only at rest.                    *)
CallsKeep(t) ==
    /\ TypeOK' /\ OwnersCounted'
    /\ UNCHANGED <<heapVars, req, slot, scratchVars>>
    /\ pc[t] = "idle"
    /\ \E p \in {"idle", "releasing"} : pc' = [pc EXCEPT ![t] = p]
    /\ pc'[t] = "releasing" => depth'[t] = 0 /\ uses'[t] = {}
    /\ \A u \in Threads \ {t} : depth'[u] = depth[u] /\ uses'[u] = uses[u]

LEMMA ScopesKeep ==
    ASSUME IInv, NEW t \in Threads, EnterScope(t) \/ ExitScope(t)
    PROVE  CallsKeep(t)
<1> USE DEF heapVars, scratchVars
<1>1. TypeOK /\ OwnersCounted /\ IsFiniteSet(Alive)
  BY AliveIsFinite DEF IInv
<1>2. Alive' = Alive /\ owners' = owners /\ uses' = uses
  BY DEF EnterScope, ExitScope, Alive
<1>3. OwnersCounted'
  BY <1>1, <1>2 DEF OwnersCounted
<1>4. CASE EnterScope(t)
  <2>1. TypeOK'
    BY <1>1, <1>4, ConstantsAssumption DEF EnterScope, TypeOK
  <2>2. pc' = [pc EXCEPT ![t] = "idle"] /\ pc'[t] = "idle"
    BY <1>1, <1>4 DEF EnterScope, TypeOK
  <2> QED
    BY <1>1, <1>2, <1>3, <1>4, <2>1, <2>2 DEF EnterScope, TypeOK, CallsKeep
<1>5. CASE ExitScope(t)
  <2>1. owners = 0 => uses[t] = {}
    BY <1>1, FS_EmptySet DEF OwnersCounted, Alive
  <2>2. PICK p \in {"idle", "releasing"} : pc' = [pc EXCEPT ![t] = p]
    BY <1>5 DEF ExitScope, Goto
  <2>3. TypeOK'
    BY <1>1, <1>5, <2>2, ConstantsAssumption DEF ExitScope, TypeOK
  <2>4. pc'[t] = "releasing" => depth'[t] = 0 /\ uses'[t] = {}
    BY <1>1, <1>2, <1>5, <2>1 DEF ExitScope, ScopeReleases, Goto, TypeOK
  <2> QED
    BY <1>1, <1>2, <1>3, <1>5, <2>2, <2>3, <2>4 DEF ExitScope, TypeOK, CallsKeep
<1> QED
  BY <1>4, <1>5

LEMMA ObjectsKeep ==
    ASSUME IInv, NEW t \in Threads, NEW o \in Objects,
           Construct(t, o) \/ Hand(t, o) \/ CallMethod(t, o)
    PROVE  CallsKeep(t)
<1> USE DEF heapVars, scratchVars
<1>1. TypeOK /\ OwnersCounted /\ IsFiniteSet(Alive) /\ Cardinality(Alive) \in Nat
  BY AliveIsFinite DEF IInv
<1>2. OwnersCounted' /\ owners' \in Nat
  <2>1. CASE Construct(t, o)
    <3>1. Alive' = Alive \cup {o} /\ o \notin Alive
      BY <1>1, <2>1 DEF Construct, Alive, TypeOK
    <3>2. Cardinality(Alive') = Cardinality(Alive) + 1
      BY <1>1, <3>1, FS_AddElement
    <3> QED
      BY <1>1, <2>1, <3>2 DEF Construct, OwnersCounted
  <2>2. CASE Hand(t, o)
    <3>1. Alive' = Alive /\ owners' = owners
      BY <2>2 DEF Hand, Alive
    <3> QED
      BY <1>1, <3>1 DEF OwnersCounted
  <2>3. CASE CallMethod(t, o)
    <3>1. Alive' = Alive /\ owners' = owners
      BY <1>1, <2>3 DEF CallMethod, Alive, TypeOK
    <3> QED
      BY <1>1, <3>1 DEF OwnersCounted
  <2> QED
    BY <2>1, <2>2, <2>3
<1>3. TypeOK'
  <2>1. named' \subseteq Objects /\ UNCHANGED <<depth, pc>>
    BY <1>1 DEF Construct, Hand, CallMethod, TypeOK
  <2>2. uses' \in [Threads -> SUBSET Objects]
    <3>1. uses' = uses \/ uses' = [uses EXCEPT ![t] = @ \cup {o}]
      BY DEF Construct, Hand, CallMethod
    <3>2. uses \in [Threads -> SUBSET Objects] /\ uses[t] \cup {o} \in SUBSET Objects
      BY <1>1 DEF TypeOK
    <3> QED
      BY <3>1, <3>2
  <2>3. UNCHANGED <<heapVars, req, slot, scratchVars>>
    BY DEF Construct, Hand, CallMethod
  <2> QED
    BY <1>1, <1>2, <2>1, <2>2, <2>3 DEF TypeOK
<1>4. pc[t] = "idle" /\ pc' = [pc EXCEPT ![t] = "idle"] /\ pc'[t] = "idle"
  BY <1>1 DEF Construct, Hand, CallMethod, TypeOK
<1>5. \A u \in Threads \ {t} : depth'[u] = depth[u] /\ uses'[u] = uses[u]
  BY <1>1 DEF Construct, Hand, CallMethod, TypeOK
<1> QED
  BY <1>2, <1>3, <1>4, <1>5 DEF Construct, Hand, CallMethod, CallsKeep

LEMMA DropsKeep ==
    ASSUME IInv, NEW t \in Threads, NEW o \in Objects, Return(t, o) \/ Forget(t, o)
    PROVE  CallsKeep(t)
<1> USE DEF heapVars, scratchVars
<1>1. TypeOK /\ OwnersCounted
  BY DEF IInv
<1>2. o \in Alive /\ Alive' \subseteq Alive /\ Alive \ {o} \subseteq Alive'
  <2>1. /\ o \in named \/ o \in uses[t]
        /\ named' \subseteq named /\ named \ {o} \subseteq named'
        /\ \A u \in Threads : uses'[u] \subseteq uses[u] /\ uses[u] \ {o} \subseteq uses'[u]
    <3>1. CASE Return(t, o)
      BY <1>1, <3>1 DEF Return, TypeOK
    <3>2. CASE Forget(t, o)
      BY <1>1, <3>2 DEF Forget, TypeOK
    <3> QED
      BY <3>1, <3>2
  <2>2. Alive' \subseteq Alive
    BY <2>1 DEF Alive
  <2>3. Alive \ {o} \subseteq Alive'
    BY <2>1 DEF Alive
  <2> QED
    BY <2>1, <2>2, <2>3 DEF Alive
<1>3. Dropped(t, o) /\ pc[t] = "idle"
  BY DEF Return, Forget
<1>4. /\ OwnersCounted' /\ owners' \in Nat
      /\ \E p \in {"idle", "releasing"} : pc' = [pc EXCEPT ![t] = p]
      /\ pc'[t] = "releasing" => Alive' = {} /\ depth[t] = 0
  BY <1>1, <1>2, <1>3, ObjectGoes DEF TypeOK
<1>5. TypeOK'
  <2>1. named' \subseteq Objects /\ depth' = depth
    BY <1>1 DEF Return, Forget, TypeOK
  <2>2. uses' \in [Threads -> SUBSET Objects]
    <3>1. uses' = uses \/ uses' = [uses EXCEPT ![t] = @ \ {o}]
      BY DEF Return, Forget
    <3>2. uses \in [Threads -> SUBSET Objects] /\ uses[t] \ {o} \in SUBSET Objects
      BY <1>1 DEF TypeOK
    <3> QED
      BY <3>1, <3>2
  <2>3. pc' \in [Threads -> {"idle", "allocate", "giveBack", "refuse", "kernel",
                             "releasing", "asked", "exiting", "dead"}]
    BY <1>1, <1>4 DEF TypeOK
  <2>4. UNCHANGED <<heapVars, req, slot, scratchVars>>
    BY DEF Return, Forget
  <2> QED
    BY <1>1, <1>4, <2>1, <2>2, <2>3, <2>4 DEF TypeOK
<1>6. pc'[t] = "releasing" => depth'[t] = 0 /\ uses'[t] = {}
  BY <1>4 DEF Return, Forget, Alive
<1>7. \A u \in Threads \ {t} : depth'[u] = depth[u] /\ uses'[u] = uses[u]
  BY <1>1 DEF Return, Forget, TypeOK
<1> QED
  BY <1>3, <1>4, <1>5, <1>6, <1>7 DEF Return, Forget, CallsKeep

LEMMA CallsStep ==
    ASSUME IInv, NEW t \in Threads, Calls(t)
    PROVE  CallsKeep(t)
BY ScopesKeep, ObjectsKeep, DropsKeep DEF Calls

-----------------------------------------------------------------------------
(* A step of the storage or the scratch starts no release by itself. *)
LEMMA NoReleaseStarts ==
    ASSUME TypeOK, NEW t \in Threads, Storage(t) \/ Scratch(t)
    PROVE  /\ pc'[t] = "releasing" => pc[t] = "releasing"
           /\ pc'[t] \in {"exiting", "dead"} => pc[t] \in {"exiting", "dead"} \/ AtRest(t)
           /\ pc'[t] = "kernel" => pc[t] \in {"kernel", "idle"}
           /\ \A u \in Threads \ {t} : pc'[u] = pc[u]
<1> USE DEF TypeOK, Goto
<1>1. CASE Storage(t)
  BY <1>1 DEF Storage, Ask, Charge, Allocate, AllocateThrows, GiveBack, Refuse, Free
<1>2. CASE Scratch(t)
  BY <1>2 DEF Scratch, Need, Covered, Grow, Charge, FreeBuffers, Credit, ExitCredit, Kernel,
              Released, AskRelease, Exit
<1> QED
  BY <1>1, <1>2

(* A step of thread t leaves the slots of the others alone. *)
LEMMA OwnSlotsOnly ==
    ASSUME TypeOK, NEW t \in Threads, Storage(t) \/ Scratch(t)
    PROVE  \A u \in Threads \ {t} :
               /\ charged'[u] = charged[u] /\ buffers'[u] = buffers[u]
               /\ req'[u] = req[u] /\ slot'[u] = slot[u]
<1> USE DEF TypeOK, scratchVars
<1>1. CASE Storage(t)
  BY <1>1 DEF Storage, Ask, Allocate, AllocateThrows, GiveBack, Refuse, Free
<1>2. CASE Scratch(t)
  BY <1>2 DEF Scratch, Need, Covered, Grow, FreeBuffers, Credit, ExitCredit, Credited,
              Kernel, Released, AskRelease, Exit
<1> QED
  BY <1>1, <1>2

(* The scratch of one thread: charged before it grows, freed before it is   *)
(* credited.                                                                *)
CoveredHere(t) ==
    /\ pc[t] = "kernel" => req[t] <= charged[t][slot[t]]
    /\ Runs(t) => \A s \in Slots : buffers[t][s] <= charged[t][s]

LEMMA NeedKeeps ==
    ASSUME TypeOK, NEW t \in Threads, NEW s \in Slots, NEW b \in Sizes,
           Need(t, s, b), CoveredHere(t)
    PROVE  CoveredHere(t)'
<1> USE ConstantsAssumption DEF TypeOK, Runs, CoveredHere, scratchVars, Goto
<1>1. /\ pc[t] = "idle" /\ slot'[t] = s
      /\ b \in Nat /\ charged[t] \in [Slots -> Nat] /\ buffers[t] \in [Slots -> Nat]
  BY DEF Need
<1>2. CASE Covered(t, s, b)
  BY <1>1, <1>2 DEF Covered
<1>3. CASE Grow(t, s, b)
  <2>1. buffers' = buffers /\ b > charged[t][s]
    BY <1>1, <1>3 DEF Grow
  <2>2. CASE Fits(b - charged[t][s])
    <3>1. charged'[t] = [charged[t] EXCEPT ![s] = b] /\ req'[t] = b
      BY <1>3, <2>2 DEF Grow
    <3> QED
      BY <1>1, <2>1, <3>1
  <2>3. CASE ~Fits(b - charged[t][s])
    <3>1. charged' = charged /\ pc'[t] = "refuse"
      BY <1>3, <2>3 DEF Grow, Charge
    <3> QED
      BY <1>1, <2>1, <3>1
  <2> QED
    BY <2>2, <2>3
<1> QED
  BY <1>2, <1>3 DEF Need

LEMMA KernelKeeps ==
    ASSUME TypeOK, NEW t \in Threads, Kernel(t), CoveredHere(t)
    PROVE  CoveredHere(t)'
<1> DEFINE s == slot[t]
<1>1. PICK b \in {buffers[t][s]} \cup buffers[t][s] .. req[t] :
          buffers' = [buffers EXCEPT ![t][s] = b]
  BY DEF Kernel
<1>2. /\ s \in Slots /\ charged[t] \in [Slots -> Nat] /\ buffers[t] \in [Slots -> Nat]
      /\ req[t] \in Nat /\ pc[t] = "kernel" /\ pc'[t] = "idle" /\ charged' = charged
  BY DEF TypeOK, Kernel, Goto
<1>3. b <= charged[t][s]
  BY <1>1, <1>2 DEF CoveredHere, Runs
<1>4. buffers'[t] = [buffers[t] EXCEPT ![s] = b]
  BY <1>1 DEF TypeOK
<1> QED
  BY <1>2, <1>3, <1>4 DEF CoveredHere, Runs

LEMMA FreesKeep ==
    ASSUME TypeOK, NEW t \in Threads, NEW s \in Slots, CoveredHere(t),
           FreeBuffers(t, s) \/ Credit(t, s) \/ ExitCredit(t, s)
    PROVE  CoveredHere(t)'
<1>1. /\ pc' = pc /\ pc[t] \in {"releasing", "asked", "exiting"}
      /\ charged[t] \in [Slots -> Nat] /\ buffers[t] \in [Slots -> Nat]
  BY DEF TypeOK, FreeBuffers, Credit, ExitCredit
<1>2. CASE FreeBuffers(t, s)
  <2>1. buffers'[t] = [buffers[t] EXCEPT ![s] = 0] /\ charged' = charged
    BY <1>2 DEF TypeOK, FreeBuffers
  <2> QED
    BY <1>1, <2>1 DEF CoveredHere, Runs
<1>3. CASE Credit(t, s)
  <2>1. buffers' = buffers /\ charged'[t] = [charged[t] EXCEPT ![s] = 0] /\ buffers[t][s] = 0
    BY <1>3 DEF TypeOK, Credit, Credited
  <2> QED
    BY <1>1, <2>1 DEF CoveredHere, Runs
<1>4. CASE ExitCredit(t, s)
  BY <1>1, <1>4 DEF ExitCredit, CoveredHere, Runs
<1> QED
  BY <1>2, <1>3, <1>4

LEMMA OthersKeep ==
    ASSUME TypeOK, NEW t \in Threads, CoveredHere(t),
           Storage(t) \/ Kernel(t) \/ Released(t) \/ AskRelease(t) \/ Exit(t)
    PROVE  CoveredHere(t)'
<1>1. CASE Storage(t)
  <2>1. UNCHANGED scratchVars /\ pc[t] \notin {"exiting", "dead"} /\ pc'[t] # "kernel"
    BY <1>1 DEF Storage, Ask, Charge, Allocate, AllocateThrows, GiveBack, Refuse, Free,
                scratchVars, TypeOK, Goto
  <2> QED
    BY <2>1 DEF CoveredHere, Runs, scratchVars
<1>2. CASE Released(t)
  BY <1>2 DEF Released, scratchVars, TypeOK, Goto, CoveredHere, Runs
<1>3. CASE AskRelease(t) \/ Exit(t)
  BY <1>3 DEF AskRelease, Exit, AtRest, scratchVars, TypeOK, Goto, CoveredHere, Runs
<1> QED
  BY <1>1, <1>2, <1>3, KernelKeeps

LEMMA CoveredStep ==
    ASSUME TypeOK, NEW t \in Threads, Storage(t) \/ Scratch(t), CoveredHere(t)
    PROVE  CoveredHere(t)'
BY NeedKeeps, KernelKeeps, FreesKeep, OthersKeep DEF Scratch

-----------------------------------------------------------------------------
LEMMA StorageOrScratchStep ==
    ASSUME IInv, NEW t \in Threads, Storage(t) \/ Scratch(t)
    PROVE  IInv'
<1>1. TypeOK /\ OwnersCounted /\ GoesAtRest /\ \A u \in Threads : CoveredHere(u)
  BY DEF IInv, KernelIsCharged, ScratchIsCovered, CoveredHere
<1>2. TypeOK'
  BY <1>1, TypeStorage, TypeScratch
<1>3. OwnersCounted' /\ UNCHANGED ownVars
  BY <1>1, OwnersUntouched
<1>4. \A u \in Threads \ {t} : pc'[u] = pc[u]
  BY <1>1, NoReleaseStarts
<1>5. \A u \in Threads : CoveredHere(u)'
  <2>1. CoveredHere(t)'
    BY <1>1, CoveredStep
  <2>2. ASSUME NEW u \in Threads \ {t} PROVE CoveredHere(u)'
    BY <1>1, <1>4, OwnSlotsOnly DEF CoveredHere, Runs
  <2> QED
    BY <2>1, <2>2
<1>6. GoesAtRest'
  <2>1. \A u \in Threads : depth'[u] = depth[u] /\ uses'[u] = uses[u]
    BY <1>3 DEF ownVars
  <2>2. pc'[t] \in {"releasing", "exiting", "dead"} => depth[t] = 0 /\ uses[t] = {}
    <3>1. AtRest(t) => depth[t] = 0 /\ uses[t] = {}
      BY <1>1 DEF AtRest, InCall, TypeOK
    <3> QED
      BY <1>1, <3>1, NoReleaseStarts DEF GoesAtRest
  <2> QED
    BY <1>1, <1>4, <2>1, <2>2 DEF GoesAtRest
<1> QED
  BY <1>2, <1>3, <1>5, <1>6 DEF IInv, KernelIsCharged, ScratchIsCovered, CoveredHere

LEMMA CallsStepKeeps ==
    ASSUME IInv, NEW t \in Threads, Calls(t)
    PROVE  IInv'
<1>1. CallsKeep(t)
  BY CallsStep
<1>2. PICK p \in {"idle", "releasing"} : pc' = [pc EXCEPT ![t] = p]
  BY <1>1 DEF CallsKeep
<1>3. /\ pc[t] = "idle" /\ pc'[t] \in {"idle", "releasing"}
      /\ \A u \in Threads \ {t} : pc'[u] = pc[u]
  BY <1>1, <1>2 DEF CallsKeep, IInv, TypeOK
<1>4. KernelIsCharged' /\ ScratchIsCovered'
  BY <1>1, <1>3 DEF CallsKeep, IInv, KernelIsCharged, ScratchIsCovered, Runs, scratchVars
<1>5. GoesAtRest'
  BY <1>1, <1>3 DEF CallsKeep, IInv, GoesAtRest
<1> QED
  BY <1>1, <1>4, <1>5 DEF CallsKeep, IInv

LEMMA StutterKeeps == IInv /\ UNCHANGED vars => IInv'
BY DEF IInv, TypeOK, OwnersCounted, Alive, KernelIsCharged, ScratchIsCovered, GoesAtRest, Runs,
       vars, heapVars, ownVars, scratchVars

LEMMA Inductive == IInv /\ [Next]_vars => IInv'
BY StorageOrScratchStep, CallsStepKeeps, StutterKeeps DEF Next

LEMMA Invariant == Spec => []IInv
<1> QED
  BY InitIInv, Inductive, PTL DEF Spec

(* The types: the owner count is never negative, a call depth never below 0. *)
THEOREM TypesHold == Spec => []TypeOK
<1>1. IInv => TypeOK
  BY DEF IInv
<1> QED
  BY <1>1, Invariant, PTL

(* The owner count is the number of objects, so the test for zero that      *)
(* releases scratch is a test that no object is left.                       *)
THEOREM OwnersAreCounted == Spec => []OwnersCounted
<1>1. IInv => OwnersCounted
  BY DEF IInv
<1> QED
  BY <1>1, Invariant, PTL

(* No buffer of a running thread exceeds what its slot is charged, through  *)
(* refusals, throwing kernels and releases.                                 *)
THEOREM ScratchStaysCovered == Spec => []ScratchIsCovered
<1>1. IInv => ScratchIsCovered
  BY DEF IInv
<1> QED
  BY <1>1, Invariant, PTL

(* Scratch is released by itself only on a thread that is in no call.       *)
THEOREM ReleasedOnlyAtRest == Spec => ReleasesAtRest
<1>1. IInv /\ [Next]_vars =>
          [\A t \in Threads :
              pc[t] # "releasing" /\ pc'[t] = "releasing" => depth'[t] = 0 /\ uses'[t] = {}]_vars
  <2> SUFFICES ASSUME IInv, Next, NEW u \in Threads,
                      pc[u] # "releasing", pc'[u] = "releasing"
               PROVE  depth'[u] = 0 /\ uses'[u] = {}
    BY DEF vars
  <2>1. IInv'
    BY Inductive
  <2> QED
    BY <2>1 DEF IInv, GoesAtRest
<1> QED
  BY <1>1, Invariant, PTL DEF Spec, ReleasesAtRest

-----------------------------------------------------------------------------
(* The totals.  A step of one thread changes the live total by what it      *)
(* changes of the blocks and of the bytes that thread answers for.          *)

(* Bytes thread t answers for. *)
Share(t) == InHand(t) + TotalCharged(t)
Shares == SumFunction([t \in Threads |-> Share(t)])
Refusals == SumFunction([t \in Threads |-> BeingRefused(t)])

LEMMA ShareTypes ==
    ASSUME TypeOK, NEW t \in Threads
    PROVE  /\ TotalCharged(t) = SumFunctionOnSet(charged[t], Slots)
           /\ TotalCharged(t) \in Nat /\ InHand(t) \in Nat /\ BeingRefused(t) \in Nat
           /\ Share(t) \in Nat
<1>1. charged[t] \in [Slots -> Nat] /\ DOMAIN charged[t] = Slots /\ req[t] \in Nat
  BY DEF TypeOK
<1>2. TotalCharged(t) = SumFunctionOnSet(charged[t], Slots)
  BY <1>1 DEF TotalCharged, SumFunction
<1>3. TotalCharged(t) \in Nat
  BY <1>1, <1>2, SumNat, ConstantsAssumption
<1> QED
  BY <1>1, <1>2, <1>3 DEF InHand, BeingRefused, Share

LEMMA SharesAre ==
    /\ Shares = SumFunctionOnSet([u \in Threads |-> Share(u)], Threads)
    /\ Refusals = SumFunctionOnSet([u \in Threads |-> BeingRefused(u)], Threads)
BY DEF Shares, Refusals, SumFunction

LEMMA SharesAreNext ==
    /\ Shares' = SumFunctionOnSet([u \in Threads |-> Share(u)'], Threads)
    /\ Refusals' = SumFunctionOnSet([u \in Threads |-> BeingRefused(u)'], Threads)
BY DEF Shares, Refusals, SumFunction

LEMMA ChargeChange ==
    ASSUME TypeOK, NEW t \in Threads, NEW s \in Slots, NEW n \in Nat,
           charged' = [charged EXCEPT ![t][s] = n], TypeOK'
    PROVE  TotalCharged(t)' = TotalCharged(t) - charged[t][s] + n
<1>1. /\ TotalCharged(t) = SumFunctionOnSet(charged[t], Slots)
      /\ TotalCharged(t)' = SumFunctionOnSet(charged'[t], Slots)
  BY ShareTypes DEF TotalCharged, SumFunction, TypeOK
<1>2. charged[t] \in [Slots -> Nat] /\ charged'[t] = [charged[t] EXCEPT ![s] = n]
  BY DEF TypeOK
<1> QED
  BY <1>1, <1>2, SumChange, ConstantsAssumption

(* A step of t changes the two sums by what it changes of t. *)
LEMMA SharesChange ==
    ASSUME TypeOK, TypeOK', NEW t \in Threads,
           \A u \in Threads \ {t} : pc'[u] = pc[u] /\ req'[u] = req[u] /\ charged'[u] = charged[u]
    PROVE  /\ Shares \in Nat /\ Refusals \in Nat
           /\ Shares' = Shares - Share(t) + Share(t)'
           /\ Refusals' = Refusals - BeingRefused(t) + BeingRefused(t)'
<1>1. ASSUME NEW u \in Threads
      PROVE  /\ Share(u) \in Nat /\ BeingRefused(u) \in Nat
             /\ Share(u)' \in Nat /\ BeingRefused(u)' \in Nat
  <2>1. charged'[u] \in [Slots -> Nat] /\ DOMAIN charged'[u] = Slots /\ req'[u] \in Nat
    BY DEF TypeOK
  <2>2. TotalCharged(u)' = SumFunctionOnSet(charged'[u], Slots)
    BY <2>1 DEF TotalCharged, SumFunction
  <2>3. TotalCharged(u)' \in Nat
    BY <2>1, <2>2, SumNat, ConstantsAssumption
  <2> QED
    BY ShareTypes, <2>1, <2>3 DEF Share, InHand, BeingRefused
<1>2. ASSUME NEW u \in Threads \ {t}
      PROVE  Share(u)' = Share(u) /\ BeingRefused(u)' = BeingRefused(u)
  BY DEF Share, InHand, BeingRefused, TotalCharged
<1> DEFINE f == [u \in Threads |-> Share(u)]
           g == [u \in Threads |-> Share(u)']
           h == [u \in Threads |-> BeingRefused(u)]
           k == [u \in Threads |-> BeingRefused(u)']
<1>3. /\ \A u \in Threads : f[u] \in Nat /\ g[u] \in Nat /\ h[u] \in Nat /\ k[u] \in Nat
      /\ \A u \in Threads \ {t} : g[u] = f[u] /\ k[u] = h[u]
  BY <1>1, <1>2
<1>4. /\ Shares = SumFunctionOnSet(f, Threads) /\ Refusals = SumFunctionOnSet(h, Threads)
      /\ Shares' = SumFunctionOnSet(g, Threads) /\ Refusals' = SumFunctionOnSet(k, Threads)
  BY SharesAre, SharesAreNext
<1>5. f[t] = Share(t) /\ g[t] = Share(t)' /\ h[t] = BeingRefused(t) /\ k[t] = BeingRefused(t)'
  OBVIOUS
<1> HIDE DEF f, g, h, k
<1>6. Shares \in Nat /\ Refusals \in Nat
  BY <1>3, <1>4, SumNat, ConstantsAssumption
<1>7. /\ Shares' = Shares - f[t] + g[t] /\ Refusals' = Refusals - h[t] + k[t]
  BY <1>3, <1>4, SumChange, ConstantsAssumption
<1> QED
  BY <1>5, <1>6, <1>7

LEMMA OneMore == \A b, n \in Int : b * (n + 1) = b * n + b /\ b * (n - 1) = b * n - b
OBVIOUS

(* A block more, or one less, of size b. *)
LEMMA BlocksChange ==
    ASSUME TypeOK, NEW b \in Sizes, NEW d \in {-1, 1},
           blocks' = [blocks EXCEPT ![b] = @ + d]
    PROVE  InBlocks \in Int /\ InBlocks' = InBlocks + d * b
<1> DEFINE f == [c \in Sizes |-> c * blocks[c]]
           g == [c \in Sizes |-> c * blocks'[c]]
<1>1. InBlocks = SumFunctionOnSet(f, Sizes) /\ InBlocks' = SumFunctionOnSet(g, Sizes)
  BY DEF InBlocks, SumFunction
<1>2. blocks \in [Sizes -> Nat] /\ \A c \in Sizes : c \in Nat
  BY ConstantsAssumption DEF TypeOK
<1>3. \A c \in Sizes : f[c] \in Int /\ g[c] \in Int
  <2>1. \A c \in Sizes : c \in Int /\ blocks[c] \in Int /\ blocks'[c] \in Int
    BY <1>2
  <2>2. ASSUME NEW c \in Sizes PROVE c * blocks[c] \in Int /\ c * blocks'[c] \in Int
    BY <2>1
  <2> QED
    BY <2>2
<1>4. \A c \in Sizes \ {b} : g[c] = f[c]
  BY <1>2
<1>5. g[b] = f[b] + d * b
  <2>1. g[b] = b * (blocks[b] + d) /\ f[b] = b * blocks[b] /\ b \in Int /\ blocks[b] \in Int
    BY <1>2
  <2> QED
    BY <2>1, OneMore
<1>6. b \in Sizes /\ d * b \in Int
  BY <1>2
<1> HIDE DEF f, g
<1>7. IsFiniteSet(Sizes)
  BY ConstantsAssumption
<1>8. SumFunctionOnSet(f, Sizes) \in Int
  BY <1>3, <1>7, SumType
<1>9. SumFunctionOnSet(g, Sizes) = SumFunctionOnSet(f, Sizes) - f[b] + g[b]
  BY <1>3, <1>4, <1>7, SumChange
<1> QED
  BY <1>1, <1>3, <1>5, <1>6, <1>8, <1>9

(* What a step of t may do to the totals: every byte that joins or leaves   *)
(* live joins or leaves exactly one place, and committed bytes grow only    *)
(* under the budget.                                                        *)
Balanced(t) ==
    /\ \A u \in Threads \ {t} : /\ pc'[u] = pc[u] /\ req'[u] = req[u]
                                /\ charged'[u] = charged[u] /\ scratch'[u] = scratch[u]
    /\ live' - live = (InBlocks' - InBlocks) + (Share(t)' - Share(t))
                        + (BeingRefused(t)' - BeingRefused(t))
    /\ InBlocks' + Share(t)' <= InBlocks + Share(t) \/ live' <= Budget
    /\ Runs(t)' => Runs(t) /\ scratch'[t] - scratch[t] = TotalCharged(t)' - TotalCharged(t)
    /\ pc'[t] = "allocate" => req'[t] \in Sizes

RequestsAreSizes == \A t \in Threads : pc[t] = "allocate" => req[t] \in Sizes

(* Any count of blocks of each size is a whole number of bytes. *)
LEMMA BlocksType ==
    ASSUME NEW bs \in [Sizes -> Nat]
    PROVE  SumFunction([c \in Sizes |-> c * bs[c]]) \in Int
<1>1. \A c \in Sizes : c \in Int /\ bs[c] \in Int
  BY ConstantsAssumption
<1>2. ASSUME NEW c \in Sizes PROVE c * bs[c] \in Int
  BY <1>1
<1> DEFINE f == [c \in Sizes |-> c * bs[c]]
<1>3. \A c \in Sizes : f[c] \in Int
  BY <1>2
<1>4. SumFunction(f) = SumFunctionOnSet(f, Sizes)
  BY DEF SumFunction
<1> HIDE DEF f
<1>5. SumFunction(f) \in Int
  BY <1>3, <1>4, SumType, ConstantsAssumption
<1> QED
  BY <1>5 DEF f

(* What the balance of a step is made of. *)
LEMMA ShareFacts ==
    ASSUME TypeOK, TypeOK', NEW t \in Threads
    PROVE  /\ live \in Int /\ live' \in Int /\ scratch[t] \in Int /\ scratch'[t] \in Int
           /\ InBlocks \in Int /\ InBlocks' \in Int
           /\ req[t] \in Nat /\ req'[t] \in Nat
           /\ TotalCharged(t) \in Nat /\ TotalCharged(t)' \in Nat
           /\ charged' = charged => TotalCharged(t)' = TotalCharged(t)
           /\ blocks' = blocks => InBlocks' = InBlocks
<1>1. TotalCharged(t) \in Nat
  BY ShareTypes
<1>2. TotalCharged(t)' \in Nat
  <2>1. charged'[t] \in [Slots -> Nat] /\ DOMAIN charged'[t] = Slots
    BY DEF TypeOK
  <2>2. TotalCharged(t)' = SumFunctionOnSet(charged'[t], Slots)
    BY <2>1 DEF TotalCharged, SumFunction
  <2> QED
    BY <2>1, <2>2, SumNat, ConstantsAssumption
<1>4. InBlocks \in Int /\ InBlocks' \in Int
  BY BlocksType DEF InBlocks, TypeOK
<1>5. /\ charged' = charged => TotalCharged(t)' = TotalCharged(t)
      /\ blocks' = blocks => InBlocks' = InBlocks
  BY DEF TotalCharged, InBlocks
<1> QED
  BY <1>1, <1>2, <1>4, <1>5 DEF TypeOK

LEMMA StorageBalanced ==
    ASSUME IInv, RequestsAreSizes, NEW t \in Threads, Storage(t)
    PROVE  Balanced(t)
<1> USE DEF Goto, ownVars, scratchVars, heapVars
<1>1. TypeOK /\ TypeOK'
  BY TypeStorage DEF IInv
<1>2. /\ charged' = charged /\ scratch' = scratch
      /\ \A u \in Threads \ {t} : /\ pc'[u] = pc[u] /\ req'[u] = req[u]
                                  /\ charged'[u] = charged[u] /\ scratch'[u] = scratch[u]
  BY <1>1 DEF TypeOK, Storage, Ask, Charge, Allocate, AllocateThrows, GiveBack, Refuse, Free
<1>3. /\ live \in Int /\ live' \in Int /\ InBlocks \in Int /\ InBlocks' \in Int
      /\ req[t] \in Nat /\ req'[t] \in Nat
      /\ TotalCharged(t) \in Nat /\ TotalCharged(t)' = TotalCharged(t)
      /\ blocks' = blocks => InBlocks' = InBlocks
  BY <1>1, <1>2, ShareFacts
<1>4. Runs(t)' => Runs(t) /\ scratch'[t] - scratch[t] = TotalCharged(t)' - TotalCharged(t)
  BY <1>1, <1>2, <1>3 DEF TypeOK, Runs, Storage, Ask, Charge, Allocate, AllocateThrows,
                          GiveBack, Refuse, Free
<1> DEFINE Account ==
        /\ live' - live = (InBlocks' - InBlocks) + (Share(t)' - Share(t))
                            + (BeingRefused(t)' - BeingRefused(t))
        /\ InBlocks' + Share(t)' <= InBlocks + Share(t) \/ live' <= Budget
        /\ pc'[t] = "allocate" => req'[t] \in Sizes
<1>5. ASSUME NEW b \in Sizes, Ask(t, b) PROVE Account
  <2>1. /\ pc[t] = "idle" /\ req'[t] = b /\ live' = live + b /\ blocks' = blocks /\ b \in Nat
        /\ \/ Fits(b) /\ pc'[t] = "allocate"
           \/ pc'[t] = "refuse"
    BY <1>1, <1>5, ConstantsAssumption DEF Ask, Charge, TypeOK
  <2> QED
    BY <1>3, <2>1 DEF Share, InHand, BeingRefused, Fits
<1>6. ASSUME NEW b \in Sizes, Free(t, b) PROVE Account
  <2>1. /\ pc[t] = "idle" /\ req'[t] = b /\ live' = live /\ pc'[t] = "giveBack" /\ b \in Nat
        /\ blocks' = [blocks EXCEPT ![b] = @ + (-1)]
    BY <1>1, <1>6, ConstantsAssumption DEF Free, TypeOK
  <2>2. InBlocks' = InBlocks + (-1) * b
    BY <1>1, <2>1, BlocksChange
  <2> QED
    BY <1>3, <2>1, <2>2 DEF Share, InHand, BeingRefused
<1>7. ASSUME Allocate(t) PROVE Account
  <2>1. /\ pc[t] = "allocate" /\ req'[t] = req[t] /\ live' = live /\ pc'[t] = "idle"
        /\ req[t] \in Sizes /\ blocks' = [blocks EXCEPT ![req[t]] = @ + 1]
    BY <1>1, <1>7 DEF Allocate, TypeOK, RequestsAreSizes
  <2>2. InBlocks' = InBlocks + 1 * req[t]
    BY <1>1, <2>1, BlocksChange
  <2> QED
    BY <1>3, <2>1, <2>2 DEF Share, InHand, BeingRefused
<1>8. ASSUME AllocateThrows(t) \/ GiveBack(t) \/ Refuse(t) PROVE Account
  <2>1. /\ req'[t] = req[t] /\ blocks' = blocks
        /\ \/ pc[t] = "allocate" /\ pc'[t] = "giveBack" /\ live' = live
           \/ pc[t] = "giveBack" /\ pc'[t] = "idle" /\ live' = live - req[t]
           \/ pc[t] = "refuse" /\ pc'[t] = "idle" /\ live' = live - req[t]
    BY <1>1, <1>8 DEF AllocateThrows, GiveBack, Refuse, TypeOK
  <2> QED
    BY <1>3, <2>1 DEF Share, InHand, BeingRefused
<1>9. Account
  <2> HIDE DEF Account
  <2> QED
    BY <1>5, <1>6, <1>7, <1>8 DEF Storage
<1> QED
  BY <1>2, <1>4, <1>9 DEF Balanced

LEMMA ScratchBalanced ==
    ASSUME IInv, NEW t \in Threads, Scratch(t)
    PROVE  Balanced(t)
<1> USE DEF Goto, ownVars, scratchVars, heapVars
<1>1. TypeOK /\ TypeOK' /\ t \in DOMAIN pc /\ t \in DOMAIN req /\ t \in DOMAIN scratch
  BY TypeScratch DEF IInv, TypeOK
<1>2. /\ blocks' = blocks
      /\ \A u \in Threads \ {t} : /\ pc'[u] = pc[u] /\ req'[u] = req[u]
                                  /\ charged'[u] = charged[u] /\ scratch'[u] = scratch[u]
  BY <1>1 DEF TypeOK, Scratch, Need, Covered, Grow, Charge, FreeBuffers, Credit, ExitCredit,
              Credited, Kernel, Released, AskRelease, Exit
<1>3. /\ live \in Int /\ live' \in Int /\ InBlocks \in Int /\ InBlocks' = InBlocks
      /\ req[t] \in Nat /\ req'[t] \in Nat /\ scratch[t] \in Int /\ scratch'[t] \in Int
      /\ TotalCharged(t) \in Nat /\ TotalCharged(t)' \in Nat
      /\ charged' = charged => TotalCharged(t)' = TotalCharged(t)
  BY <1>1, <1>2, ShareFacts
<1> DEFINE Account ==
        /\ live' - live = (InBlocks' - InBlocks) + (Share(t)' - Share(t))
                            + (BeingRefused(t)' - BeingRefused(t))
        /\ InBlocks' + Share(t)' <= InBlocks + Share(t) \/ live' <= Budget
        /\ Runs(t)' => Runs(t) /\ scratch'[t] - scratch[t] = TotalCharged(t)' - TotalCharged(t)
        /\ pc'[t] = "allocate" => req'[t] \in Sizes
<1>4. ASSUME NEW s \in Slots, NEW b \in Sizes, Need(t, s, b), Covered(t, s, b) PROVE Account
  <2>1. /\ pc[t] = "idle" /\ pc'[t] = "kernel" /\ live' = live
        /\ charged' = charged /\ scratch' = scratch
    BY <1>1, <1>4 DEF Need, Covered
  <2> QED
    BY <1>3, <2>1 DEF Share, InHand, BeingRefused, Runs
<1>5. ASSUME NEW s \in Slots, NEW b \in Sizes, Need(t, s, b), Grow(t, s, b) PROVE Account
  <2> DEFINE more == b - charged[t][s]
  <2>1. charged[t][s] \in Nat /\ b \in Nat /\ more \in Nat
    BY <1>1, <1>5, ConstantsAssumption DEF Grow, TypeOK
  <2>2. pc[t] = "idle" /\ live' = live + more
    BY <1>1, <1>5 DEF Need, Grow, Charge
  <2>3. CASE Fits(more)
    <3>1. /\ pc'[t] = "kernel" /\ live' <= Budget
          /\ charged' = [charged EXCEPT ![t][s] = b] /\ scratch'[t] = scratch[t] + more
      BY <1>1, <1>5, <2>2, <2>3 DEF Grow, Charge, Fits
    <3>2. TotalCharged(t)' = TotalCharged(t) - charged[t][s] + b
      BY <1>1, <2>1, <3>1, ChargeChange
    <3> QED
      BY <1>3, <2>1, <2>2, <3>1, <3>2 DEF Share, InHand, BeingRefused, Runs
  <2>4. CASE ~Fits(more)
    <3>1. /\ pc'[t] = "refuse" /\ req'[t] = more /\ charged' = charged /\ scratch' = scratch
      BY <1>1, <1>5, <2>4 DEF Grow, Charge
    <3> QED
      BY <1>3, <2>1, <2>2, <3>1 DEF Share, InHand, BeingRefused, Runs
  <2> QED
    BY <2>3, <2>4
<1>6. ASSUME NEW s \in Slots, Credited(t, s), pc' = pc, req' = req,
             pc[t] \in {"releasing", "asked", "exiting"},
             pc[t] # "exiting" => scratch' = [scratch EXCEPT ![t] = @ - charged[t][s]]
      PROVE  Account
  <2>1. /\ charged[t][s] \in Nat /\ live' = live - charged[t][s]
        /\ charged' = [charged EXCEPT ![t][s] = 0]
    BY <1>1, <1>6 DEF Credited, TypeOK
  <2>2. TotalCharged(t)' = TotalCharged(t) - charged[t][s] + 0
    BY <1>1, <2>1, ChargeChange
  <2> QED
    BY <1>1, <1>3, <1>6, <2>1, <2>2 DEF Share, InHand, BeingRefused, Runs
<1>7. ASSUME live' = live, charged' = charged, scratch' = scratch, req' = req,
             pc[t] \notin {"allocate", "giveBack", "refuse"},
             pc'[t] \notin {"allocate", "giveBack", "refuse"}, Runs(t)' => Runs(t)
      PROVE  Account
  BY <1>3, <1>7 DEF Share, InHand, BeingRefused
<1>8. ASSUME NEW s \in Slots, FreeBuffers(t, s) PROVE Account
  <2>1. /\ live' = live /\ charged' = charged /\ scratch' = scratch /\ req' = req /\ pc' = pc
        /\ pc[t] \in {"releasing", "asked", "exiting"}
    BY <1>8 DEF FreeBuffers
  <2> HIDE DEF Account
  <2> QED
    BY <1>7, <2>1 DEF Runs
<1>9. ASSUME Kernel(t) \/ Released(t) \/ AskRelease(t) \/ Exit(t) PROVE Account
  <2>1. /\ live' = live /\ charged' = charged /\ scratch' = scratch /\ req' = req
        /\ pc[t] \notin {"allocate", "giveBack", "refuse"}
        /\ pc'[t] \notin {"allocate", "giveBack", "refuse"} /\ (Runs(t)' => Runs(t))
    BY <1>1, <1>9 DEF Kernel, Released, AskRelease, Exit, AtRest, Runs
  <2> HIDE DEF Account
  <2> QED
    BY <1>7, <2>1
<1>10. ASSUME NEW s \in Slots, Credit(t, s) \/ ExitCredit(t, s) PROVE Account
  <2>1. /\ Credited(t, s) /\ pc' = pc /\ req' = req
        /\ pc[t] \in {"releasing", "asked", "exiting"}
        /\ pc[t] # "exiting" => scratch' = [scratch EXCEPT ![t] = @ - charged[t][s]]
    BY <1>10 DEF Credit, ExitCredit
  <2> HIDE DEF Account
  <2> QED
    BY <1>6, <2>1
<1>11. Account
  <2> HIDE DEF Account
  <2> QED
    BY <1>4, <1>5, <1>8, <1>9, <1>10 DEF Scratch, Need
<1> QED
  BY <1>2, <1>11 DEF Balanced

LEMMA CallsBalanced ==
    ASSUME IInv, NEW t \in Threads, Calls(t)
    PROVE  Balanced(t)
<1>1. TypeOK /\ CallsKeep(t) /\ TypeOK'
  BY CallsStep DEF IInv, CallsKeep
<1>2. PICK p \in {"idle", "releasing"} : pc' = [pc EXCEPT ![t] = p]
  BY <1>1 DEF CallsKeep
<1>3. /\ live' = live /\ blocks' = blocks /\ req' = req /\ charged' = charged
      /\ scratch' = scratch /\ pc[t] = "idle" /\ pc'[t] \in {"idle", "releasing"}
      /\ \A u \in Threads \ {t} : pc'[u] = pc[u]
  BY <1>1, <1>2 DEF CallsKeep, heapVars, scratchVars, TypeOK
<1>4. /\ live \in Int /\ InBlocks \in Int /\ InBlocks' = InBlocks /\ scratch[t] \in Int
      /\ TotalCharged(t) \in Nat /\ TotalCharged(t)' = TotalCharged(t)
  BY <1>1, <1>3, ShareFacts
<1> QED
  BY <1>3, <1>4 DEF Balanced, Share, InHand, BeingRefused, Runs

-----------------------------------------------------------------------------
(* The totals of every reachable state: exact, and committed bytes under    *)
(* the budget, for what is granted was compared together with all of live.  *)
Accounts ==
    /\ live = InBlocks + Shares + Refusals
    /\ InBlocks + Shares <= Budget
    /\ \A t \in Threads : Runs(t) => scratch[t] = TotalCharged(t)
    /\ RequestsAreSizes

LEMMA InitAccounts == Init => Accounts
<1> SUFFICES ASSUME Init PROVE Accounts
  OBVIOUS
<1>1. TypeOK
  BY InitIInv DEF IInv
<1>2. \A t \in Threads : TotalCharged(t) = 0
  <2>1. ASSUME NEW t \in Threads PROVE TotalCharged(t) = 0
    <3>1. \A s \in Slots : charged[t][s] = 0
      BY DEF Init
    <3> QED
      BY <1>1, <3>1, ShareTypes, SumZero, ConstantsAssumption
  <2> QED
    BY <2>1
<1>3. \A t \in Threads : Share(t) = 0 /\ BeingRefused(t) = 0
  BY <1>2 DEF Init, Share, InHand, BeingRefused
<1>4. Shares = 0 /\ Refusals = 0
  <2> DEFINE f == [t \in Threads |-> Share(t)]
             g == [t \in Threads |-> BeingRefused(t)]
  <2>1. \A t \in Threads : f[t] = 0 /\ g[t] = 0
    BY <1>3
  <2>2. Shares = SumFunctionOnSet(f, Threads) /\ Refusals = SumFunctionOnSet(g, Threads)
    BY SharesAre
  <2> HIDE DEF f, g
  <2> QED
    BY <2>1, <2>2, SumZero, ConstantsAssumption
<1>5. InBlocks = 0
  <2> DEFINE f == [b \in Sizes |-> b * blocks[b]]
  <2>1. \A b \in Sizes : b \in Int /\ blocks[b] = 0
    BY ConstantsAssumption DEF Init
  <2>2. ASSUME NEW b \in Sizes PROVE f[b] = 0
    BY <2>1
  <2>3. InBlocks = SumFunctionOnSet(f, Sizes)
    BY DEF InBlocks, SumFunction
  <2> HIDE DEF f
  <2> QED
    BY <2>2, <2>3, SumZero, ConstantsAssumption
<1>6. \A t \in Threads : scratch[t] = TotalCharged(t)
  BY <1>2 DEF Init
<1>7. RequestsAreSizes
  BY DEF Init, RequestsAreSizes
<1> QED
  BY <1>4, <1>5, <1>6, <1>7, ConstantsAssumption DEF Init, Accounts

LEMMA BalancedKeeps ==
    ASSUME Accounts, TypeOK, TypeOK', NEW t \in Threads, Balanced(t)
    PROVE  Accounts'
<1>1. /\ Shares \in Nat /\ Refusals \in Nat
      /\ Shares' = Shares - Share(t) + Share(t)'
      /\ Refusals' = Refusals - BeingRefused(t) + BeingRefused(t)'
  BY SharesChange DEF Balanced
<1>2. /\ live \in Int /\ live' \in Int /\ InBlocks \in Int /\ InBlocks' \in Int
      /\ scratch[t] \in Int /\ scratch'[t] \in Int
      /\ TotalCharged(t) \in Nat /\ TotalCharged(t)' \in Nat
      /\ req[t] \in Nat /\ req'[t] \in Nat
  BY ShareFacts
<1>3. /\ Share(t) \in Nat /\ Share(t)' \in Nat
      /\ BeingRefused(t) \in Nat /\ BeingRefused(t)' \in Nat
  BY <1>2 DEF Share, InHand, BeingRefused
<1>4. live' = InBlocks' + Shares' + Refusals'
  BY <1>1, <1>2, <1>3 DEF Accounts, Balanced
<1>5. Refusals' >= 0
  <2>1. \A u \in Threads : BeingRefused(u)' \in Nat
    BY DEF TypeOK, BeingRefused
  <2> DEFINE f == [u \in Threads |-> BeingRefused(u)']
  <2>2. \A u \in Threads : f[u] \in Nat
    BY <2>1
  <2>3. Refusals' = SumFunctionOnSet(f, Threads)
    BY SharesAreNext
  <2> HIDE DEF f
  <2> QED
    BY <2>2, <2>3, SumNat, ConstantsAssumption
<1>6. InBlocks' + Shares' <= Budget
  <2>1. CASE live' <= Budget
    BY <1>1, <1>2, <1>3, <1>4, <1>5, <2>1, ConstantsAssumption
  <2>2. CASE InBlocks' + Share(t)' <= InBlocks + Share(t)
    BY <1>1, <1>2, <1>3, <2>2, ConstantsAssumption DEF Accounts
  <2> QED
    BY <2>1, <2>2 DEF Balanced
<1>7. \A u \in Threads : Runs(u)' => scratch'[u] = TotalCharged(u)'
  <2>1. \A u \in Threads \ {t} : /\ Runs(u)' = Runs(u) /\ scratch'[u] = scratch[u]
                                /\ TotalCharged(u)' = TotalCharged(u)
    BY DEF Balanced, Runs, TotalCharged
  <2>2. ASSUME Runs(t)' PROVE scratch'[t] = TotalCharged(t)'
    <3>1. Runs(t) /\ scratch'[t] - scratch[t] = TotalCharged(t)' - TotalCharged(t)
      BY <2>2 DEF Balanced
    <3>2. scratch[t] = TotalCharged(t)
      BY <3>1 DEF Accounts
    <3> QED
      BY <1>2, <3>1, <3>2
  <2> QED
    BY <2>1, <2>2 DEF Accounts
<1>8. RequestsAreSizes'
  BY DEF Balanced, Accounts, RequestsAreSizes
<1> QED
  BY <1>4, <1>6, <1>7, <1>8 DEF Accounts

LEMMA AccountsStep == IInv /\ Accounts /\ [Next]_vars => Accounts'
<1> SUFFICES ASSUME IInv, Accounts, [Next]_vars PROVE Accounts'
  OBVIOUS
<1>1. TypeOK /\ TypeOK'
  BY Inductive DEF IInv
<1>2. CASE \E t \in Threads : Storage(t) \/ Scratch(t) \/ Calls(t)
  <2>1. PICK t \in Threads : Balanced(t)
    BY <1>2, StorageBalanced, ScratchBalanced, CallsBalanced DEF Accounts
  <2> QED
    BY <1>1, <2>1, BalancedKeeps
<1>3. CASE UNCHANGED vars
  BY <1>3 DEF vars, heapVars, ownVars, scratchVars, Accounts, InBlocks, Shares, Refusals, Share,
              InHand, BeingRefused, TotalCharged, Runs, RequestsAreSizes
<1> QED
  BY <1>2, <1>3 DEF Next

LEMMA AccountsAlways == Spec => []Accounts
<1> QED
  BY InitAccounts, AccountsStep, Invariant, PTL DEF Spec

(* The live total is exact: at every moment it is the bytes of the blocks,  *)
(* the scratch charges and the requests in flight, however the threads      *)
(* interleave and whatever is refused, throws or exits.                     *)
THEOREM LiveStaysExact == Spec => []LiveIsExact
<1>1. Accounts => LiveIsExact
  BY DEF Accounts, LiveIsExact, Committed, Shares, Refusals, Share
<1> QED
  BY <1>1, AccountsAlways, PTL

(* Blocks and the scratch buffers of running threads never hold more than   *)
(* the budget, for any number of threads.                                   *)
THEOREM BudgetIsKept == Spec => []StorageWithinBudget
<1>1. IInv /\ Accounts => StorageWithinBudget
  <2> SUFFICES ASSUME IInv, Accounts PROVE StorageWithinBudget
    OBVIOUS
  <2> DEFINE Holds(t) == IF Runs(t) THEN SumFunction(buffers[t]) ELSE 0
             f == [t \in Threads |-> Holds(t)]
             g == [t \in Threads |-> Share(t)]
  <2>1. ASSUME NEW t \in Threads
        PROVE  Holds(t) \in Nat /\ Share(t) \in Nat /\ Holds(t) <= Share(t)
    <3>1. /\ TotalCharged(t) = SumFunctionOnSet(charged[t], Slots)
          /\ TotalCharged(t) \in Nat /\ InHand(t) \in Nat /\ Share(t) \in Nat
      BY ShareTypes DEF IInv
    <3>2. /\ charged[t] \in [Slots -> Nat] /\ buffers[t] \in [Slots -> Nat]
          /\ SumFunction(buffers[t]) = SumFunctionOnSet(buffers[t], Slots)
      BY DEF IInv, TypeOK, SumFunction
    <3>3. SumFunction(buffers[t]) \in Nat
      BY <3>2, SumNat, ConstantsAssumption
    <3>4. CASE Runs(t)
      <4>1. \A s \in Slots : buffers[t][s] <= charged[t][s]
        BY <3>4 DEF IInv, ScratchIsCovered
      <4>2. SumFunctionOnSet(buffers[t], Slots) <= SumFunctionOnSet(charged[t], Slots)
        BY <3>2, <4>1, SumMonotone, ConstantsAssumption
      <4> QED
        BY <3>1, <3>2, <3>3, <3>4, <4>2 DEF Share
    <3>5. CASE ~Runs(t)
      BY <3>1, <3>5
    <3> QED
      BY <3>4, <3>5
  <2>2. \A t \in Threads : f[t] \in Int /\ g[t] \in Int /\ f[t] <= g[t]
    BY <2>1
  <2>3. /\ SumFunction(f) = SumFunctionOnSet(f, Threads)
        /\ Shares = SumFunctionOnSet(g, Threads)
    BY SharesAre DEF SumFunction
  <2>4. /\ SumFunctionOnSet(f, Threads) \in Int /\ SumFunctionOnSet(g, Threads) \in Int
        /\ SumFunctionOnSet(f, Threads) <= SumFunctionOnSet(g, Threads)
    <3> HIDE DEF f, g
    <3> QED
      BY <2>2, SumMonotone, SumType, ConstantsAssumption
  <2>5. InBlocks \in Int
    BY BlocksType DEF InBlocks, IInv, TypeOK
  <2>6. InBlocks + SumFunction(f) <= Budget
    <3> HIDE DEF f, g
    <3> QED
      BY <2>3, <2>4, <2>5, ConstantsAssumption DEF Accounts
  <2> QED
    BY <2>6 DEF StorageWithinBudget
<1> QED
  BY <1>1, Invariant, AccountsAlways, PTL
=============================================================================
