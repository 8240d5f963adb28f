----------------------------- MODULE StateBudget -----------------------------
(***************************************************************************)
(* The process-wide budget on state storage and the kernel scratch of each *)
(* thread (cpp/src/state_budget.cpp, cpp/include/qeccore/state_budget.hpp).*)
(* There is no lock: the live total and the owner count are atomics, and   *)
(* each step below makes at most one access to them.                       *)
(*                                                                         *)
(* A block is storage got through StateAllocator or covered by a ticket; a *)
(* slot is the scratch of one kernel.  An object is a Python-held value    *)
(* with a ScratchOwner in it; it lives while Python or a running method    *)
(* refers to it, and the thread that drops the last reference destroys it. *)
(***************************************************************************)
EXTENDS Integers, FiniteSets, Functions

CONSTANTS
    Threads,
    Objects,
    Slots,
    Sizes,      \* bytes of the requests
    Budget,     \* state_budget_bytes(), read once
    MaxDepth    \* bound: module-level calls in flight on one thread

ASSUME ConstantsAssumption ==
    /\ IsFiniteSet(Threads) /\ IsFiniteSet(Objects)
    /\ IsFiniteSet(Slots) /\ IsFiniteSet(Sizes)
    /\ Sizes \subseteq Nat \ {0}
    /\ Budget \in Nat
    /\ MaxDepth \in Nat

VARIABLES
    live,       \* g_live
    blocks,     \* size -> the number of blocks allocated and not freed
    owners,     \* g_owners
    named,      \* the objects Python refers to
    uses,       \* thread -> the objects whose methods it is running
    depth,      \* t_call_depth
    pc,         \* where the thread is
    req,        \* the bytes it asks for or gives back
    slot,       \* the slot of the kernel it runs
    charged,    \* ScratchMark.charged
    scratch,    \* t_scratch_bytes
    buffers     \* the bytes the buffers of a slot hold

heapVars == <<live, blocks>>
ownVars == <<owners, named, uses, depth>>
scratchVars == <<charged, scratch, buffers>>
vars == <<heapVars, ownVars, pc, req, slot, scratchVars>>

(* The objects that exist, and the threads that still run. *)
Alive == named \cup UNION {uses[t] : t \in Threads}
Runs(t) == pc[t] \notin {"exiting", "dead"}

InCall(t) == depth[t] > 0 \/ uses[t] # {}
AtRest(t) == pc[t] = "idle" /\ ~InCall(t)

Init ==
    /\ live = 0
    /\ blocks = [b \in Sizes |-> 0]
    /\ owners = 0
    /\ named = {}
    /\ uses = [t \in Threads |-> {}]
    /\ depth = [t \in Threads |-> 0]
    /\ pc = [t \in Threads |-> "idle"]
    /\ req = [t \in Threads |-> 0]
    /\ slot \in [Threads -> Slots]
    /\ charged = [t \in Threads |-> [s \in Slots |-> 0]]
    /\ scratch = [t \in Threads |-> 0]
    /\ buffers = [t \in Threads |-> [s \in Slots |-> 0]]

Goto(t, p) == pc' = [pc EXCEPT ![t] = p]

-----------------------------------------------------------------------------
(* Mutant of Fits: the total is compared before the bytes are added. *)
FitsLate(b) == live <= Budget

(* state_budget_charge: the bytes are added first, and taken back when the *)
(* sum is over the budget.                                                 *)
Fits(b) == live + b <= Budget

Charge(t, b, granted) ==
    /\ live' = live + b
    /\ Goto(t, IF Fits(b) THEN granted ELSE "refuse")

Refuse(t) ==
    /\ pc[t] = "refuse"
    /\ live' = live - req[t]
    /\ Goto(t, "idle")
    /\ UNCHANGED <<blocks, ownVars, req, slot, scratchVars>>

(* StateAllocator::allocate, and a ticket with the buffer it covers. *)
Ask(t, b) ==
    /\ pc[t] = "idle" /\ InCall(t)
    /\ Charge(t, b, "allocate")
    /\ req' = [req EXCEPT ![t] = b]
    /\ UNCHANGED <<blocks, ownVars, slot, scratchVars>>

Allocate(t) ==
    /\ pc[t] = "allocate"
    /\ blocks' = [blocks EXCEPT ![req[t]] = @ + 1]
    /\ Goto(t, "idle")
    /\ UNCHANGED <<live, ownVars, req, slot, scratchVars>>

(* Mutant of AllocateThrows: the exception passes without a release. *)
AllocateThrowsOut(t) ==
    /\ pc[t] = "allocate"
    /\ Goto(t, "idle")
    /\ UNCHANGED <<heapVars, ownVars, req, slot, scratchVars>>

AllocateThrows(t) ==
    /\ pc[t] = "allocate"
    /\ Goto(t, "giveBack")
    /\ UNCHANGED <<heapVars, ownVars, req, slot, scratchVars>>

(* deallocate: the storage goes first. *)
Free(t, b) ==
    /\ pc[t] = "idle" /\ blocks[b] > 0
    /\ blocks' = [blocks EXCEPT ![b] = @ - 1]
    /\ req' = [req EXCEPT ![t] = b]
    /\ Goto(t, "giveBack")
    /\ UNCHANGED <<live, ownVars, slot, scratchVars>>

GiveBack(t) ==
    /\ pc[t] = "giveBack"
    /\ live' = live - req[t]
    /\ Goto(t, "idle")
    /\ UNCHANGED <<blocks, ownVars, req, slot, scratchVars>>

-----------------------------------------------------------------------------
(* A kernel states its need before its buffers grow; only growth over the  *)
(* high water is charged.  The mark and t_scratch_bytes are the thread's   *)
(* own: they change in the step that charges.                              *)
Covered(t, s, b) ==
    /\ b <= charged[t][s]
    /\ Goto(t, "kernel")
    /\ req' = [req EXCEPT ![t] = b]
    /\ UNCHANGED <<live, scratchVars>>

Grow(t, s, b) ==
    LET more == b - charged[t][s]
    IN  /\ more > 0
        /\ Charge(t, more, "kernel")
        /\ req' = [req EXCEPT ![t] = IF Fits(more) THEN b ELSE more]
        /\ IF Fits(more)
             THEN /\ charged' = [charged EXCEPT ![t][s] = b]
                  /\ scratch' = [scratch EXCEPT ![t] = @ + more]
             ELSE UNCHANGED <<charged, scratch>>
        /\ UNCHANGED buffers

Need(t, s, b) ==
    /\ pc[t] = "idle" /\ InCall(t)
    /\ slot' = [slot EXCEPT ![t] = s]
    /\ Covered(t, s, b) \/ Grow(t, s, b)
    /\ UNCHANGED <<blocks, ownVars>>

(* The kernel returns or throws with its buffers anywhere up to its need. *)
Kernel(t) ==
    /\ pc[t] = "kernel"
    /\ \E b \in {buffers[t][slot[t]]} \cup buffers[t][slot[t]] .. req[t] :
          buffers' = [buffers EXCEPT ![t][slot[t]] = b]
    /\ Goto(t, "idle")
    /\ UNCHANGED <<heapVars, ownVars, req, slot, charged, scratch>>

(* release_thread_scratch_slots: slot by slot, the buffers, then the charge. *)
FreeBuffers(t, s) ==
    /\ pc[t] \in {"releasing", "asked", "exiting"} /\ buffers[t][s] > 0
    /\ buffers' = [buffers EXCEPT ![t][s] = 0]
    /\ UNCHANGED <<heapVars, ownVars, pc, req, slot, charged, scratch>>

Credited(t, s) ==
    /\ charged[t][s] > 0
    /\ live' = live - charged[t][s]
    /\ charged' = [charged EXCEPT ![t][s] = 0]

Credit(t, s) ==
    /\ pc[t] \in {"releasing", "asked"} /\ buffers[t][s] = 0
    /\ Credited(t, s)
    /\ scratch' = [scratch EXCEPT ![t] = @ - charged[t][s]]
    /\ UNCHANGED <<blocks, ownVars, pc, req, slot, buffers>>

Released(t) ==
    /\ pc[t] \in {"releasing", "asked", "exiting"}
    /\ \A s \in Slots : charged[t][s] = 0 /\ buffers[t][s] = 0
    /\ Goto(t, IF pc[t] = "exiting" THEN "dead" ELSE "idle")
    /\ UNCHANGED <<heapVars, ownVars, req, slot, scratchVars>>

(* _release_thread_state_scratch, itself a module-level call. *)
AskRelease(t) ==
    /\ pc[t] = "idle" /\ depth[t] > 0
    /\ Goto(t, "asked")
    /\ UNCHANGED <<heapVars, ownVars, req, slot, scratchVars>>

(* A thread ends: the registry credits the charges and the thread_local     *)
(* buffers die, in the reverse of the order they were constructed in: the   *)
(* first slot used is credited before its buffers go, the others after.     *)
Exit(t) ==
    /\ AtRest(t)
    /\ Goto(t, "exiting")
    /\ UNCHANGED <<heapVars, ownVars, req, slot, scratchVars>>

ExitCredit(t, s) ==
    /\ pc[t] = "exiting"
    /\ Credited(t, s)
    /\ UNCHANGED <<blocks, ownVars, pc, req, slot, scratch, buffers>>

-----------------------------------------------------------------------------
(* ScratchCallScope. *)
EnterScope(t) ==
    /\ pc[t] = "idle" /\ depth[t] < MaxDepth
    /\ depth' = [depth EXCEPT ![t] = @ + 1]
    /\ UNCHANGED <<heapVars, owners, named, uses, pc, req, slot, scratchVars>>

ScopeReleases(t) == depth[t] = 1 /\ owners = 0

ExitScope(t) ==
    /\ pc[t] = "idle" /\ depth[t] > 0
    /\ depth' = [depth EXCEPT ![t] = @ - 1]
    /\ Goto(t, IF ScopeReleases(t) THEN "releasing" ELSE "idle")
    /\ UNCHANGED <<heapVars, owners, named, uses, req, slot, scratchVars>>

(* ScratchOwner: an object counts from the start of its constructor, which  *)
(* runs kernels; it is Python's when the constructor returns.               *)
Construct(t, o) ==
    /\ pc[t] = "idle" /\ o \notin Alive
    /\ owners' = owners + 1
    /\ uses' = [uses EXCEPT ![t] = @ \cup {o}]
    /\ UNCHANGED <<heapVars, named, depth, pc, req, slot, scratchVars>>

Hand(t, o) ==
    /\ pc[t] = "idle" /\ o \in uses[t] \ named
    /\ named' = named \cup {o}
    /\ UNCHANGED <<heapVars, owners, uses, depth, pc, req, slot, scratchVars>>

CallMethod(t, o) ==
    /\ pc[t] = "idle" /\ o \in named \ uses[t]
    /\ uses' = [uses EXCEPT ![t] = @ \cup {o}]
    /\ UNCHANGED <<heapVars, owners, named, depth, pc, req, slot, scratchVars>>

(* Mutant of DropReleases: the calls in flight on the thread are not looked at. *)
DropReleasesAnyway(t) == owners = 1

(* ScratchOwner::drop_, when the last reference to o went. *)
DropReleases(t) == owners = 1 /\ depth[t] = 0

Dropped(t, o) ==
    IF o \in Alive'
      THEN UNCHANGED <<owners, pc>>
      ELSE /\ owners' = owners - 1
           /\ Goto(t, IF DropReleases(t) THEN "releasing" ELSE "idle")

Return(t, o) ==
    /\ pc[t] = "idle" /\ o \in uses[t]
    /\ uses' = [uses EXCEPT ![t] = @ \ {o}]
    /\ UNCHANGED named
    /\ Dropped(t, o)
    /\ UNCHANGED <<heapVars, depth, req, slot, scratchVars>>

Forget(t, o) ==
    /\ pc[t] = "idle" /\ o \in named
    /\ named' = named \ {o}
    /\ UNCHANGED uses
    /\ Dropped(t, o)
    /\ UNCHANGED <<heapVars, depth, req, slot, scratchVars>>

-----------------------------------------------------------------------------
Storage(t) ==
    \/ \E b \in Sizes : Ask(t, b) \/ Free(t, b)
    \/ Allocate(t) \/ AllocateThrows(t) \/ GiveBack(t) \/ Refuse(t)

Scratch(t) ==
    \/ \E s \in Slots, b \in Sizes : Need(t, s, b)
    \/ \E s \in Slots : FreeBuffers(t, s) \/ Credit(t, s) \/ ExitCredit(t, s)
    \/ Kernel(t) \/ Released(t) \/ AskRelease(t) \/ Exit(t)

Calls(t) ==
    \/ EnterScope(t) \/ ExitScope(t)
    \/ \E o \in Objects : \/ Construct(t, o) \/ Hand(t, o) \/ CallMethod(t, o)
                          \/ Return(t, o) \/ Forget(t, o)

Next == \E t \in Threads : Storage(t) \/ Scratch(t) \/ Calls(t)

Spec == Init /\ [][Next]_vars

-----------------------------------------------------------------------------
TotalCharged(t) == SumFunction(charged[t])

(* Bytes granted to a thread whose block is not allocated yet, or is freed  *)
(* and not yet given back; and bytes of a request that is being refused.    *)
InHand(t) == IF pc[t] \in {"allocate", "giveBack"} THEN req[t] ELSE 0
BeingRefused(t) == IF pc[t] = "refuse" THEN req[t] ELSE 0

InBlocks == SumFunction([b \in Sizes |-> b * blocks[b]])
Committed == InBlocks + SumFunction([t \in Threads |-> InHand(t) + TotalCharged(t)])

TypeOK ==
    /\ live \in Int
    /\ blocks \in [Sizes -> Nat]
    /\ owners \in Nat
    /\ named \subseteq Objects
    /\ uses \in [Threads -> SUBSET Objects]
    /\ depth \in [Threads -> 0 .. MaxDepth]
    /\ pc \in [Threads -> {"idle", "allocate", "giveBack", "refuse", "kernel",
                           "releasing", "asked", "exiting", "dead"}]
    /\ req \in [Threads -> Nat]
    /\ slot \in [Threads -> Slots]
    /\ charged \in [Threads -> [Slots -> Nat]]
    /\ scratch \in [Threads -> Int]
    /\ buffers \in [Threads -> [Slots -> Nat]]

(* The live total is exact: what is in blocks, what is charged for scratch, *)
(* and the requests in flight, granted or being refused; every byte charged *)
(* is released once, on whatever path.  _thread_scratch_bytes() is what the *)
(* thread's slots are charged.                                              *)
LiveIsExact ==
    /\ live = Committed + SumFunction([t \in Threads |-> BeingRefused(t)])
    /\ \A t \in Threads : Runs(t) => scratch[t] = TotalCharged(t)

(* What the budget is for: however the threads interleave, blocks and the   *)
(* scratch buffers of running threads never hold more than the budget.  (A  *)
(* thread that exits may credit a slot before its buffers are gone.)        *)
StorageWithinBudget ==
    InBlocks + SumFunction([t \in Threads |-> IF Runs(t) THEN SumFunction(buffers[t]) ELSE 0])
        <= Budget

(* The scratch of a running thread is charged before it grows, stays        *)
(* charged when a kernel throws, and is freed before it is credited.        *)
ScratchIsCovered ==
    \A t \in Threads, s \in Slots : Runs(t) => buffers[t][s] <= charged[t][s]

(* The owner count is the number of objects: constructors that fail, methods *)
(* that outlive the last name of their object, drops by another thread.      *)
OwnersCounted == owners = Cardinality(Alive)

(* Scratch goes by itself only while its thread is in no call at all: never  *)
(* under a running kernel, nor between two calls of one method.              *)
ReleasesAtRest ==
    [][\A t \in Threads :
          pc[t] # "releasing" /\ pc'[t] = "releasing" => depth'[t] = 0 /\ uses'[t] = {}]_vars

-----------------------------------------------------------------------------

\* Threads and objects are interchangeable (a cfg's SYMMETRY).
Interchangeable ==
    {f : f \in Bijection(Threads, Threads)} \cup {f : f \in Bijection(Objects, Objects)}

=============================================================================
