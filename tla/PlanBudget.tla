----------------------------- MODULE PlanBudget -----------------------------
(***************************************************************************)
(* The plan payload budget of a twirl record sampler: the payload boundary *)
(* between two shots (payload_boundary_ of cpp/src/twirl_sampler.cpp), the *)
(* mark by which the shot loop skips it (twirl_sampler_runw.inc.hpp), the  *)
(* readers' record tables (twirl_sampler_impl.inc.hpp) and the Born root   *)
(* memos charged with the payloads.                                        *)
(*                                                                         *)
(* What a shot does is left open: it installs payloads, grows them,        *)
(* remembers roots and interns record contents in any number and order.    *)
(* PlanCache and BornTrie say how; here only the bytes matter, so a        *)
(* payload is the number of bytes it is charged.                           *)
(***************************************************************************)
EXTENDS Integers, Sequences, FiniteSets

CONSTANTS
    Contents,       \* what a reader asks a record table of
    TableBytes,     \* rec_table_bytes of each
    HeaderBytes,    \* bytes of an interned record content (never dropped)
    RootCap,        \* kRootMemoCap, a root being one byte here
    Budgets,        \* budgets a caller may set, 0 for unbounded
    Sizes,          \* bytes a payload may be charged at once
    MaxPayloads,    \* bound: resident payloads
    MaxBytes,       \* bound: their bytes
    MaxContents,    \* bound: interned record contents
    MaxShots        \* bound: shots of a behaviour

ASSUME ConstantsAssumption ==
    /\ TableBytes \in [Contents -> Nat \ {0}]
    /\ HeaderBytes \in Nat
    /\ RootCap \in Nat \ {0}
    /\ Budgets \subseteq Nat
    /\ Sizes \subseteq Nat
    /\ MaxPayloads \in Nat
    /\ MaxBytes \in Nat
    /\ MaxContents \in Nat
    /\ MaxShots \in Nat

VARIABLES
    fifo,           \* charged bytes of the resident payloads, in install order
    resident,       \* cache->resident_bytes()
    tables,         \* rec_memo_: contents by tick, least recently used first
    interned,       \* number of FamRoute::contents
    readerBytes,    \* reader_bytes_
    roots,          \* root_memo_bytes() of the sampler's own trie
    branchRoots,    \* the same of the tries of carried branches
    branches,       \* fam_has_branches_()
    budget,         \* plan_budget_, budget_pub_
    pub,            \* sampler_resident_pub_
    peak,           \* payload_peak_
    mark,           \* pb_res, pb_rdr, pb_mem
    pc,             \* where the sampler is; "idle": between calls
    last,           \* the boundary under way is the one that ends the call
    shots,          \* shots started
    highest,        \* history: the most payload bytes ever resident
    ended           \* history: the last call was cut, returned having run no
                    \* boundary ("open") or returned having met the budget

bytes == <<fifo, resident, tables, interned, readerBytes, roots, branchRoots>>
setup == <<branches, budget>>
loop == <<mark, last, shots>>
vars == <<fifo, resident, tables, interned, readerBytes, roots, branchRoots,
          branches, budget, pub, peak, mark, pc, last, shots, highest, ended>>

(* SIZE_MAX in pb_res: the first shot of a call runs the boundary. *)
NoMark == <<-1, 0, 0>>
Triple == <<resident, readerBytes, roots>>

AllRoots == roots + branchRoots
MaxOf(a, b) == IF a >= b THEN a ELSE b

-----------------------------------------------------------------------------
Init ==
    /\ fifo = <<>>
    /\ resident = 0
    /\ tables = <<>>
    /\ interned = 0
    /\ readerBytes = 0
    /\ roots = 0
    /\ branchRoots = 0
    /\ branches = FALSE
    /\ budget \in Budgets
    /\ pub = 0
    /\ peak = 0
    /\ mark = NoMark
    /\ pc = "idle"
    /\ last = FALSE
    /\ shots = 0
    /\ highest = 0
    /\ ended = "met"

(* set_plan_payload_budget: nothing is dropped or published yet. *)
SetBudget(b) ==
    /\ pc = "idle"
    /\ budget' = b
    /\ UNCHANGED <<bytes, branches, pub, peak, loop, pc, highest, ended>>

(* family_add_branch: a branch comes with an empty trie. *)
AddBranch ==
    /\ pc = "idle"
    /\ branches' = TRUE
    /\ UNCHANGED <<bytes, budget, pub, peak, loop, pc, highest, ended>>

(* run_w up to its loop. *)
Call ==
    /\ pc = "idle"
    /\ mark' = NoMark
    /\ last' = FALSE
    /\ ended' = "cut"
    /\ pc' = "top"
    /\ UNCHANGED <<bytes, setup, pub, peak, shots, highest>>

-----------------------------------------------------------------------------
(* Mutant of Moved: carried branches do not keep the boundary of each shot. *)
MovedWithoutBranches == mark # Triple

(* The boundary runs: what it reads has moved since the mark was taken, or  *)
(* there are branches, whose roots the mark does not hold (pb_every).       *)
Moved == mark # Triple \/ branches

(* Mutant of Publish: the peak only. *)
PublishPeak ==
    /\ pub' = pub
    /\ peak' = MaxOf(peak, resident)

(* payload_boundary_, its first lines. *)
Publish ==
    /\ pub' = resident
    /\ peak' = MaxOf(peak, resident)

(* The boundary before a shot. *)
StartBoundary ==
    /\ pc = "top"
    /\ shots < MaxShots
    /\ budget # 0
    /\ Moved
    /\ Publish
    /\ pc' = "trim"
    /\ UNCHANGED <<bytes, setup, loop, highest, ended>>

(* No budget, or the boundary would decide as it did last time. *)
SkipBoundary ==
    /\ pc = "top"
    /\ shots < MaxShots
    /\ budget = 0 \/ ~Moved
    /\ shots' = shots + 1
    /\ pc' = "shot"
    /\ UNCHANGED <<bytes, setup, pub, peak, mark, last, highest, ended>>

(* No shot is left: the last boundary of the call. *)
EndOfShots ==
    /\ pc = "top"
    /\ IF budget = 0
       THEN pc' = "idle" /\ ended' = "open" /\ UNCHANGED <<pub, peak, last>>
       ELSE pc' = "trim" /\ Publish /\ last' = TRUE /\ UNCHANGED ended
    /\ UNCHANGED <<bytes, setup, mark, shots, highest>>

(* The least recently used table goes. *)
DropOldest ==
    /\ tables' = Tail(tables)
    /\ readerBytes' = readerBytes - TableBytes[Head(tables)]
    /\ UNCHANGED <<fifo, resident, interned, roots, branchRoots>>

(* reader_trim_locked_, its loop condition with at least one table: none is *)
(* held between shots.                                                      *)
TablesOver(sampler) == budget # 0 /\ tables # <<>> /\ sampler + readerBytes > budget

TrimTable ==
    /\ pc = "trim"
    /\ TablesOver(resident)
    /\ DropOldest
    /\ UNCHANGED <<setup, pub, peak, loop, pc, highest, ended>>

TrimDone ==
    /\ pc = "trim"
    /\ ~TablesOver(resident)
    /\ pc' = "roots"
    /\ UNCHANGED <<bytes, setup, pub, peak, loop, highest, ended>>

RootsOver == AllRoots # 0 /\ resident + AllRoots > budget

(* born_memo_clear_ under pressure; within the budget nothing is evicted. *)
ClearRoots ==
    /\ pc = "roots"
    /\ IF RootsOver
       THEN roots' = 0 /\ branchRoots' = 0
       ELSE UNCHANGED <<roots, branchRoots>>
    /\ pc' = IF resident <= budget THEN "leave" ELSE "evict"
    /\ UNCHANGED <<fifo, resident, tables, interned, readerBytes, setup, pub, peak,
                   loop, highest, ended>>

(* Mutant of PayloadsOver: the readers' bytes evict payloads. *)
PayloadsOverAll == resident + readerBytes > budget /\ fifo # <<>>

PayloadsOver == resident > budget /\ fifo # <<>>

(* evict_oldest of the boundary's loop. *)
Evict ==
    /\ pc = "evict"
    /\ PayloadsOver
    /\ fifo' = Tail(fifo)
    /\ resident' = resident - Head(fifo)
    /\ UNCHANGED <<tables, interned, readerBytes, roots, branchRoots, setup, pub, peak,
                   loop, pc, highest, ended>>

(* The number of the readers is what is left. *)
Republish == pub' = resident

EvictDone ==
    /\ pc = "evict"
    /\ ~PayloadsOver
    /\ Republish
    /\ pc' = "leave"
    /\ UNCHANGED <<bytes, setup, peak, loop, highest, ended>>

(* The boundary is over: a shot starts at a new mark, or the call returns. *)
BoundaryDone ==
    /\ pc = "leave"
    /\ IF last
       THEN pc' = "idle" /\ ended' = "met" /\ UNCHANGED <<mark, shots>>
       ELSE pc' = "shot" /\ mark' = Triple /\ shots' = shots + 1 /\ UNCHANGED ended
    /\ UNCHANGED <<bytes, setup, pub, peak, last, highest>>

-----------------------------------------------------------------------------
(* A shot builds a payload, or builds an evicted one again. *)
Install(b) ==
    /\ pc = "shot"
    /\ Len(fifo) < MaxPayloads
    /\ resident + b <= MaxBytes
    /\ fifo' = Append(fifo, b)
    /\ resident' = resident + b
    /\ highest' = MaxOf(highest, resident')
    /\ UNCHANGED <<tables, interned, readerBytes, roots, branchRoots, setup, pub, peak,
                   loop, pc, ended>>

(* A record table or the nodes of a walk are charged to a payload            *)
(* (reaccount).                                                              *)
Grow(i, b) ==
    /\ pc = "shot"
    /\ resident + b <= MaxBytes
    /\ fifo' = [fifo EXCEPT ![i] = @ + b]
    /\ resident' = resident + b
    /\ highest' = MaxOf(highest, resident')
    /\ UNCHANGED <<tables, interned, readerBytes, roots, branchRoots, setup, pub, peak,
                   loop, pc, ended>>

(* A walk remembers a root; a full memo is cleared first. *)
Remembered(n) == IF n >= RootCap THEN 1 ELSE n + 1

RememberRoot ==
    /\ pc = "shot"
    /\ \/ roots' = Remembered(roots) /\ UNCHANGED branchRoots
       \/ branches /\ branchRoots' = Remembered(branchRoots) /\ UNCHANGED roots
    /\ UNCHANGED <<fifo, resident, tables, interned, readerBytes, setup, pub, peak,
                   loop, pc, highest, ended>>

(* fam_branch_payload_: a branch over the branch budget loses its trie. *)
DropBranch ==
    /\ pc = "shot"
    /\ branchRoots # 0
    /\ branchRoots' = 0
    /\ UNCHANGED <<fifo, resident, tables, interned, readerBytes, roots, setup, pub, peak,
                   loop, pc, highest, ended>>

(* content_handle_: a recording run interns a content, charged for good. *)
Intern ==
    /\ pc = "shot"
    /\ interned < MaxContents
    /\ interned' = interned + 1
    /\ readerBytes' = readerBytes + HeaderBytes
    /\ UNCHANGED <<fifo, resident, tables, roots, branchRoots, setup, pub, peak,
                   loop, pc, highest, ended>>

EndShot ==
    /\ pc = "shot"
    /\ pc' = "top"
    /\ UNCHANGED <<bytes, setup, pub, peak, loop, highest, ended>>

(* A shot throws or refuses: the call ends without its last boundary. *)
Cut ==
    /\ pc = "shot"
    /\ pc' = "idle"
    /\ UNCHANGED <<bytes, setup, pub, peak, loop, highest, ended>>

-----------------------------------------------------------------------------
(* The tables once the one at i is the most recently used. *)
UsedLast(i) ==
    [j \in 1..Len(tables) |-> IF j < i THEN tables[j]
                              ELSE IF j < Len(tables) THEN tables[j + 1] ELSE tables[i]]

(* content_table_ and rec_table_memo_ of a content whose plan has no        *)
(* resident table (a resident one is answered and changes nothing).         *)
ReadHit(c) ==
    /\ pc = "idle"
    /\ \E i \in DOMAIN tables : tables[i] = c /\ tables' = UsedLast(i)
    /\ UNCHANGED <<fifo, resident, interned, readerBytes, roots, branchRoots, setup, pub,
                   peak, loop, pc, highest, ended>>

ReadMiss(c) ==
    /\ pc = "idle"
    /\ \A i \in DOMAIN tables : tables[i] # c
    /\ tables' = Append(tables, c)
    /\ readerBytes' = readerBytes + TableBytes[c]
    /\ pc' = "read"
    /\ UNCHANGED <<fifo, resident, interned, roots, branchRoots, setup, pub, peak, loop,
                   highest, ended>>

(* The trim of an insert spares the table inserted, which is the last. *)
ReadOver == Len(tables) > 1 /\ TablesOver(pub)

ReadTrim ==
    /\ pc = "read"
    /\ ReadOver
    /\ DropOldest
    /\ UNCHANGED <<setup, pub, peak, loop, pc, highest, ended>>

ReadDone ==
    /\ pc = "read"
    /\ ~ReadOver
    /\ pc' = "idle"
    /\ UNCHANGED <<bytes, setup, pub, peak, loop, highest, ended>>

-----------------------------------------------------------------------------
Caller ==
    \/ \E b \in Budgets : SetBudget(b)
    \/ AddBranch
    \/ Call
    \/ \E c \in Contents : ReadHit(c) \/ ReadMiss(c)

Boundary ==
    \/ StartBoundary \/ SkipBoundary \/ EndOfShots
    \/ TrimTable \/ TrimDone \/ ClearRoots \/ Evict \/ EvictDone \/ BoundaryDone

Shot ==
    \/ \E b \in Sizes : Install(b)
    \/ \E i \in DOMAIN fifo, b \in Sizes : Grow(i, b)
    \/ RememberRoot \/ DropBranch \/ Intern \/ EndShot \/ Cut

Next == Caller \/ Boundary \/ Shot \/ ReadTrim \/ ReadDone

Spec == Init /\ [][Next]_vars

-----------------------------------------------------------------------------
(* Types, and the bounds of the counters. *)
TypeOK ==
    /\ fifo \in Seq(Nat)
    /\ resident \in Nat
    /\ tables \in Seq(Contents)
    /\ interned \in 0..MaxContents
    /\ readerBytes \in Nat
    /\ roots \in 0..RootCap
    /\ branchRoots \in 0..RootCap
    /\ branches \in BOOLEAN
    /\ budget \in Budgets
    /\ pub \in Nat
    /\ peak \in Nat
    /\ mark \in (Nat \cup {-1}) \X Nat \X Nat
    /\ pc \in {"idle", "top", "trim", "roots", "evict", "leave", "shot",
               "read"}
    /\ last \in BOOLEAN
    /\ shots \in 0..MaxShots
    /\ highest \in Nat
    /\ ended \in {"cut", "open", "met"}

(* A boundary that the loop skips would have done nothing: no table, root   *)
(* or payload would go, and the number published for the readers is the     *)
(* present one.                                                             *)
SkipIsExact ==
    pc = "top" /\ budget # 0 /\ ~Moved =>
        /\ ~TablesOver(resident)
        /\ ~RootsOver
        /\ ~PayloadsOver
        /\ pub = resident
        /\ peak >= resident

(* What the report calls the peak (the larger of payload_peak_ and the      *)
(* resident bytes) is the largest number of payload bytes there ever was,   *)
(* though it is looked at between shots only and not between all of them.   *)
PeakIsTrue == MaxOf(peak, resident) = highest

(* After a call that returned under a budget, and whatever budget is set    *)
(* before the read, a reader that inserts a table leaves payloads and       *)
(* tables together within the budget, or its own table only: the number it  *)
(* trims against is still the sampler's.                                    *)
InsertFits ==
    pc = "read" /\ pc' = "idle" /\ ended = "met" /\ budget # 0 =>
        Len(tables) = 1 \/ resident + readerBytes <= budget
ReaderInsertFits == [][InsertFits]_vars

(* No shot starts over the budget, and memory is given up between shots and *)
(* in order: PayloadQuota.                                                  *)
Quota == INSTANCE PayloadQuota WITH
    roots <- AllRoots,
    phase <- IF pc \in {"idle", "read"} THEN "idle"
             ELSE IF pc = "shot" THEN "shot" ELSE "between"

ImplementsQuota == Quota!QuotaSpec

=============================================================================
