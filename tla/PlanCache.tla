------------------------------ MODULE PlanCache ------------------------------
(***************************************************************************)
(* TwirlPlanCache: the store of plans of the twirl record sampler          *)
(* (cpp/include/qeccore/twirl_kernel.hpp, cpp/src/twirl_kernel_sampler.cpp *)
(* and the arena of cpp/src/twirl_sampler_fam.cpp).                        *)
(*                                                                         *)
(* A plan is a permanent HEADER, identified by its key, and an evictable   *)
(* PAYLOAD (record table, emission block, Born trie).  Headers live in two *)
(* vectors of the code (headers_ for the diagonal keys, the arena for the  *)
(* kind-2 and route-1 keys); here both are the one sequence plans, in      *)
(* creation order, a plan being its index.  A key stands for the bitset it *)
(* is in the code, and for the law and the table that are a function of it.*)
(***************************************************************************)
EXTENDS Integers, Sequences, FiniteSets, Functions

CONSTANTS
    DiagKeys,      \* keys of the diagonal plans (a-support and CZ layer)
    ArenaKeys,     \* keys of the arena plans (tag and reduced term set)
    NoTable,       \* "no record table"
    TableBytes,    \* accounted bytes of a record table and its emission block
    CompactAt,     \* consumed FIFO prefix above which it may be erased (1024)
    Files,         \* what a plan file may hold: sequences of keys, each key once
    MaxNodes,      \* bound: Born trie nodes of one plan
    MaxOps         \* bound: counted operations of a behaviour

Keys == DiagKeys \cup ArenaKeys

ASSUME ConstantsAssumption ==
    /\ DiagKeys \cap ArenaKeys = {}
    /\ NoTable \notin Keys
    /\ TableBytes \in Nat \ {0}
    /\ MaxNodes \in Nat
    /\ CompactAt \in Nat
    /\ MaxOps \in Nat
    /\ Files \subseteq Seq(Keys)
    /\ \A f \in Files : \A i, j \in DOMAIN f : f[i] = f[j] => i = j

VARIABLES
    plans,          \* Seq of CachedPlan: headers_ and the arena's recs
    fifo,           \* fifo_: plans in install order of their payloads
    head,           \* fifo_head_: entries of fifo already consumed
    parkPlan,       \* core_slot_->plan as an index of plans, 0 for nullptr
    parkLaw,        \* the key whose law and core the slot holds
    residentBytes,  \* resident_bytes_
    stats           \* the exact counters

vars == <<plans, fifo, head, parkPlan, parkLaw, residentBytes, stats>>

CachedPlan == [key : Keys, built : BOOLEAN, resident : BOOLEAN,
               table : Keys \cup {NoTable}, nodes : Nat, bytes : Nat]

(* A fresh header: key stored, nothing built. *)
NewHeader(k) == [key |-> k, built |-> FALSE, resident |-> FALSE,
                 table |-> NoTable, nodes |-> 0, bytes |-> 0]

(* plan_payload_bytes of a plan record. *)
PayloadBytes(p) == IF p.table = NoTable THEN p.nodes ELSE TableBytes + p.nodes

(* Plan p with a fresh payload whose record table is t, or none yet.        *)
WithPayload(p, t) ==
    [key |-> p.key, built |-> TRUE, resident |-> TRUE, table |-> t, nodes |-> 0,
     bytes |-> IF t = NoTable THEN 0 ELSE TableBytes]

(* Plan p once its payload is dropped: the header stays. *)
WithoutPayload(p) ==
    [key |-> p.key, built |-> p.built, resident |-> FALSE, table |-> NoTable,
     nodes |-> 0, bytes |-> 0]

(* find: the header whose stored key is k, 0 when there is none. *)
HeadersOf(k) == {i \in DOMAIN plans : plans[i].key = k}
Find(k) == IF HeadersOf(k) = {} THEN 0 ELSE CHOOSE i \in HeadersOf(k) : TRUE

Resident == {i \in DOMAIN plans : plans[i].resident}
Live == (head + 1)..Len(fifo)

-----------------------------------------------------------------------------
(* load_file_v6_ leaves keys-only headers behind, each key once. *)
LoadedHeaders(file) == [i \in DOMAIN file |-> NewHeader(file[i])]

EmptyCache(loaded) ==
    /\ plans = LoadedHeaders(loaded)
    /\ fifo = <<>>
    /\ head = 0
    /\ parkPlan = 0
    /\ parkLaw = NoTable
    /\ residentBytes = 0
    /\ stats = [hits |-> 0, misses |-> 0, rebuilds |-> 0, installs |-> 0,
                evictions |-> 0, unparked |-> 0]

(* Mutant of Installed: a payload built again is not queued again. *)
InstalledOnce(ps, i) == IF ps[i].built THEN fifo ELSE Append(fifo, i)

(* The FIFO once the payload of plan i of ps has joined it. *)
Installed(ps, i) == Append(fifo, i)

(* The core is computed into the one slot, whose plan pointer is null while *)
(* the builder runs and is set when it has returned; then the payload of    *)
(* plan i is installed at the FIFO's back, with no table yet.  law is the   *)
(* content of the normal form the caller presented.                         *)
BuildPayload(ps, i, law) ==
    /\ plans' = [ps EXCEPT ![i] = WithPayload(ps[i], NoTable)]
    /\ fifo' = Installed(ps, i)
    /\ parkPlan' = i
    /\ parkLaw' = law
    /\ UNCHANGED <<head, residentBytes>>

(* The same build when the law builder throws (an allocation failure): the  *)
(* slot is left without a plan, the header without a payload.               *)
BuildThrows(ps) ==
    /\ plans' = ps
    /\ parkPlan' = 0
    /\ parkLaw' = NoTable
    /\ UNCHANGED <<fifo, head, residentBytes>>

(* key_encodes(key, nf). *)
KeyEncodes(k, nf) == nf = k

(* get_or_build returns nullptr: the caller's key does not encode its       *)
(* normal form.  Checked when verify is set, when the header is to be       *)
(* created and when an evicted payload is to be rebuilt.                    *)
Refused(k, nf, verify) ==
    /\ ~KeyEncodes(k, nf)
    /\ verify \/ Find(k) = 0 \/ ~plans[Find(k)].resident

GetHit(k, nf, verify) ==
    /\ ~Refused(k, nf, verify)
    /\ Find(k) # 0
    /\ plans[Find(k)].resident
    /\ stats' = [stats EXCEPT !.hits = @ + 1]
    /\ UNCHANGED <<plans, fifo, head, parkPlan, parkLaw, residentBytes>>

GetMiss(k, nf, verify) ==
    /\ ~Refused(k, nf, verify)
    /\ Find(k) = 0
    /\ \/ /\ BuildPayload(Append(plans, NewHeader(k)), Len(plans) + 1, nf)
          /\ stats' = [stats EXCEPT !.misses = @ + 1, !.installs = @ + 1]
       \/ /\ BuildThrows(Append(plans, NewHeader(k)))
          /\ stats' = [stats EXCEPT !.misses = @ + 1]

GetRebuild(k, nf, verify) ==
    /\ ~Refused(k, nf, verify)
    /\ Find(k) # 0
    /\ ~plans[Find(k)].resident
    /\ \/ /\ BuildPayload(plans, Find(k), nf)
          /\ stats' = [stats EXCEPT !.rebuilds = @ + 1, !.installs = @ + 1]
       \/ /\ BuildThrows(plans)
          /\ stats' = [stats EXCEPT !.rebuilds = @ + 1]

GetOrBuild(k, nf, verify) ==
    \/ GetHit(k, nf, verify)
    \/ GetMiss(k, nf, verify)
    \/ GetRebuild(k, nf, verify)

-----------------------------------------------------------------------------
(* Mutant of Reaccounted: the old charge is not taken back. *)
ReaccountedTwice(i, q) ==
    LET b == PayloadBytes(q)
    IN  /\ plans' = [plans EXCEPT ![i] = [q EXCEPT !.bytes = b]]
        /\ residentBytes' = residentBytes + b

(* The plan of index i as q, its payload re-accounted (reaccount). *)
Reaccounted(i, q) ==
    LET b == PayloadBytes(q)
    IN  /\ plans' = [plans EXCEPT ![i] = [q EXCEPT !.bytes = b]]
        /\ residentBytes' = (residentBytes - plans[i].bytes) + b

(* Mutant of ParkedFor: any parked core is taken for the plan's own. *)
ParkedForAny(i) == parkPlan # 0

(* parked_core: the slot holds this very plan's build. *)
ParkedFor(i) == parkPlan = i

(* build_rec_table_fam_: the table is that of the slot's law when the slot  *)
(* is parked for this plan, and else of a law built again from the header's *)
(* stored key.                                                              *)
TableLaw(i) == IF ParkedFor(i) THEN parkLaw ELSE plans[i].key

(* ensure_rec_ / build_rec_cold_: the lazy record table of a resident       *)
(* diagonal plan, and with it its emission block.                           *)
EnsureRec(i) ==
    /\ plans[i].key \in DiagKeys
    /\ plans[i].resident
    /\ plans[i].table = NoTable
    /\ Reaccounted(i, [plans[i] EXCEPT !.table = TableLaw(i), !.nodes = 0])
    /\ stats' = [stats EXCEPT !.unparked = @ + IF ParkedFor(i) THEN 0 ELSE 1]
    /\ UNCHANGED <<fifo, head, parkPlan, parkLaw>>

(* A Born walk of one shot that grows the plan's trie to n nodes            *)
(* (record_rows_).                                                          *)
GrowTrie(i, n) ==
    /\ plans[i].resident
    /\ plans[i].table # NoTable
    /\ plans[i].nodes < n
    /\ Reaccounted(i, [plans[i] EXCEPT !.nodes = n])
    /\ UNCHANGED <<fifo, head, parkPlan, parkLaw, stats>>

(* The walk throws after it has allocated nodes: they are not re-accounted. *)
GrowTrieThrows(i, n) ==
    /\ plans[i].resident
    /\ plans[i].table # NoTable
    /\ plans[i].nodes < n
    /\ plans' = [plans EXCEPT ![i].nodes = n]
    /\ UNCHANGED <<fifo, head, parkPlan, parkLaw, residentBytes, stats>>

-----------------------------------------------------------------------------
(* arena_header: find or create the permanent header of an arena key. *)
ArenaHeader(k) ==
    /\ k \in ArenaKeys
    /\ Find(k) = 0
    /\ plans' = Append(plans, NewHeader(k))
    /\ UNCHANGED <<fifo, head, parkPlan, parkLaw, residentBytes, stats>>

(* build_k2 and install_arena_payload: the (G) table is built with the      *)
(* payload, which joins the same FIFO; a header of the diagonal pool or a   *)
(* resident payload is refused (engine bug).                                *)
InstallArena(i) ==
    /\ plans[i].key \in ArenaKeys
    /\ ~plans[i].resident
    /\ plans' = [plans EXCEPT ![i] = WithPayload(plans[i], plans[i].key)]
    /\ residentBytes' = residentBytes + TableBytes
    /\ fifo' = Installed(plans, i)
    /\ stats' = [stats EXCEPT !.installs = @ + 1]
    /\ UNCHANGED <<head, parkPlan, parkLaw>>

-----------------------------------------------------------------------------
(* The FIFO position of the payload that was installed longest ago. *)
Oldest == CHOOSE j \in Live : /\ plans[fifo[j]].resident
                              /\ \A l \in Live : plans[fifo[l]].resident => j <= l

(* The first n entries are consumed; the prefix is erased when it is more   *)
(* than half of the FIFO and longer than CompactAt.                         *)
Consume(n) ==
    IF n * 2 > Len(fifo) /\ n > CompactAt
    THEN fifo' = SubSeq(fifo, n + 1, Len(fifo)) /\ head' = 0
    ELSE fifo' = fifo /\ head' = n

(* The parked core dies with the payload of its plan. *)
Unpark(i) == parkPlan' = IF parkPlan = i THEN 0 ELSE parkPlan

(* evict_oldest: skip the entries that are no longer resident and drop the  *)
(* first payload that is.                                                   *)
EvictOldest ==
    /\ \E j \in Live : plans[fifo[j]].resident
    /\ LET i == fifo[Oldest]
       IN  /\ plans' = [plans EXCEPT ![i] = WithoutPayload(plans[i])]
           /\ residentBytes' = residentBytes - plans[i].bytes
           /\ Unpark(i)
    /\ Consume(Oldest)
    /\ stats' = [stats EXCEPT !.evictions = @ + 1]
    /\ UNCHANGED parkLaw

(* Nothing is resident: the loop runs off the FIFO's end, false is returned. *)
EvictNothing ==
    /\ \A j \in Live : ~plans[fifo[j]].resident
    /\ head' = Len(fifo)
    /\ UNCHANGED <<plans, fifo, parkPlan, parkLaw, residentBytes, stats>>

-----------------------------------------------------------------------------
(* Any caller: the run loop, the readers and the test entries call these in *)
(* every order the code's own checks allow.                                 *)
Init == \E f \in Files : EmptyCache(f)

Next ==
    /\ stats.hits + stats.misses + stats.rebuilds + stats.installs
                  + stats.evictions < MaxOps
    /\ \/ \E k, nf \in DiagKeys, verify \in BOOLEAN : GetOrBuild(k, nf, verify)
       \/ \E i \in DOMAIN plans :
             \/ EnsureRec(i)
             \/ InstallArena(i)
             \/ \E n \in 1..MaxNodes : GrowTrie(i, n) \/ GrowTrieThrows(i, n)
       \/ \E k \in ArenaKeys : ArenaHeader(k)
       \/ EvictOldest
       \/ EvictNothing

Spec == Init /\ [][Next]_vars

-----------------------------------------------------------------------------
(* Types: header records, FIFO entries that are plans, a FIFO head inside   *)
(* the FIFO.                                                                *)
Stats == [{"hits", "misses", "rebuilds", "installs", "evictions", "unparked"} -> Nat]

TypeOK ==
    /\ plans \in Seq(CachedPlan)
    /\ fifo \in Seq(DOMAIN plans)
    /\ head \in 0..Len(fifo)
    /\ parkPlan \in {0} \cup DOMAIN plans
    /\ parkLaw \in Keys \cup {NoTable}
    /\ residentBytes \in Int
    /\ stats \in Stats

(* A header is content identity: one key never has two headers, so ids,     *)
(* interned pointers and the flat index agree.                              *)
KeyUnique == \A i, j \in DOMAIN plans : plans[i].key = plans[j].key => i = j

(* The live part of the FIFO lists the resident payloads, each exactly      *)
(* once: eviction can reach every payload and never meets one twice.        *)
FifoListsResident ==
    /\ \A j \in Live : plans[fifo[j]].resident
    /\ \A i \in Resident : \E j \in Live : fifo[j] = i
    /\ \A j, l \in Live : fifo[j] = fifo[l] => j = l

(* The parked core belongs to a payload that is resident now, and is the    *)
(* law of that plan's own key: no table is ever built from a stale core.    *)
ParkIsCurrent ==
    parkPlan # 0 => /\ plans[parkPlan].resident
                    /\ parkLaw = plans[parkPlan].key

(* Whatever was evicted, rebuilt or parked in between, a resident table is  *)
(* the table of its header's key, and only resident payloads hold one.      *)
TableMatchesKey ==
    \A i \in DOMAIN plans :
        plans[i].table # NoTable => plans[i].resident /\ plans[i].table = plans[i].key

(* resident_bytes() is the sum over the resident plans of the bytes each    *)
(* was charged; an evicted plan is charged nothing.                         *)
SumBytes == SumFunction([i \in DOMAIN plans |-> plans[i].bytes])

BytesAccounted ==
    /\ residentBytes = SumBytes
    /\ \A i \in DOMAIN plans :
          /\ ~plans[i].resident => PayloadBytes(plans[i]) = 0 /\ plans[i].bytes = 0
          /\ plans[i].bytes <= PayloadBytes(plans[i])

(* The evicted payload is the one installed longest ago: the plans that     *)
(* stay resident keep their FIFO order.                                     *)
LiveOrder == [n \in 1..(Len(fifo) - head) |-> fifo[head + n]]
FirstOut ==
    stats'.evictions # stats.evictions => LiveOrder' = Tail(LiveOrder)
EvictsFirstIn == [][FirstOut]_vars

=============================================================================
