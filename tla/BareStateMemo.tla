---------------------------- MODULE BareStateMemo ----------------------------
(***************************************************************************)
(* The process-wide memo of bare states (cpp/src/bare_state_memo.cpp),     *)
(* called by several threads: the bindings release the interpreter lock    *)
(* around every compile and export.  One mutex guards the list, the index  *)
(* and the counters; the build, the restore and the capture of a state run *)
(* outside it.  Each locked section is one step.                           *)
(*                                                                         *)
(* A key stands for the gate list it serialises and for the state built    *)
(* from it, which is a function of it.                                     *)
(***************************************************************************)
EXTENDS Integers, Sequences, SequencesExt, FiniteSets

CONSTANTS
    Threads,
    Keys,
    Rejects,      \* keys whose build ends in a rejection: never stored
    EntryBytes,   \* bytes of an entry, key and value
    NoKey, Thrown,
    Modes,        \* values of XTIM_BARE_MEMO: "off", "on", "verify"
    EnvCaps,      \* the caps of the environment
    CapChoices,   \* entry count and byte caps a caller may set later
    EntryCaps,    \* per-entry byte caps a caller may set later
    MaxCalls,     \* bound: calls of build_bare_state_framed
    MaxSets,      \* bound: calls of set_caps, set_entry_cap and clear
    MaxFails      \* bound: allocations that fail inside store

ASSUME ConstantsAssumption ==
    /\ Rejects \subseteq Keys
    /\ NoKey \notin Keys /\ Thrown \notin Keys /\ NoKey # Thrown
    /\ EntryBytes \in [Keys -> Nat \ {0}]
    /\ Modes \subseteq {"off", "on", "verify"}
    /\ EnvCaps \in [entries : Nat, bytes : Nat, entry : Nat]
    /\ CapChoices \subseteq Nat \X Nat
    /\ EntryCaps \subseteq Nat
    /\ MaxCalls \in Nat /\ MaxSets \in Nat /\ MaxFails \in Nat

VARIABLES
    mode,     \* memo_config(): read once, fixed for the process
    lru,      \* the list of entries, the most recently used first
    index,    \* key -> id of the list node it points to
    bytes,    \* bytes
    caps,     \* cap_entries, cap_bytes, cap_entry_bytes
    pc,       \* where thread t is in build_bare_state_framed
    want,     \* the key of its call
    held,     \* the captured state it holds a reference to
    answer,   \* what its last call returned
    nodes,    \* list nodes ever made: the id of the next one
    lastUse,  \* history: the moment a key was last served or stored
    clock,    \* history: the number of those moments
    calls, sets, fails   \* the bounded counts

memoVars == <<mode, lru, index, bytes, caps, nodes, lastUse, clock>>
callVars == <<pc, want, held, answer>>
vars == <<memoVars, callVars, calls, sets, fails>>

Entry == [id : Nat, key : Keys, val : Keys]

Init ==
    /\ mode \in Modes
    /\ lru = <<>>
    /\ index = <<>>
    /\ bytes = 0
    /\ caps = EnvCaps
    /\ pc = [t \in Threads |-> "idle"]
    /\ want = [t \in Threads |-> NoKey]
    /\ held = [t \in Threads |-> NoKey]
    /\ answer = [t \in Threads |-> NoKey]
    /\ nodes = 0
    /\ lastUse = [k \in Keys |-> 0]
    /\ clock = 0
    /\ calls = 0 /\ sets = 0 /\ fails = 0

-----------------------------------------------------------------------------
(* The list and its index *)

Position(id) == CHOOSE i \in DOMAIN lru : lru[i].id = id

(* Mutant of Touched: a hit does not move the entry to the front. *)
TouchedNot(k) == lru

(* The list after a hit on k: its node is spliced to the front. *)
Touched(k) ==
    LET i == Position(index[k])
    IN  <<lru[i]>> \o RemoveAt(lru, i)

(* Mutant of Served: the front of the list is read, not the node found. *)
ServedFront(k) == lru[1].val

(* What a hit on k hands out. *)
Served(k) == lru[Position(index[k])].val

Used(k) ==
    /\ clock' = clock + 1
    /\ lastUse' = [lastUse EXCEPT ![k] = clock + 1]

Held(list) == SumFunction([i \in DOMAIN list |-> EntryBytes[list[i].val]])

(* The bytes of the entries behind the first n. *)
Freed(n) == Held(SubSeq(lru, n + 1, Len(lru)))

(* Entries are dropped from the back one by one until at most entries of    *)
(* them and total bytes are left, or none: n of them are left.              *)
Fits(n, entries, total) == n <= entries /\ bytes - Freed(n) <= total

StopsAt(n, entries, total) ==
    /\ n = 0 \/ Fits(n, entries, total)
    /\ \A m \in (n + 1)..Len(lru) : ~Fits(m, entries, total)

(* Mutant of Indexed: the index forgets nothing. *)
IndexedAll(list, n) == index

(* The index after the entries of list behind the first n are dropped: each *)
(* drop erases its key, whichever node the key points to.                   *)
Indexed(list, n) ==
    LET gone == {list[i].key : i \in (n + 1)..Len(list)}
    IN  [k \in DOMAIN index \ gone |-> index[k]]

-----------------------------------------------------------------------------
(* build_bare_state_framed *)

Return(t, result) ==
    /\ pc' = [pc EXCEPT ![t] = "idle"]
    /\ want' = [want EXCEPT ![t] = NoKey]
    /\ held' = [held EXCEPT ![t] = NoKey]
    /\ answer' = [answer EXCEPT ![t] = result]

GoTo(t, label) ==
    /\ pc' = [pc EXCEPT ![t] = label]
    /\ UNCHANGED <<want, held, answer>>

(* Entry; a disabled memo is bypassed. *)
Call(t, k) ==
    /\ pc[t] = "idle"
    /\ calls < MaxCalls
    /\ calls' = calls + 1
    /\ pc' = [pc EXCEPT ![t] = IF mode = "off" THEN "bypass" ELSE "lookup"]
    /\ want' = [want EXCEPT ![t] = k]
    /\ UNCHANGED <<memoVars, held, answer, sets, fails>>

Bypass(t) ==
    /\ pc[t] = "bypass"
    /\ \E result \in {want[t], Thrown} : Return(t, result)
    /\ UNCHANGED <<memoVars, calls, sets, fails>>

Hit(t) ==
    /\ pc[t] = "lookup"
    /\ want[t] \in DOMAIN index
    /\ lru' = Touched(want[t])
    /\ Used(want[t])
    /\ held' = [held EXCEPT ![t] = Served(want[t])]
    /\ pc' = [pc EXCEPT ![t] = "restore"]
    /\ UNCHANGED <<mode, index, bytes, caps, nodes, want, answer, calls, sets, fails>>

Miss(t) ==
    /\ pc[t] = "lookup"
    /\ want[t] \notin DOMAIN index
    /\ GoTo(t, "build")
    /\ UNCHANGED <<memoVars, calls, sets, fails>>

(* restore() of the held entry, which lives as long as it is held; it may   *)
(* be refused memory.  Under verify a fresh build follows and must agree.   *)
Restore(t) ==
    /\ pc[t] = "restore"
    /\ \/ Return(t, Thrown)
       \/ mode = "on" /\ Return(t, held[t])
       \/ mode = "verify" /\ GoTo(t, "verify")
    /\ UNCHANGED <<memoVars, calls, sets, fails>>

(* The fresh build of the verify mode throws, or its state is compared      *)
(* with the held one; a difference is an engine error, here NoKey.          *)
VerifyHit(t) ==
    /\ pc[t] = "verify"
    /\ \/ Return(t, Thrown)
       \/ Return(t, IF held[t] = want[t] THEN held[t] ELSE NoKey)
    /\ UNCHANGED <<memoVars, calls, sets, fails>>

(* The uncached build: a refusal throws, a rejected circuit is not stored.  *)
Build(t) ==
    /\ pc[t] = "build"
    /\ \/ Return(t, Thrown)
       \/ want[t] \in Rejects /\ Return(t, want[t])
       \/ /\ want[t] \notin Rejects
          /\ held' = [held EXCEPT ![t] = want[t]]
          /\ pc' = [pc EXCEPT ![t] = "admit"]
          /\ UNCHANGED <<want, answer>>
    /\ UNCHANGED <<memoVars, calls, sets, fails>>

OverCaps(k) ==
    EntryBytes[k] > caps.entry \/ EntryBytes[k] > caps.bytes \/ caps.entries = 0

(* Asked before the copy; the copy (Capture) may be refused memory. *)
Admit(t) ==
    /\ pc[t] = "admit"
    /\ IF OverCaps(want[t]) THEN Return(t, held[t]) ELSE GoTo(t, "capture")
    /\ UNCHANGED <<memoVars, calls, sets, fails>>

Capture(t) ==
    /\ pc[t] = "capture"
    /\ Return(t, Thrown) \/ GoTo(t, "store")
    /\ UNCHANGED <<memoVars, calls, sets, fails>>

(* Another thread stored the key while this one was building. *)
Raced(k) == k \in DOMAIN index

StoreSkips(t) ==
    /\ pc[t] = "store"
    /\ Raced(want[t]) \/ OverCaps(want[t])
    /\ Return(t, held[t])
    /\ UNCHANGED <<memoVars, calls, sets, fails>>

(* Mutant of MakesRoom: no slot is freed for the entry to come. *)
MakesNoSlot(k, n) == StopsAt(n, caps.entries, caps.bytes - EntryBytes[k])

(* Room for k is made from the back: n entries stay.  Then the bytes of k   *)
(* are charged, its node is put in front, and the node is indexed.          *)
MakesRoom(k, n) == StopsAt(n, caps.entries - 1, caps.bytes - EntryBytes[k])
Charged(k, n) == (bytes - Freed(n)) + EntryBytes[k]
InFront(k, n, v) == <<[id |-> nodes, key |-> k, val |-> v]>> \o SubSeq(lru, 1, n)

(* index[key] = lru.begin() *)
PointedAt(ix, k) ==
    [x \in DOMAIN ix \cup {k} |-> IF x = k THEN nodes ELSE ix[x]]

StoresNow(t, n) ==
    /\ pc[t] = "store"
    /\ ~Raced(want[t]) /\ ~OverCaps(want[t])
    /\ MakesRoom(want[t], n)
    /\ bytes' = Charged(want[t], n)
    /\ UNCHANGED <<mode, caps, calls, sets>>

Store(t) ==
    \E n \in 0..Len(lru) :
        /\ StoresNow(t, n)
        /\ lru' = InFront(want[t], n, held[t])
        /\ index' = PointedAt(Indexed(lru, n), want[t])
        /\ nodes' = nodes + 1
        /\ Used(want[t])
        /\ Return(t, held[t])
        /\ UNCHANGED fails

(* The list node cannot be allocated: room was made and the bytes were      *)
(* charged already.                                                         *)
StoreNoNode(t) ==
    \E n \in 0..Len(lru) :
        /\ StoresNow(t, n)
        /\ fails < MaxFails
        /\ fails' = fails + 1
        /\ lru' = SubSeq(lru, 1, n)
        /\ index' = Indexed(lru, n)
        /\ Return(t, Thrown)
        /\ UNCHANGED <<nodes, lastUse, clock>>

(* The index node cannot be allocated: the list has an entry no key leads   *)
(* to.                                                                      *)
StoreNoIndex(t) ==
    \E n \in 0..Len(lru) :
        /\ StoresNow(t, n)
        /\ fails < MaxFails
        /\ fails' = fails + 1
        /\ lru' = InFront(want[t], n, held[t])
        /\ index' = Indexed(lru, n)
        /\ nodes' = nodes + 1
        /\ Used(want[t])
        /\ Return(t, Thrown)

-----------------------------------------------------------------------------
(* bare_state_memo_set_caps: what is held is bounded at once. *)
SetCaps(entries, total) ==
    /\ sets < MaxSets
    /\ sets' = sets + 1
    /\ caps' = [caps EXCEPT !.entries = entries, !.bytes = total]
    /\ \E n \in 0..Len(lru) :
          /\ StopsAt(n, entries, total)
          /\ lru' = SubSeq(lru, 1, n)
          /\ bytes' = bytes - Freed(n)
          /\ index' = Indexed(lru, n)
    /\ UNCHANGED <<mode, nodes, lastUse, clock, callVars, calls, fails>>

(* bare_state_memo_set_entry_cap: entries held are not checked again. *)
SetEntryCap(c) ==
    /\ sets < MaxSets
    /\ sets' = sets + 1
    /\ caps' = [caps EXCEPT !.entry = c]
    /\ UNCHANGED <<mode, lru, index, bytes, nodes, lastUse, clock, callVars, calls, fails>>

Clear ==
    /\ sets < MaxSets
    /\ sets' = sets + 1
    /\ lru' = <<>>
    /\ index' = <<>>
    /\ bytes' = 0
    /\ UNCHANGED <<mode, caps, nodes, lastUse, clock, callVars, calls, fails>>

-----------------------------------------------------------------------------
Run(t) ==
    \/ Bypass(t) \/ Hit(t) \/ Miss(t) \/ Restore(t) \/ VerifyHit(t)
    \/ Build(t) \/ Admit(t) \/ Capture(t)
    \/ StoreSkips(t) \/ Store(t) \/ StoreNoNode(t) \/ StoreNoIndex(t)

Next ==
    \/ \E t \in Threads : Run(t) \/ \E k \in Keys : Call(t, k)
    \/ \E c \in CapChoices : SetCaps(c[1], c[2])
    \/ \E c \in EntryCaps : SetEntryCap(c)
    \/ Clear

Spec == Init /\ [][Next]_vars /\ \A t \in Threads : WF_vars(Run(t))

-----------------------------------------------------------------------------
(* The index never dangles, also after a store that was cut by a failed     *)
(* allocation has left an entry no key leads to: what it points to is in    *)
(* the list, under that key, with that key's state.                         *)
IndexIsLive ==
    \A k \in DOMAIN index :
        \E i \in DOMAIN lru : lru[i].id = index[k] /\ lru[i].key = k /\ lru[i].val = k

(* The memo never holds more than its caps, whatever the order of stores    *)
(* and cap changes; the byte count never falls below what is held, and is   *)
(* exact as long as no allocation inside store has failed.                  *)
CapsHold ==
    /\ Len(lru) <= caps.entries
    /\ Held(lru) <= caps.bytes
    /\ Held(lru) <= bytes
    /\ fails = 0 => bytes = Held(lru)

(* The list is in order of use: what is dropped from the back was used less *)
(* recently than all that stays.                                            *)
InOrderOfUse ==
    fails = 0 => \A i, j \in DOMAIN lru : i < j => lastUse[lru[i].key] > lastUse[lru[j].key]

(* Every caller sees a pure function: its own key's state, or an exception; *)
(* and every call returns.                                                  *)
Pure == INSTANCE PureBuild
ImplementsPure == Pure!PureSpec

=============================================================================
