-------------------------- MODULE FamilySessions ---------------------------
(***************************************************************************)
(* The Python-held twirl sampler of an ideal-state consumer                *)
(* (cpp/bindings/family_sampler.hpp): its busy flag, its branch tables,    *)
(* the per-E consumers of the branches whose E_min is not empty, and the   *)
(* branch payloads of the engine (cpp/src/twirl_sampler_fam.cpp).          *)
(*                                                                         *)
(* The interpreter lock is released only while an engine runs shots and    *)
(* while a sampler is constructed: what a call does between two of these   *)
(* is one step.  Engine 0 is the sampler's own, engine k the k-th per-E    *)
(* consumer's.  The producer of the branches is at rest while a consumer   *)
(* reads it; no flag of the code makes sure of that.                       *)
(***************************************************************************)
EXTENDS Naturals, FiniteSets, SequencesExt, FiniteSetsExt, Functions

CONSTANTS
    Threads,
    Handles,        \* the producer's branch handles
    Ideal,          \* branch 0
    Emin,           \* handle -> its rows E_min
    NoRows,         \* the empty E_min
    Bad,            \* the branches whose rows fail the mask
    Bytes,          \* handle -> the bytes of its payload
    Budgets,        \* branch budgets
    Unbounded,      \* SIZE_MAX
    Mixed,          \* whether recorded calls may mix branches of both kinds
    Asks,           \* bound: what input_branch may hold; 0 in every shot without one
    MaxCalls,       \* bound: calls that are taken
    NoCall, NoThread

ASSUME ConstantsAssumption ==
    /\ DOMAIN Emin = Handles /\ IsFiniteSet(Range(Emin))
    /\ Bytes \in [Handles -> Nat]
    /\ Budgets \subseteq Nat /\ Unbounded \in Nat
    /\ Asks \subseteq Seq(Nat)
    /\ MaxCalls \in Nat
    /\ NoThread \notin Threads

Engines == 0 .. Cardinality(Range(Emin) \ {NoRows})

VARIABLES
    flag,           \* busy_: the thread that holds it
    valid,          \* budget_invalid_ is empty
    recording,      \* recording_, and the engine's record sink
    engIb,          \* eng_ib_
    clsIb,          \* cls_ib_
    table,          \* btab_: the registered handles, by number
    beng,           \* beng_: number -> its number in its engine
    bclass,         \* bclass_: number -> its per-E consumer, or 0
    eclass,         \* eclass_: the E_min of each per-E consumer
    branches,       \* engine -> the handles of FamRoute::branches
    payload,        \* engine -> the resident branches: number -> whose amplitudes
    used,           \* engine -> branches in the order of last_use
    budget,         \* engine -> branch_budget
    branchIds,      \* engine -> FamRoute::branch_ids, <<>> for none
    sinkOf,         \* engine -> the thread whose rows it fills
    pc, call,       \* where a thread is, in which call
    run,            \* thread -> the locals of sample_held_ and run_core_
    answer,         \* thread -> what its last call gave it
    calls

tableVars == <<table, beng, bclass, eclass>>
payloadVars == <<branches, payload, used, budget>>
engineVars == <<branchIds, sinkOf>>
objectVars == <<flag, valid, recording, engIb, clsIb>>
callVars == <<pc, call, run, answer, calls>>
vars == <<objectVars, tableVars, payloadVars, engineVars, callVars>>

NoRun == [engine |-> 0, cls |-> <<>>, shots |-> <<>>, pos |-> 0, sink |-> <<>>, out |-> <<>>]

Init ==
    /\ flag = NoThread /\ valid = TRUE /\ recording = FALSE /\ engIb = <<>> /\ clsIb = <<>>
    /\ table = <<>> /\ beng = <<>> /\ bclass = <<>> /\ eclass = <<>>
    /\ branches = [k \in Engines |-> <<>>]
    /\ payload = [k \in Engines |-> <<>>]
    /\ used = [k \in Engines |-> <<>>]
    /\ budget = [k \in Engines |-> Unbounded]
    /\ branchIds = [k \in Engines |-> <<>>]
    /\ sinkOf = [k \in Engines |-> NoThread]
    /\ pc = [t \in Threads |-> "idle"]
    /\ call = [t \in Threads |-> NoCall]
    /\ run = [t \in Threads |-> NoRun]
    /\ answer = [t \in Threads |-> [is |-> "nothing"]]
    /\ calls = 0

-----------------------------------------------------------------------------
RunCalls == [kind : {"run"}, ib : Asks, masked : BOOLEAN, rec : BOOLEAN]
AddCalls == [kind : {"add"}, handle : Handles]
Calls == RunCalls \cup AddCalls

ASSUME NoCallAssumption == NoCall \notin Calls

(* The sampler keeps its promise to its callers: numbers in the order of    *)
(* registration, every row of the branch its shot asked for and relative to *)
(* this sampler's reference whichever engine ran it, the mask exact, one    *)
(* call at a time, a refused one without effect, every call answered.       *)
Promise == INSTANCE BranchCalls WITH ids <- table, asked <- call, told <- answer
Implements == Promise!Spec

(* Mutant of Free: BusyHold never refuses. *)
FreeAlways == TRUE

(* BusyHold: the flag is tried once; nothing waits. *)
Free == flag = NoThread

Take(t, c, at) ==
    /\ pc[t] = "idle" /\ Free /\ calls < MaxCalls
    /\ flag' = t
    /\ pc' = [pc EXCEPT ![t] = at]
    /\ call' = [call EXCEPT ![t] = c]
    /\ calls' = calls + 1

(* A scope ends, by return or by exception. *)
Leave(t, a) ==
    /\ flag' = NoThread
    /\ recording' = FALSE
    /\ pc' = [pc EXCEPT ![t] = "idle"]
    /\ call' = [call EXCEPT ![t] = NoCall]
    /\ run' = [run EXCEPT ![t] = NoRun]
    /\ answer' = [answer EXCEPT ![t] = a]
    /\ UNCHANGED calls

Failed == [is |-> "failed"]

TurnAway(t) ==
    /\ pc[t] = "idle" /\ ~Free
    /\ answer' = [answer EXCEPT ![t] = [is |-> "busy"]]
    /\ UNCHANGED <<objectVars, tableVars, payloadVars, engineVars, pc, call, run, calls>>

-----------------------------------------------------------------------------
(* What bclass_ and beng_ say of the branches a call asks for. *)
Classes(ib) == [i \in DOMAIN ib |-> IF ib[i] = 0 THEN 0 ELSE bclass[ib[i]]]
InEngine(ib) == [i \in DOMAIN ib |-> IF ib[i] = 0 THEN 0 ELSE beng[ib[i]]]
Known(ib) == \A i \in DOMAIN ib : ib[i] <= Len(table)

AnyClass(cls) == \E i \in DOMAIN cls : cls[i] # 0
AnyOwn(ib) == \E i \in DOMAIN ib : ib[i] # 0 /\ bclass[ib[i]] = 0

(* The arrays for the sampler's own engine and for the per-E consumers.     *)
OwnIds(ib) == [i \in DOMAIN ib |-> IF Classes(ib)[i] = 0 THEN InEngine(ib)[i] ELSE 0]
ClassIds(ib) == [i \in DOMAIN ib |-> IF Classes(ib)[i] = 0 THEN 0 ELSE InEngine(ib)[i]]

(* sample, sample_ps, sample_records_core_. *)
AskRun(t) == \E c \in RunCalls :
    /\ valid
    /\ Mixed \/ ~(c.rec /\ Known(c.ib) /\ AnyOwn(c.ib) /\ AnyClass(Classes(c.ib)))
    /\ Take(t, c, "branches")
    /\ recording' = c.rec
    /\ UNCHANGED <<valid, engIb, clsIb, tableVars, payloadVars, engineVars, run, answer>>

(* Shots by the engine they run on: the sampler's own runs all of them. *)
ShotsOf(cls, k) == Promise!Ascending({i \in DOMAIN cls : k = 0 \/ cls[i] = k})

(* run_core_ of engine k, up to its first shot. *)
Enter(t, k, cls, out) ==
    /\ run' = [run EXCEPT ![t] = [engine |-> k, cls |-> cls, shots |-> ShotsOf(cls, k),
                                  pos |-> 0, sink |-> <<>>, out |-> out]]
    /\ pc' = [pc EXCEPT ![t] = "run"]
    /\ UNCHANGED <<flag, recording, call, answer, calls>>

RefuseAsk(t) == Leave(t, Failed) /\ UNCHANGED <<clsIb, engineVars>>

(* sample_held_ up to its first engine.  eng_ib_ is assigned before a       *)
(* recorded call with a per-E branch is refused, and what takes it back is  *)
(* constructed after that.                                                  *)
Branches(t) ==
    LET ib == call[t].ib
        cls == Classes(ib)
    IN  /\ pc[t] = "branches"
        /\ IF ~Known(ib) THEN RefuseAsk(t) /\ UNCHANGED engIb
           ELSE /\ engIb' = IF AnyOwn(ib) THEN OwnIds(ib) ELSE engIb
                /\ IF AnyClass(cls) /\ recording THEN RefuseAsk(t)
                   ELSE /\ clsIb' = IF AnyClass(cls) THEN ClassIds(ib) ELSE clsIb
                        /\ branchIds' = [branchIds EXCEPT ![0] = engIb']
                        /\ sinkOf' = [sinkOf EXCEPT ![0] = t]
                        /\ Enter(t, 0, cls, <<>>)
        /\ UNCHANGED <<valid, tableVars, payloadVars>>

-----------------------------------------------------------------------------
(* The payloads of engine k while branch n runs (fam_branch_payload_).      *)
BytesIn(k) == [m \in DOMAIN branches[k] |-> Bytes[branches[k][m]]]
Total(k, S) == SumFunctionOnSet(BytesIn(k), S)
NowUsed(k, n) == Append(Promise!Pick(used[k], {i \in DOMAIN used[k] : used[k][i] # n}), n)

(* The others, least recently used first, and before them those never used. *)
Victims(k, n) ==
    LET never == {m \in DOMAIN payload[k] : m # n /\ ~Contains(used[k], m)}
        once == {i \in DOMAIN used[k] : used[k][i] # n /\ used[k][i] \in DOMAIN payload[k]}
    IN  Promise!Ascending(never) \o Promise!Pick(used[k], once)

(* Mutant of Kept: one eviction, not as many as it takes. *)
KeptAfterOne(k, n) ==
    LET v == Victims(k, n)
    IN  IF Total(k, {n} \cup Range(v)) <= budget[k] \/ v = <<>> THEN {n} \cup Range(v)
        ELSE {n} \cup Range(Tail(v))

Kept(k, n) ==
    LET v == Victims(k, n)
        left(c) == {n} \cup Range(SubSeq(v, c + 1, Len(v)))
        cut == Min({c \in 0 .. Len(v) : c = Len(v) \/ Total(k, left(c)) <= budget[k]})
    IN  left(cut)

(* A payload that is not there is supplied by the producer. *)
WithPayload(held, n, h) ==
    [m \in DOMAIN held \cup {n} |-> IF m \in DOMAIN held THEN held[m] ELSE h]
Supplied(k, n) == WithPayload(payload[k], n, branches[k][n])

Touch(k, n) ==
    IF n = 0 \/ (n \in DOMAIN payload[k] /\ budget[k] = Unbounded)
    THEN UNCHANGED <<payload, used>>
    ELSE /\ used' = [used EXCEPT ![k] = NowUsed(k, n)]
         /\ payload' = [payload EXCEPT ![k] = Restrict(Supplied(k, n), Kept(k, n))]

(* The branch a shot runs as (fam_frame_take_): the array is read at the    *)
(* shot's index, past its end where it is a shorter call's.                 *)
IdsAt(k, i) ==
    CASE branchIds[k] = <<>> -> {0}
      [] i \in DOMAIN branchIds[k] -> {branchIds[k][i]}
      [] OTHER -> 0 .. Len(branches[k])

EngineMasks(t) == call[t].masked /\ ~AnyClass(run[t].cls)

(* One shot.  Its row goes to the engine's sink; with a mask, and nothing   *)
(* to scatter back, the engine drops the rows that fail it.                 *)
RunShot(t) ==
    LET k == run[t].engine
        i == run[t].pos + 1
        filled == sinkOf[k]
    IN  /\ pc[t] = "run" /\ i <= Len(run[t].shots)
        /\ \E n \in IdsAt(k, i) :
              /\ n <= Len(branches[k])
              /\ Touch(k, n)
              /\ LET branch == IF n = 0 THEN Ideal ELSE Supplied(k, n)[n]
                     row == [branch |-> branch, reference |-> k]
                     moved == [run EXCEPT ![t].pos = i]
                 IN  run' = IF filled = NoThread \/ (EngineMasks(t) /\ branch \in Bad) THEN moved
                            ELSE [moved EXCEPT ![filled].sink = Append(@, row)]
        /\ UNCHANGED <<objectVars, tableVars, engineVars, branches, budget, pc, call, answer, calls>>

(* The class's dmask and omask: its rows, relative to this sampler's own    *)
(* reference.                                                               *)
Relative(row) == [row EXCEPT !.reference = 0]

Scatter(r) ==
    IF r.engine = 0 THEN r.sink
    ELSE [i \in DOMAIN r.out |->
            IF Contains(r.shots, i) THEN Relative(r.sink[SelectInSeq(r.shots, LAMBDA x : x = i)])
            ELSE r.out[i]]

(* A run ends; the next per-E consumer with shots of this call runs, with   *)
(* the ids that cls_ib_ holds for them.                                     *)
EndRun(t) ==
    LET k == run[t].engine
        cls == run[t].cls
        next == {j \in (k + 1) .. Len(eclass) : ShotsOf(cls, j) # <<>>}
    IN  /\ pc[t] = "run" /\ run[t].pos = Len(run[t].shots)
        /\ IF next = {}
           THEN /\ run' = [run EXCEPT ![t].out = Scatter(run[t])]
                /\ pc' = [pc EXCEPT ![t] = "tail"]
                /\ branchIds' = [branchIds EXCEPT ![k] = <<>>]
                /\ sinkOf' = [sinkOf EXCEPT ![k] = NoThread]
                /\ UNCHANGED <<flag, recording, call, answer, calls>>
           ELSE LET j == Min(next)
                    ids == [x \in DOMAIN ShotsOf(cls, j) |-> clsIb[ShotsOf(cls, j)[x]]]
                IN  /\ Enter(t, j, cls, Scatter(run[t]))
                    /\ branchIds' = [branchIds EXCEPT ![k] = <<>>, ![j] = ids]
                    /\ sinkOf' = [sinkOf EXCEPT ![k] = NoThread, ![j] = t]
        /\ UNCHANGED <<valid, engIb, clsIb, tableVars, payloadVars>>

(* Mutant of IbReset: the arrays stay. *)
IbResetSkipped(k) ==
    /\ branchIds' = [branchIds EXCEPT ![k] = <<>>, ![0] = <<>>]
    /\ sinkOf' = [sinkOf EXCEPT ![k] = NoThread]
    /\ UNCHANGED <<engIb, clsIb>>

(* IbReset, after the Reset of engine k. *)
IbReset(k) ==
    /\ branchIds' = [branchIds EXCEPT ![k] = <<>>, ![0] = <<>>]
    /\ sinkOf' = [sinkOf EXCEPT ![k] = NoThread]
    /\ engIb' = <<>> /\ clsIb' = <<>>

Finish(t) ==
    /\ pc[t] = "tail"
    /\ LET out == run[t].out
           late == call[t].masked /\ AnyClass(run[t].cls)
           passing == Promise!Pick(out, Promise!Passing(out))
       IN  Leave(t, [is |-> "rows", rows |-> IF late THEN passing ELSE out])
    /\ IbReset(run[t].engine)
    /\ UNCHANGED <<valid, tableVars, payloadVars>>

(* A run throws at any of its shots.  A state budget refusal leaves the     *)
(* sampler unusable (budget_poison_on_refusal).                             *)
RunFails(t) ==
    /\ pc[t] = "run"
    /\ Leave(t, Failed)
    /\ IbReset(run[t].engine)
    /\ valid' \in {valid, FALSE}
    /\ UNCHANGED <<tableVars, payloadVars>>

-----------------------------------------------------------------------------
(* add_branch. *)
AskAdd(t) == \E c \in AddCalls :
    /\ Take(t, c, "add")
    /\ UNCHANGED <<valid, recording, engIb, clsIb, tableVars, payloadVars, engineVars, run, answer>>

ClassOf(h) == IF Emin[h] = NoRows THEN 0 ELSE SelectInSeq(eclass, LAMBDA e : e = Emin[h])
NeedsHost(h) == Emin[h] # NoRows /\ ~Contains(eclass, Emin[h])

(* Everything that is refused before the branch table is touched. *)
AddRefused(t) ==
    /\ pc[t] \in {"add", "host"}
    /\ Leave(t, Failed)
    /\ UNCHANGED <<valid, engIb, clsIb, tableVars, payloadVars, engineVars>>

(* The per-E consumer of a new E_min is constructed, without the lock. *)
BuildHost(t) ==
    /\ pc[t] = "add" /\ NeedsHost(call[t].handle)
    /\ pc' = [pc EXCEPT ![t] = "host"]
    /\ UNCHANGED <<objectVars, tableVars, payloadVars, engineVars, call, run, answer, calls>>

ReadyToAdd(t) == pc[t] = "host" \/ (pc[t] = "add" /\ ~NeedsHost(call[t].handle))

(* The branch table gives a handle it has the number it has. *)
TableWith(h) == IF Contains(table, h) THEN table ELSE Append(table, h)
NumberOf(h) == SelectInSeq(TableWith(h), LAMBDA x : x = h)
ClassesWith(h) == IF NeedsHost(h) THEN Append(eclass, Emin[h]) ELSE eclass
ClassNumber(h) == IF NeedsHost(h) THEN Len(eclass) + 1 ELSE ClassOf(h)

(* FamBranch::id. *)
NextIn(k) == Len(branches[k]) + 1

Add(t) ==
    LET h == call[t].handle
        k == ClassNumber(h)
        n == NextIn(k)
    IN  /\ ReadyToAdd(t)
        /\ table' = TableWith(h)
        /\ IF NumberOf(h) > Len(table)
           THEN /\ eclass' = ClassesWith(h)
                /\ beng' = Append(beng, n)
                /\ bclass' = Append(bclass, k)
                /\ branches' = [branches EXCEPT ![k] = Append(@, h)]
                /\ payload' = [payload EXCEPT ![k] = WithPayload(@, n, h)]
           ELSE UNCHANGED <<eclass, beng, bclass, branches, payload>>
        /\ Leave(t, [is |-> "number", number |-> NumberOf(h)])
        /\ UNCHANGED <<valid, engIb, clsIb, used, budget, engineVars>>

(* set_branch_budget: this sampler's engine, and the per-E consumers that   *)
(* are there.                                                               *)
SetBudget(t) ==
    /\ pc[t] = "idle" /\ Free /\ calls < MaxCalls
    /\ \E b \in Budgets : budget' = [k \in Engines |-> IF k <= Len(eclass) THEN b ELSE budget[k]]
    /\ calls' = calls + 1
    /\ UNCHANGED <<objectVars, tableVars, engineVars, branches, payload, used, pc, call, run, answer>>

-----------------------------------------------------------------------------
Begins(t) == AskRun(t) \/ AskAdd(t) \/ SetBudget(t) \/ TurnAway(t)
Goes(t) == Branches(t) \/ RunShot(t) \/ EndRun(t) \/ Finish(t) \/ BuildHost(t) \/ Add(t)
Stops(t) == RunFails(t) \/ AddRefused(t)

Next == \E t \in Threads : Begins(t) \/ Goes(t) \/ Stops(t)

(* A thread that is in a call goes on; whether it is stopped is not up to   *)
(* the code.                                                                *)
Spec == Init /\ [][Next]_vars /\ \A t \in Threads : WF_vars(Goes(t))

-----------------------------------------------------------------------------
(* A sampler nobody uses holds nothing of a call that has ended, however it *)
(* ended: no sink, no branch array, no id list, no record mode.  The next   *)
(* call would run with them.                                                *)
NothingLeftBehind ==
    flag = NoThread =>
        /\ engIb = <<>> /\ clsIb = <<>> /\ ~recording
        /\ \A k \in Engines : branchIds[k] = <<>> /\ sinkOf[k] = NoThread

(* After a shot of a branch that touched the payloads, those of its engine  *)
(* are within the engine's budget or it is alone, it is there, what was     *)
(* evicted was not used after anything that stayed, and the last of it had  *)
(* to go.                                                                   *)
TouchedWithinBudget(k) ==
    LET n == Last(used'[k])
        kept == DOMAIN payload'[k]
        gone == DOMAIN payload[k] \ kept
        when(m) == SelectInSeq(used[k], LAMBDA x : x = m)
    IN  /\ n \in kept
        /\ kept = {n} \/ Total(k, kept) <= budget[k]
        /\ \A m \in gone, o \in kept \ {n} : when(m) <= when(o)
        /\ gone = {} \/ \E m \in gone : /\ \A o \in gone : when(o) <= when(m)
                                      /\ Total(k, kept \cup {m}) > budget[k]
PayloadsWithinBudget == [][\A k \in Engines : used'[k] # used[k] => TouchedWithinBudget(k)]_vars

(* "branch-0-only runs never hand the engine a branch array"                *)
(* (family_sampler.hpp:1248).                                               *)
BranchZeroHandsNoArray ==
    \A t \in Threads :
        pc[t] = "run" /\ run[t].engine = 0 /\ (\A i \in DOMAIN call[t].ib : call[t].ib[i] = 0)
            => branchIds[0] = <<>>

=============================================================================
