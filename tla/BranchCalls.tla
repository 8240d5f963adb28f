---------------------------- MODULE BranchCalls ----------------------------
(***************************************************************************)
(* What an ideal-state consumer sampler promises its callers: branches get *)
(* numbers in the order of their registration, every row of a call is of   *)
(* the branch its shot asked for, relative to this sampler's reference,    *)
(* and under a mask the rows are those of the unmasked call without the    *)
(* ones it drops.  One call at a time: a second one is turned away, and    *)
(* changes nothing.                                                        *)
(***************************************************************************)
EXTENDS Naturals, FiniteSets, SequencesExt

CONSTANTS Threads, Ideal, Bad, Calls, NoCall

VARIABLES ids, asked, told

vars == <<ids, asked, told>>

BranchOf(b) == IF b = 0 THEN Ideal ELSE ids[b]
AllRows(c) == [i \in DOMAIN c.ib |-> [branch |-> BranchOf(c.ib[i]), reference |-> 0]]

(* A finite set of numbers in ascending order, and what a sequence holds at  *)
(* the positions of one.                                                     *)
UpTo(I, i) == {j \in I : j <= i}
Ascending(I) == [x \in 1 .. Cardinality(I) |-> CHOOSE i \in I : Cardinality(UpTo(I, i)) = x]
Pick(s, I) == LET at == Ascending(I) IN [x \in DOMAIN at |-> s[at[x]]]

Passing(rows) == {i \in DOMAIN rows : rows[i].branch \notin Bad}
Rows(c) ==
    LET rows == AllRows(c)
    IN  IF c.masked THEN Pick(rows, Passing(rows)) ELSE rows

NothingAsked == \A t \in Threads : asked[t] = NoCall

Init ==
    /\ ids = <<>>
    /\ asked = [t \in Threads |-> NoCall]
    /\ told = [t \in Threads |-> [is |-> "nothing"]]

Ask(t) ==
    /\ NothingAsked
    /\ \E c \in Calls : asked' = [asked EXCEPT ![t] = c]
    /\ UNCHANGED <<ids, told>>

TurnAway(t) ==
    /\ asked[t] = NoCall /\ ~NothingAsked
    /\ told' = [told EXCEPT ![t] = [is |-> "busy"]]
    /\ UNCHANGED <<ids, asked>>

Answer(t, a) ==
    /\ asked' = [asked EXCEPT ![t] = NoCall]
    /\ told' = [told EXCEPT ![t] = a]

AnswerRows(t) ==
    /\ asked[t].kind = "run"
    /\ \A i \in DOMAIN asked[t].ib : asked[t].ib[i] <= Len(ids)
    /\ Answer(t, [is |-> "rows", rows |-> Rows(asked[t])])
    /\ UNCHANGED ids

Register(t) ==
    /\ asked[t].kind = "add"
    /\ LET h == asked[t].handle
           more == IF Contains(ids, h) THEN ids ELSE Append(ids, h)
       IN  /\ ids' = more
           /\ Answer(t, [is |-> "number", number |-> SelectInSeq(more, LAMBDA x : x = h)])

Fail(t) ==
    /\ Answer(t, [is |-> "failed"])
    /\ UNCHANGED ids

Settle(t) == asked[t] # NoCall /\ (Fail(t) \/ AnswerRows(t) \/ Register(t))

Next == \E t \in Threads : Ask(t) \/ TurnAway(t) \/ Settle(t)

(* Every call that is taken is answered. *)
Spec == Init /\ [][Next]_vars /\ \A t \in Threads : WF_vars(Settle(t))

=============================================================================
