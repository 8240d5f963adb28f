---------------------------- MODULE PayloadQuota ----------------------------
(***************************************************************************)
(* What the plan budget of a sampler promises, without a mark, a published *)
(* number or steps of a boundary: no shot starts over the budget, memory   *)
(* is only given up between shots, and what is given up goes in order, the *)
(* readers' tables first, then the Born roots, the sampler's own payloads  *)
(* last and on their own bytes alone.                                      *)
(***************************************************************************)
EXTENDS Integers, Sequences

VARIABLES
    fifo,           \* charged bytes of the resident payloads, oldest first
    resident,       \* their sum
    tables,         \* the readers' tables, least recently used first
    readerBytes,    \* bytes charged to the readers
    roots,          \* bytes of all Born root memos
    budget,         \* 0: no budget
    phase           \* "idle" (between calls), "between" (shots) or "shot"

quotaVars == <<fifo, resident, tables, readerBytes, roots, budget, phase>>

TablesMet == budget = 0 \/ tables = <<>> \/ resident + readerBytes <= budget
RootsMet == budget = 0 \/ roots = 0 \/ resident + roots <= budget
PayloadsMet == budget = 0 \/ resident <= budget

QuotaInit ==
    /\ fifo = <<>>
    /\ resident = 0
    /\ tables = <<>>
    /\ readerBytes = 0
    /\ roots = 0
    /\ budget \in Nat
    /\ phase = "idle"

Configure == phase = "idle" /\ budget' \in Nat
             /\ UNCHANGED <<fifo, resident, tables, readerBytes, roots, phase>>

(* Readers between calls: they may add and drop tables, nothing else. *)
Read == /\ phase = "idle"
        /\ UNCHANGED <<fifo, resident, roots, budget, phase>>

DropTable ==
    /\ phase = "between"
    /\ ~TablesMet
    /\ tables' = Tail(tables)
    /\ readerBytes' < readerBytes
    /\ UNCHANGED <<fifo, resident, roots, budget, phase>>

DropRoots ==
    /\ phase = "between"
    /\ TablesMet
    /\ ~RootsMet
    /\ roots' = 0
    /\ UNCHANGED <<fifo, resident, tables, readerBytes, budget, phase>>

DropPayload ==
    /\ phase = "between"
    /\ ~PayloadsMet
    /\ tables = <<>>
    /\ roots = 0
    /\ fifo' = Tail(fifo)
    /\ resident' = resident - Head(fifo)
    /\ UNCHANGED <<tables, readerBytes, roots, budget, phase>>

(* A call starts, a shot ends, a shot starts, a call ends or is cut. *)
Call == phase = "idle" /\ phase' = "between"
StartShot == phase = "between" /\ TablesMet /\ RootsMet /\ PayloadsMet /\ phase' = "shot"
EndShot == phase = "shot" /\ phase' = "between"
EndCall == phase = "between" /\ TablesMet /\ RootsMet /\ PayloadsMet /\ phase' = "idle"
CutCall == phase = "shot" /\ phase' = "idle"

Move == /\ Call \/ StartShot \/ EndShot \/ EndCall \/ CutCall
        /\ UNCHANGED <<fifo, resident, tables, readerBytes, roots, budget>>

(* A shot only adds, but for the Born roots, which it may start over. *)
Use ==
    /\ phase = "shot"
    /\ resident' >= resident
    /\ readerBytes' >= readerBytes
    /\ UNCHANGED <<tables, budget, phase>>

QuotaNext == Configure \/ Read \/ DropTable \/ DropRoots \/ DropPayload \/ Move \/ Use

QuotaSpec == QuotaInit /\ [][QuotaNext]_quotaVars

=============================================================================
