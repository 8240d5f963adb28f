------------------------------ MODULE BornTrie ------------------------------
(***************************************************************************)
(* The walker of the plans' Born tries (cpp/src/twirl_kernel_sampler.cpp). *)
(* A walk draws the outcomes of a plan's directions.  The law of each node *)
(* is evaluated on first visit and kept in the plan's trie; roots are also *)
(* memoised across plans; the projected register is carried from one       *)
(* evaluation to the next inside a walk.  Any allocation may throw and     *)
(* leave the trie, the memo and the register where they are.               *)
(*                                                                         *)
(* Amplitudes are abstract: the register is the sequence of projections    *)
(* applied to the bare one, and a law the register it was evaluated on     *)
(* with its direction.  A direction is its bits (a, b) and its sign (phase *)
(* and par).                                                               *)
(***************************************************************************)
EXTENDS Integers, Sequences, FiniteSets

CONSTANTS
    Plans, NoPlan,
    Cut,          \* no direction
    Axes, Signs,  \* (a, b) and (phase, par) of a direction
    Lam,          \* RecTable::lam of each plan's record table
    MemoCap,      \* kRootMemoCap
    MaxWalks,     \* bound: walks
    MaxFails      \* bound: root memo insertions that fail

Direction == [axis : Axes, sign : Signs]

ASSUME ConstantsAssumption ==
    /\ NoPlan \notin Plans
    /\ Cut \notin Direction
    /\ Lam \in [Plans -> Seq(Direction)]
    /\ \A p \in Plans : Len(Lam[p]) > 0
    /\ MemoCap \in Nat \ {0}
    /\ MaxWalks \in Nat /\ MaxFails \in Nat

VARIABLES
    tries,        \* rec_trie of each plan; node n is entry n + 1
    memo,         \* root_memo_: root key -> law
    memoBytes,    \* root_memo_bytes_, in entries
    verify,       \* root_memo_verify
    psi,          \* psi_: the projections applied to the bare register
    depth,        \* psi_depth_
    buffers,      \* which of psi_ and beta_ exist: none, psi, both
    plan,         \* the plan whose trie is walked, or NoPlan
    node,         \* the current node
    bits,         \* the outcomes drawn
    asked,        \* history: the law the last outcome was drawn from
    ended,        \* history: how the last walk ended
    mismatch,     \* history: a verified memo hit differed
    walks, fails  \* the bounded counts

walkVars == <<plan, node, bits, asked, ended>>
vars == <<tries, memo, memoBytes, verify, psi, depth, buffers, walkVars, mismatch, walks, fails>>

Chain == INSTANCE ChainRule WITH lost <- buffers = "psi"

Nan == Chain!Nowhere
Law(on, d) == [on |-> on, of |-> d]

(* A register nobody may rely on: a walk or an oracle was cut inside an     *)
(* amplitude pass.                                                          *)
Garbage == << <<Cut, 0>> >>

(* A node; at is history: the outcomes on the way to it.                    *)
NewNode(at) == [p0 |-> Nan, kid |-> [z \in {0, 1} |-> 0], at |-> at]

Init ==
    /\ tries = [p \in Plans |-> <<>>]
    /\ memo = <<>>
    /\ memoBytes = 0
    /\ verify = TRUE
    /\ psi = <<>>
    /\ depth = -1
    /\ buffers = "none"
    /\ plan = NoPlan
    /\ node = 0
    /\ bits = <<>>
    /\ asked = Nan
    /\ ended = "never"
    /\ mismatch = FALSE
    /\ walks = 0 /\ fails = 0

-----------------------------------------------------------------------------
Trie == tries[plan]
Here == Trie[node + 1]
Direct(j) == Lam[plan][j + 1]

(* root_key_: everything the law of a root depends on. *)
RootKey(d) == d

(* psi_depth_ at the start of a walk. *)
Fresh == -1

(* The trie of p as a walk finds it: the root is made on the first visit.   *)
Rooted(p) == IF tries[p] = <<>> THEN <<NewNode(<<>>)>> ELSE tries[p]

Begin(p) ==
    /\ plan = NoPlan
    /\ plan' = p
    /\ tries' = [tries EXCEPT ![p] = Rooted(p)]
    /\ depth' = Fresh
    /\ walks < MaxWalks
    /\ walks' = walks + 1
    /\ UNCHANGED <<memo, memoBytes, verify, psi, buffers, node, bits, asked, ended, mismatch, fails>>

(* Before its last outcome a walk stands at a node, which may be new. *)
Unfinished == plan # NoPlan /\ Len(bits) < Len(Lam[plan])
MustEvaluate == Unfinished /\ Here.p0 = Nan

(* What needs the register calls reset_, which clones psi_ and then beta_   *)
(* where psi_ is null and tests beta_ nowhere.                              *)
NeedsRegister ==
    MustEvaluate /\ (bits = <<>> /\ RootKey(Direct(0)) \in DOMAIN memo => verify)

CanReset == buffers # "psi"

SetLaw(law) == tries' = [tries EXCEPT ![plan][node + 1].p0 = law]

(* The root's law is in the memo; in the self-check window it is evaluated  *)
(* again and compared.                                                      *)
RootHit ==
    /\ MustEvaluate /\ bits = <<>>
    /\ RootKey(Direct(0)) \in DOMAIN memo
    /\ SetLaw(memo[RootKey(Direct(0))])
    /\ IF verify
       THEN /\ CanReset
            /\ psi' = <<>>
            /\ depth' = 0
            /\ buffers' = "both"
            /\ mismatch' = (mismatch \/ memo[RootKey(Direct(0))] # Law(<<>>, Direct(0)))
       ELSE UNCHANGED <<psi, depth, buffers, mismatch>>
    /\ UNCHANGED <<memo, memoBytes, verify, walkVars, walks, fails>>

(* Mutant of Projected: everything drawn so far is applied again. *)
ProjectedAgain ==
    (IF depth < 0 THEN <<>> ELSE psi) \o [i \in DOMAIN bits |-> <<Lam[plan][i], bits[i]>>]

(* Mutant of Projected: every outcome is taken for 0. *)
ProjectedUp ==
    LET done == IF depth < 0 THEN 0 ELSE depth
    IN  (IF depth < 0 THEN <<>> ELSE psi) \o
        [i \in 1..(Len(bits) - done) |-> <<Lam[plan][done + i], 0>>]

(* The register after the projections that are still missing: all of them   *)
(* if it is not this walk's.                                                *)
Projected ==
    LET done == IF depth < 0 THEN 0 ELSE depth
    IN  (IF depth < 0 THEN <<>> ELSE psi) \o
        [i \in 1..(Len(bits) - done) |-> <<Lam[plan][done + i], bits[done + i]>>]

(* Mutant of Remembered: the memo is never cleared. *)
RememberedAll(k, law) ==
    [map |-> [x \in DOMAIN memo \cup {k} |-> IF x = k THEN law ELSE memo[x]],
     bytes |-> memoBytes + 1]

(* The memo with one more entry: a full one is cleared first. *)
Remembered(k, law) ==
    LET kept == IF Cardinality(DOMAIN memo) >= MemoCap THEN {} ELSE DOMAIN memo
    IN  [map |-> [x \in kept \cup {k} |-> IF x = k THEN law ELSE memo[x]],
         bytes |-> (IF kept = {} THEN 0 ELSE memoBytes) + 1]

(* The law of this node is evaluated; that of a root is remembered. *)
Evaluate ==
    LET law == Law(Projected, Direct(Len(bits)))
        more == Remembered(RootKey(Direct(0)), law)
    IN  /\ MustEvaluate
        /\ bits = <<>> => RootKey(Direct(0)) \notin DOMAIN memo
        /\ CanReset /\ buffers' = "both"
        /\ psi' = Projected
        /\ depth' = Len(bits)
        /\ SetLaw(law)
        /\ IF bits = <<>>
           THEN memo' = more.map /\ memoBytes' = more.bytes
           ELSE UNCHANGED <<memo, memoBytes>>
        /\ UNCHANGED <<verify, walkVars, mismatch, walks, fails>>

(* The end of a walk; its outcomes are the caller's from here on. *)
Stop(how) ==
    /\ plan' = NoPlan
    /\ ended' = how
    /\ node' = 0
    /\ bits' = <<>>
    /\ asked' = Nan

(* The memo refuses the entry, whose bytes are counted already (and a full  *)
(* memo was cleared); the node has its law.                                 *)
RememberThrows ==
    LET law == Law(Projected, Direct(0))
        full == Cardinality(DOMAIN memo) >= MemoCap
    IN  /\ MustEvaluate /\ bits = <<>>
        /\ RootKey(Direct(0)) \notin DOMAIN memo
        /\ fails < MaxFails
        /\ fails' = fails + 1
        /\ CanReset /\ buffers' = "both"
        /\ psi' = Projected
        /\ depth' = 0
        /\ SetLaw(law)
        /\ memo' = IF full THEN <<>> ELSE memo
        /\ memoBytes' = (IF full THEN 0 ELSE memoBytes) + 1
        /\ Stop("thrown")
        /\ UNCHANGED <<verify, mismatch, walks>>

(* A pass over the amplitudes throws: the node stays unevaluated.  Without   *)
(* beta_ it is one of the steps before beta_ is used.                       *)
EvaluateThrows ==
    /\ NeedsRegister
    /\ psi' = Garbage
    /\ IF CanReset
       THEN buffers' = "both" /\ depth' \in -1..Len(bits)
       ELSE UNCHANGED buffers /\ depth' \in {-1, 0}
    /\ Stop("thrown")
    /\ UNCHANGED <<tries, memo, memoBytes, verify, mismatch, walks, fails>>

(* One of the two clones throws; if it is the second, psi_ stays.           *)
CloneThrows ==
    /\ NeedsRegister
    /\ buffers = "none"
    /\ buffers' \in {"none", "psi"}
    /\ Stop("thrown")
    /\ UNCHANGED <<tries, memo, memoBytes, verify, psi, depth, mismatch, walks, fails>>

(* The first pass after that calls through the null beta_, and the process  *)
(* is gone.                                                                 *)
Dies ==
    /\ NeedsRegister
    /\ ~CanReset
    /\ Stop("died")
    /\ UNCHANGED <<tries, memo, memoBytes, verify, psi, depth, buffers, mismatch, walks, fails>>

(* The trie after outcome z: a node is made unless there is one or the      *)
(* direction was the last.                                                  *)
Grown(z) ==
    IF Here.kid[z] = 0 /\ Len(bits) + 1 < Len(Lam[plan])
    THEN Append([Trie EXCEPT ![node + 1].kid[z] = Len(Trie)],
                NewNode(Append(bits, z)))
    ELSE Trie

Draw(z) ==
    /\ Unfinished
    /\ Here.p0 # Nan
    /\ bits' = Append(bits, z)
    /\ asked' = Here.p0
    /\ tries' = [tries EXCEPT ![plan] = Grown(z)]
    /\ node' = Grown(z)[node + 1].kid[z]
    /\ UNCHANGED <<memo, memoBytes, verify, psi, depth, buffers, plan, ended, mismatch, walks, fails>>

Finish ==
    /\ plan # NoPlan
    /\ Len(bits) = Len(Lam[plan])
    /\ Stop("complete")
    /\ UNCHANGED <<tries, memo, memoBytes, verify, psi, depth, buffers, mismatch, walks, fails>>

(* An allocation outside the passes throws: the root, an outcome, a child.  *)
WalkThrows ==
    /\ plan # NoPlan
    /\ Stop("thrown")
    /\ UNCHANGED <<tries, memo, memoBytes, verify, psi, depth, buffers, mismatch, walks, fails>>

-----------------------------------------------------------------------------
(* Between walks *)

(* The payload of a plan is evicted; it is rebuilt without a trie. *)
Evict(p) ==
    /\ plan = NoPlan
    /\ tries' = [tries EXCEPT ![p] = <<>>]
    /\ UNCHANGED <<memo, memoBytes, verify, psi, depth, buffers, walkVars, mismatch, walks, fails>>

(* Budget pressure clears the root memo. *)
MemoClear ==
    /\ plan = NoPlan
    /\ memo' = <<>>
    /\ memoBytes' = 0
    /\ UNCHANGED <<tries, verify, psi, depth, buffers, walkVars, mismatch, walks, fails>>

Evaluated == \E p \in Plans : \E n \in DOMAIN tries[p] : tries[p][n].p0 # Nan

(* The self-check window of the sampler closes. *)
WindowCloses ==
    /\ plan = NoPlan
    /\ verify' = FALSE
    /\ UNCHANGED <<tries, memo, memoBytes, psi, depth, buffers, walkVars, mismatch, walks, fails>>

(* p0_from_scratch evaluates an evaluated node again, on the same register  *)
(* (a walk has made its buffers), or is cut.                                *)
Oracle ==
    /\ plan = NoPlan
    /\ Evaluated
    /\ psi' = Garbage
    /\ depth' \in {-1, 0}
    /\ UNCHANGED <<tries, memo, memoBytes, verify, buffers, walkVars, mismatch, walks, fails>>

-----------------------------------------------------------------------------
Walk ==
    \/ RootHit \/ Evaluate \/ RememberThrows
    \/ EvaluateThrows \/ CloneThrows \/ Dies
    \/ \E z \in {0, 1} : Draw(z)
    \/ Finish \/ WalkThrows

Next ==
    /\ ended # "died"
    /\ \/ \E p \in Plans : Begin(p) \/ Evict(p)
       \/ Walk
       \/ MemoClear \/ WindowCloses \/ Oracle

Spec == Init /\ [][Next]_vars /\ WF_vars(Walk)

-----------------------------------------------------------------------------
TypeOK ==
    /\ \A p \in Plans : \A n \in DOMAIN tries[p] :
          \A z \in {0, 1} : tries[p][n].kid[z] \in 0..(Len(tries[p]) - 1)
    /\ DOMAIN memo \subseteq Direction
    /\ Cardinality(DOMAIN memo) <= MemoCap
    /\ fails = 0 => memoBytes = Cardinality(DOMAIN memo)
    /\ verify \in BOOLEAN /\ mismatch \in BOOLEAN
    /\ plan \in Plans \cup {NoPlan}
    /\ plan # NoPlan => node \in 0..(Len(Trie) - 1)
    /\ bits \in Seq({0, 1})
    /\ plan # NoPlan => depth \in -1..Len(bits)
    /\ buffers \in {"none", "psi", "both"}
    /\ Evaluated \/ memo # <<>> => buffers = "both"

(* Every evaluated node of every trie, whatever walks were cut and whatever *)
(* plans shared the register and the memo, holds the law of its direction   *)
(* after the outcomes that lead to it from the root.                        *)
NodesTellTheLaw ==
    \A p \in Plans : \A n \in DOMAIN tries[p] :
        tries[p][n].p0 \in {Nan, Chain!LawAfter(Lam[p], tries[p][n].at)}

(* The trie is a tree of outcomes: a child is reached by one more outcome,  *)
(* it is younger than its parent, and index 0 (the root) is never a child.  *)
OutcomesAreAPath ==
    \A p \in Plans : \A n \in DOMAIN tries[p] : \A z \in {0, 1} :
        LET k == tries[p][n].kid[z]
        IN  k # 0 => /\ k >= n
                     /\ tries[p][k + 1].at = Append(tries[p][n].at, z)

(* The carried register is the one this walk's outcomes lead to. *)
RegisterIsCarried ==
    plan # NoPlan /\ depth >= 0 =>
        psi = [i \in 1..depth |-> <<Lam[plan][i], bits[i]>>]

(* The self-check never finds a root memo hit that differs. *)
MemoHitsAgree == ~mismatch

(* Each outcome is drawn from the law of its direction after this walk's    *)
(* own earlier outcomes, as if there were no trie, no memo and no carried   *)
(* register.  Each walk ends, complete or by an exception; only where an    *)
(* exception has left psi_ without beta_ may a later walk end the process,  *)
(* and then no walk in between has drawn.                                   *)
DrawsByTheChainRule == Chain!ChainSpec

=============================================================================
