------------------------------ MODULE PureBuild ------------------------------
(***************************************************************************)
(* What build_bare_state_framed promises its callers: it is a function of  *)
(* the circuit's key.  A call is answered with the state of its own key or *)
(* fails by an exception, whatever other threads call meanwhile; and it    *)
(* returns.                                                                *)
(***************************************************************************)
CONSTANTS Threads, Keys, NoKey, Thrown

VARIABLES
    want,     \* the key thread t is asking for, NoKey outside a call
    answer    \* what thread t's last call returned

pureVars == <<want, answer>>

PureInit ==
    /\ want = [t \in Threads |-> NoKey]
    /\ answer = [t \in Threads |-> NoKey]

Ask(t, k) ==
    /\ want[t] = NoKey
    /\ want' = [want EXCEPT ![t] = k]
    /\ UNCHANGED answer

Reply(t) ==
    /\ want[t] # NoKey
    /\ want' = [want EXCEPT ![t] = NoKey]
    /\ answer' \in {[answer EXCEPT ![t] = want[t]], [answer EXCEPT ![t] = Thrown]}

PureNext == \E t \in Threads : Reply(t) \/ \E k \in Keys : Ask(t, k)

PureSpec == PureInit /\ [][PureNext]_pureVars /\ \A t \in Threads : WF_pureVars(Reply(t))

=============================================================================
