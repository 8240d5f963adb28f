--------------------------- MODULE MCBareStateMemo ---------------------------
(* Two threads, three keys of different sizes of which one is rejected. *)
EXTENDS BareStateMemo

CONSTANTS t1, t2, k1, k2, k3

MCEntryBytes == (k1 :> 1) @@ (k2 :> 2) @@ (k3 :> 1)
MCEnvCaps == [entries |-> 2, bytes |-> 3, entry |-> 2]
MCCapChoices == {<<1, 2>>, <<2, 2>>, <<0, 3>>}
MCEntryCaps == {1}

=============================================================================
