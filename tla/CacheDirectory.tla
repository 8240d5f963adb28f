--------------------------- MODULE CacheDirectory ---------------------------
(***************************************************************************)
(* The cache directory (xtim.cache_dir): reference entries and plan files, *)
(* shared by processes that come and go.  An entry and a plan file have no *)
(* file in common, so a behaviour is one of either kind.  The users are    *)
(* the threads of all processes; looks are calls of resolve_reference.     *)
(***************************************************************************)
EXTENDS Naturals

CONSTANTS Users, Process, Sources, MaxLooks, MaxAlterations, MaxDamages, LawOf, Keys, Size, MaxRuns

ASSUME CacheAssumption ==
    /\ MaxLooks \in Nat /\ MaxAlterations \in Nat /\ MaxRuns \in Nat /\ MaxDamages \in Nat
    /\ \A t \in Users :
          /\ LawOf[t] = [engine |-> LawOf[t].engine, group |-> LawOf[t].group, term |-> LawOf[t].term]
          /\ \A S \in SUBSET Keys[LawOf[t]] : Size[S] \in Nat
    /\ Size[{}] \in Nat
    /\ \A name \in Sources :
          name \notin {"missing", "altered", "no digest", "frame", "nothing", "deduced", "raised"}

VARIABLES kind,
          entry, stage, text, took, named, looks, alterations,
          headers, saving, blob, pos, fd, tmp, path, content, runs, damages

References == INSTANCE ReferenceCache WITH
    Threads <- Users, MaxCalls <- MaxLooks, answer <- took, calls <- looks
Plans == INSTANCE PlanFile WITH Threads <- Users, pc <- saving

entryVars == <<entry, stage, text, took, named, looks, alterations>>
fileVars == <<headers, saving, blob, pos, fd, tmp, path, content, runs, damages>>
directoryVars == <<kind, entryVars, fileVars>>

DirectoryInit ==
    /\ kind \in {"references", "plans"}
    /\ References!Init /\ Plans!Init

DirectoryNext ==
    /\ UNCHANGED kind
    /\ \/ kind = "references" /\ References!Next /\ UNCHANGED fileVars
       \/ kind = "plans" /\ Plans!Next /\ UNCHANGED entryVars

DirectorySpec == DirectoryInit /\ [][DirectoryNext]_directoryVars

-----------------------------------------------------------------------------
(* What is taken from the directory is what the process would have built    *)
(* itself: a reference that the battery compiled for the key, plan keys of  *)
(* the sampler's own law.  Files may be altered, cut, written by two        *)
(* threads at once or left behind by a crash.                               *)
ServedIsOwn == References!ServedIsCompiled /\ Plans!LoadedIsOwn

(* Writers of one reference entry that race do not spoil it for each other  *)
(* while their circuits have one file name.  ("deterministic content makes  *)
(* last-writer-wins safe", xtim/reference.py:301-302, does not say so.)     *)
TurnedDownForAReason == References!TurnedDownForAReason

=============================================================================
