--------------------------- MODULE ReferenceCache ---------------------------
(***************************************************************************)
(* One entry of the reference cache (xtim/reference.py): the .ref file and *)
(* its two companions, written and read by the threads of several          *)
(* processes that resolve circuits of one cache key.                       *)
(*                                                                         *)
(* A file is written under a name of its own thread and then renamed, so a *)
(* step that stores is one rename; a temporary file that a crash leaves is *)
(* read by nobody.  A digest stands for the text it is of, a compiled text *)
(* for the name of the circuit's file, which it holds and the key does not.*)
(***************************************************************************)
EXTENDS Naturals

CONSTANTS Threads,
          Process,          \* thread -> its process
          Sources,          \* the names of the files circuits of this key come from
          MaxCalls,         \* bound: calls of resolve_reference
          MaxAlterations        \* bound: times somebody else touches the files

VARIABLES entry,            \* the three files
          stage, text,         \* where a call is, and the text it holds
          answer,           \* thread -> what its last call returned
          named,            \* history: the names the entry was compiled for
          calls, alterations

vars == <<entry, stage, text, answer, named, calls, alterations>>

Parts == {"ref", "sha", "sig"}

Init ==
    /\ entry = [f \in Parts |-> "missing"]
    /\ stage = [t \in Threads |-> "idle"]
    /\ text = [t \in Threads |-> "missing"]
    /\ answer = [t \in Threads |-> "nothing"]
    /\ named = {} /\ calls = 0 /\ alterations = 0

At(t, a, b) == stage[t] = a /\ stage' = [stage EXCEPT ![t] = b]

Return(t, a) ==
    /\ stage' = [stage EXCEPT ![t] = "idle"]
    /\ text' = [text EXCEPT ![t] = "missing"]
    /\ answer' = [answer EXCEPT ![t] = a]

Deduced(t) == Return(t, "deduced") /\ UNCHANGED <<entry, named, calls, alterations>>

(* resolve_reference: a directory that is no path is no directory. *)
Look(t) ==
    /\ calls < MaxCalls
    /\ \/ At(t, "idle", IF entry["ref"] = "missing" THEN "compile" ELSE "read")
       \/ At(t, "idle", "compile only")
    /\ calls' = calls + 1
    /\ UNCHANGED <<entry, text, answer, named, alterations>>

-----------------------------------------------------------------------------
(* _load_verified, file by file; whatever it raises is answered with the    *)
(* deduced bare state, and the entry is left as it is.                      *)
ReadText(t) ==
    /\ stage[t] = "read"
    /\ IF entry["ref"] = "missing" THEN Deduced(t)
       ELSE /\ At(t, "read", "check text")
            /\ text' = [text EXCEPT ![t] = entry["ref"]]
            /\ UNCHANGED <<entry, answer, named, calls, alterations>>

(* The digest of the text is the one that was stored. *)
Intact(t) == entry["sha"] = text[t]

CheckText(t) ==
    /\ stage[t] = "check text"
    /\ IF Intact(t) THEN At(t, "check text", "check frame") /\ UNCHANGED <<entry, text, answer, named, calls, alterations>>
       ELSE Deduced(t)

(* The signature of the frame, then the cheap verification, which may let a *)
(* text pass that is not the compiled one.                                  *)
CheckFrame(t) ==
    /\ stage[t] = "check frame"
    /\ \/ Deduced(t) /\ (entry["sig"] # "frame" \/ text[t] = "altered")
       \/ /\ entry["sig"] = "frame"
          /\ Return(t, text[t])
          /\ UNCHANGED <<entry, named, calls, alterations>>

-----------------------------------------------------------------------------
(* Mutant of Text: what is compiled says who compiled it. *)
TextSigned(t, name) == t

(* The battery gives one text for all circuits of a key but for the line    *)
(* with the file's name: nothing on its way reads a noise value, and a      *)
(* value that is zero is part of the key.                                   *)
Text(t, name) == name

Compile(t) ==
    /\ \/ \E name \in Sources : /\ At(t, "compile", "store ref")
                                /\ text' = [text EXCEPT ![t] = Text(t, name)]
                                /\ named' = named \cup {name} /\ UNCHANGED answer
       \/ \E name \in Sources : stage[t] = "compile only" /\ Return(t, Text(t, name)) /\ UNCHANGED named
       \/ /\ stage[t] \in {"compile", "compile only"} /\ UNCHANGED named
          /\ \E a \in {"deduced", "raised"} : Return(t, a)
    /\ UNCHANGED <<entry, calls, alterations>>

(* _store: three renames.  Where one fails the reference is used without.   *)
Rename(f, c) == entry' = [entry EXCEPT ![f] = c]

Store(t) ==
    /\ \/ At(t, "store ref", "store sha") /\ Rename("ref", text[t]) /\ UNCHANGED <<text, answer>>
       \/ At(t, "store sha", "store sig") /\ Rename("sha", text[t]) /\ UNCHANGED <<text, answer>>
       \/ stage[t] = "store sig" /\ Rename("sig", "frame") /\ Return(t, text[t])
    /\ UNCHANGED <<named, calls, alterations>>

StoreFails(t) ==
    /\ stage[t] \in {"store ref", "store sha", "store sig"}
    /\ Return(t, text[t])
    /\ UNCHANGED <<entry, named, calls, alterations>>

-----------------------------------------------------------------------------
(* A process dies in the middle of what its threads do. *)
Crash(p) ==
    /\ \E t \in Threads : Process[t] = p /\ stage[t] # "idle"
    /\ stage' = [t \in Threads |-> IF Process[t] = p THEN "idle" ELSE stage[t]]
    /\ text' = [t \in Threads |-> IF Process[t] = p THEN "missing" ELSE text[t]]
    /\ UNCHANGED <<entry, answer, named, calls, alterations>>

(* Somebody alters a file, or deletes the .ref as the warning says.  An      *)
(* altered digest is the digest of nothing.                                 *)
Spoiled(f) == IF f = "sha" THEN "no digest" ELSE "altered"

Alter ==
    /\ alterations < MaxAlterations
    /\ \/ \E f \in Parts : entry[f] # "missing" /\ Rename(f, Spoiled(f))
       \/ entry["ref"] # "missing" /\ Rename("ref", "missing")
    /\ alterations' = alterations + 1
    /\ UNCHANGED <<stage, text, answer, named, calls>>

Next ==
    \/ \E t \in Threads : \/ Look(t) \/ ReadText(t) \/ CheckText(t) \/ CheckFrame(t)
                          \/ Compile(t) \/ Store(t) \/ StoreFails(t)
    \/ \E p \in {Process[t] : t \in Threads} : Crash(p)
    \/ Alter

Spec == Init /\ [][Next]_vars

-----------------------------------------------------------------------------
(* A caller gets a reference that the battery compiled, or none. *)
ServedIsCompiled ==
    \A t \in Threads :
        answer[t] \in {"nothing", "deduced", "raised"} \cup {Text(u, name) : u \in Threads, name \in Sources}

(* An entry is turned down for a reason: a file of it is missing or was     *)
(* altered, now or when its text was read, or it was compiled for circuits  *)
(* of two names.  Writers that race are no reason while they read the same  *)
(* file, however they interleave: they write the same.  Two of two names    *)
(* may leave the text of one beside the digest of the other.                *)
Broken == \E f \in Parts : entry[f] \in {"missing", Spoiled(f)}
TwoNames == \E a, b \in named : a # b
TurnsDown(t) == (ReadText(t) \/ CheckText(t) \/ CheckFrame(t)) /\ stage'[t] = "idle" /\ answer'[t] = "deduced"
TurnedDownForAReason ==
    [][\A t \in Threads : TurnsDown(t) => Broken \/ text[t] = "altered" \/ TwoNames]_vars

=============================================================================
