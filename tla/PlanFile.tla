------------------------------ MODULE PlanFile ------------------------------
(***************************************************************************)
(* The plan file (TWPL v6, cpp/src/twirl_sampler_fam.cpp): samplers of     *)
(* several threads and processes load the keys it holds when they are      *)
(* constructed and save theirs at the end of every run, all under one      *)
(* path.  Runs do not hold the interpreter lock, and the name of the       *)
(* temporary file is the process's, not the thread's.                      *)
(*                                                                         *)
(* A blob is written piece by piece; its trailing hash is right exactly    *)
(* when all pieces of one blob, and no others, are in the file.            *)
(***************************************************************************)
EXTENDS Naturals, Sequences

CONSTANTS Threads,
          Process,          \* thread -> its process
          LawOf,            \* thread -> engine, group token and term token of its sampler
          Keys,             \* law -> the plan keys of its samplers
          Size,             \* plan keys -> the pieces of a blob of them
          MaxRuns,          \* bound: runs
          MaxDamages        \* bound: times somebody else cuts the file

VARIABLES headers,          \* thread -> the keys of its sampler's cache
          pc, blob, pos,    \* a save: what it writes, and how much of it
          fd,               \* thread -> the file it writes to
          tmp, path,        \* the files the names stand for, 0 for none
          content,          \* file -> its pieces
          runs, damages

vars == <<headers, pc, blob, pos, fd, tmp, path, content, runs, damages>>

Processes == {Process[t] : t \in Threads}
NoLaw == [engine |-> "none", group |-> "none", term |-> "none"]
NoBlob == [law |-> NoLaw, keys |-> {}]

Init ==
    /\ headers = [t \in Threads |-> {}]
    /\ pc = [t \in Threads |-> "none"]
    /\ blob = [t \in Threads |-> NoBlob]
    /\ pos = [t \in Threads |-> 0]
    /\ fd = [t \in Threads |-> 0]
    /\ tmp = [p \in Processes |-> 0]
    /\ path = 0
    /\ content = <<>>
    /\ runs = 0 /\ damages = 0

(* begin_blob, the plans, finish_blob: the last piece has the hash. *)
Pieces(b) == [i \in 1 .. Size[b.keys] |-> <<b, i>>]

-----------------------------------------------------------------------------
(* open_blob: the hash is that of what is there. *)
Opens(file) == Len(file) > 0 /\ file = Pieces(file[1][1])

(* Mutant of Accepts: the token of the term set is not compared. *)
AcceptsAnyTerms(t, b) == b.law.engine = LawOf[t].engine /\ b.law.group = LawOf[t].group

Accepts(t, b) ==
    /\ b.law.engine = LawOf[t].engine
    /\ b.law.group = LawOf[t].group
    /\ b.law.term = LawOf[t].term

(* load_file_v6_ *)
Loaded(t) ==
    LET file == content[path]
    IN  IF path # 0 /\ Opens(file) /\ Accepts(t, file[1][1]) THEN file[1][1].keys ELSE {}

Construct(t) ==
    /\ pc[t] = "none"
    /\ pc' = [pc EXCEPT ![t] = "ready"]
    /\ headers' = [headers EXCEPT ![t] = Loaded(t)]
    /\ UNCHANGED <<blob, pos, fd, tmp, path, content, runs, damages>>

(* A run meets plans; at its end it saves. *)
Run(t) ==
    /\ pc[t] = "ready" /\ runs < MaxRuns
    /\ \E met \in SUBSET Keys[LawOf[t]] :
         /\ headers' = [headers EXCEPT ![t] = @ \cup met]
         /\ blob' = [blob EXCEPT ![t] = [law |-> LawOf[t], keys |-> headers'[t]]]
    /\ pc' = [pc EXCEPT ![t] = "open"]
    /\ runs' = runs + 1
    /\ UNCHANGED <<pos, fd, tmp, path, content, damages>>

-----------------------------------------------------------------------------
(* save_file_v6_ *)
SaveEnds(t) ==
    /\ pc' = [pc EXCEPT ![t] = "ready"]
    /\ blob' = [blob EXCEPT ![t] = NoBlob]
    /\ pos' = [pos EXCEPT ![t] = 0]
    /\ fd' = [fd EXCEPT ![t] = 0]

(* fopen(tmp, "wb") empties the file that another thread may be writing. *)
Open(t) ==
    LET p == Process[t]
        file == IF tmp[p] = 0 THEN Len(content) + 1 ELSE tmp[p]
    IN  /\ pc[t] = "open"
        /\ pc' = [pc EXCEPT ![t] = "write"]
        /\ fd' = [fd EXCEPT ![t] = file]
        /\ tmp' = [tmp EXCEPT ![p] = file]
        /\ content' = IF tmp[p] = 0 THEN Append(content, <<>>) ELSE [content EXCEPT ![file] = <<>>]
        /\ UNCHANGED <<headers, blob, pos, path, runs, damages>>

OpenFails(t) ==
    /\ pc[t] = "open"
    /\ SaveEnds(t)
    /\ UNCHANGED <<headers, tmp, path, content, runs, damages>>

(* A piece is written at the thread's own place in the file; what was never *)
(* written before it reads as a hole.                                       *)
Put(file, i, piece) ==
    [j \in 1 .. (IF i > Len(file) THEN i ELSE Len(file)) |->
        IF j = i THEN piece ELSE IF j <= Len(file) THEN file[j] ELSE <<NoBlob, 0>>]

Write(t) ==
    LET i == pos[t] + 1
    IN  /\ pc[t] = "write" /\ i <= Len(Pieces(blob[t]))
        /\ content' = [content EXCEPT ![fd[t]] = Put(@, i, Pieces(blob[t])[i])]
        /\ pos' = [pos EXCEPT ![t] = i]
        /\ UNCHANGED <<headers, pc, blob, fd, tmp, path, runs, damages>>

WriteFails(t) ==
    /\ pc[t] = "write"
    /\ tmp' = [tmp EXCEPT ![Process[t]] = 0]
    /\ SaveEnds(t)
    /\ UNCHANGED <<headers, path, content, runs, damages>>

(* The name is given to whatever the temporary name stands for by now. *)
Rename(t) ==
    /\ pc[t] = "write" /\ pos[t] = Len(Pieces(blob[t]))
    /\ path' = IF tmp[Process[t]] # 0 THEN tmp[Process[t]] ELSE path
    /\ tmp' = [tmp EXCEPT ![Process[t]] = 0]
    /\ SaveEnds(t)
    /\ UNCHANGED <<headers, content, runs, damages>>

-----------------------------------------------------------------------------
(* A process dies; the next one of that number finds its temporary file. *)
Crash(p) ==
    LET own == {t \in Threads : Process[t] = p}
    IN  /\ \E t \in own : pc[t] # "none"
        /\ pc' = [t \in Threads |-> IF t \in own THEN "none" ELSE pc[t]]
        /\ headers' = [t \in Threads |-> IF t \in own THEN {} ELSE headers[t]]
        /\ blob' = [t \in Threads |-> IF t \in own THEN NoBlob ELSE blob[t]]
        /\ pos' = [t \in Threads |-> IF t \in own THEN 0 ELSE pos[t]]
        /\ fd' = [t \in Threads |-> IF t \in own THEN 0 ELSE fd[t]]
        /\ UNCHANGED <<tmp, path, content, runs, damages>>

(* The file loses its end. *)
Damage ==
    /\ damages < MaxDamages /\ path # 0 /\ Len(content[path]) > 0
    /\ content' = [content EXCEPT ![path] = SubSeq(@, 1, Len(@) - 1)]
    /\ damages' = damages + 1
    /\ UNCHANGED <<headers, pc, blob, pos, fd, tmp, path, runs>>

Next ==
    \/ \E t \in Threads : \/ Construct(t) \/ Run(t) \/ Open(t) \/ OpenFails(t)
                          \/ Write(t) \/ WriteFails(t) \/ Rename(t)
    \/ \E p \in Processes : Crash(p)
    \/ Damage

Spec == Init /\ [][Next]_vars

-----------------------------------------------------------------------------
(* A sampler's cache has keys of its own law only, whatever the file holds. *)
LoadedIsOwn == \A t \in Threads : headers[t] \subseteq Keys[LawOf[t]]

=============================================================================
