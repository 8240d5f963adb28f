--------------------------- MODULE PlanCacheProofs ---------------------------
(***************************************************************************)
(* Proofs about PlanCache, for every set of keys and files and every bound.*)
(***************************************************************************)
EXTENDS PlanCache, SumLemmas, FiniteSetTheorems, TLAPS

(* What every reachable cache satisfies, and the next step keeps. *)
IInv ==
    /\ TypeOK
    /\ KeyUnique
    /\ FifoListsResident
    /\ ParkIsCurrent
    /\ TableMatchesKey

-----------------------------------------------------------------------------
(* Replacing one plan by another keeps the sequence of plans one, and all   *)
(* the other plans as they are.                                             *)
LEMMA Replace ==
    ASSUME NEW ps \in Seq(CachedPlan), NEW i \in DOMAIN ps, NEW q \in CachedPlan
    PROVE  LET qs == [ps EXCEPT ![i] = q]
           IN  /\ qs \in Seq(CachedPlan)
               /\ DOMAIN qs = DOMAIN ps
               /\ qs[i] = q
               /\ \A j \in DOMAIN ps \ {i} : qs[j] = ps[j]
  OBVIOUS

(* A new header at the end keeps the plans there were.                      *)
LEMMA AddHeader ==
    ASSUME NEW ps \in Seq(CachedPlan), NEW k \in Keys
    PROVE  LET qs == Append(ps, NewHeader(k))
           IN  /\ qs \in Seq(CachedPlan)
               /\ DOMAIN qs = DOMAIN ps \cup {Len(ps) + 1}
               /\ Len(ps) + 1 \notin DOMAIN ps
               /\ qs[Len(ps) + 1] = NewHeader(k)
               /\ \A j \in DOMAIN ps : qs[j] = ps[j]
  <1>1. NewHeader(k) \in CachedPlan
    BY DEF NewHeader, CachedPlan
  <1> QED
    BY <1>1

(* The payload operators build plan records.                                *)
LEMMA PayloadTypes ==
    ASSUME NEW p \in CachedPlan, NEW t \in Keys \cup {NoTable}
    PROVE  /\ WithPayload(p, t) \in CachedPlan
           /\ WithoutPayload(p) \in CachedPlan
           /\ PayloadBytes(p) \in Nat
  BY ConstantsAssumption DEF WithPayload, WithoutPayload, PayloadBytes, CachedPlan

-----------------------------------------------------------------------------
(* Initially nothing is resident and the keys of the loaded file differ.    *)
LEMMA InitIInv == Init => IInv
<1> SUFFICES ASSUME NEW f \in Files, EmptyCache(f)
             PROVE  IInv
  BY DEF Init
<1>1. f \in Seq(Keys) /\ \A i, j \in DOMAIN f : f[i] = f[j] => i = j
  BY ConstantsAssumption
<1>2. /\ plans \in Seq(CachedPlan)
      /\ DOMAIN plans = DOMAIN f
      /\ \A i \in DOMAIN f : plans[i] = NewHeader(f[i])
  <2>1. \A i \in DOMAIN f : NewHeader(f[i]) \in CachedPlan
    BY <1>1 DEF NewHeader, CachedPlan
  <2> QED
    BY <1>1, <2>1 DEF EmptyCache, LoadedHeaders
<1>3. Live = {} /\ Resident = {}
  BY <1>2 DEF EmptyCache, Live, Resident, NewHeader
<1>4. TypeOK
  BY <1>2 DEF TypeOK, EmptyCache, Stats
<1>5. KeyUnique
  BY <1>1, <1>2 DEF KeyUnique, NewHeader
<1>6. FifoListsResident
  BY <1>3 DEF FifoListsResident
<1>7. ParkIsCurrent
  BY DEF EmptyCache, ParkIsCurrent
<1>8. TableMatchesKey
  BY <1>2 DEF TableMatchesKey, NewHeader
<1> QED
  BY <1>4, <1>5, <1>6, <1>7, <1>8 DEF IInv

-----------------------------------------------------------------------------
LEMMA OneMore ==
    \A h, n \in Nat : h <= n => /\ (h + 1)..(n + 1) = (h + 1)..n \cup {n + 1}
                               /\ n + 1 \notin (h + 1)..n
  OBVIOUS

(* A plan that is not resident gets a payload: the FIFO gains it at its     *)
(* back, and the plan is not in the FIFO's live part before.  ps is the     *)
(* sequence of plans the payload is installed in: plans, or plans with one  *)
(* header more.                                                             *)
LEMMA InstallKeeps ==
    ASSUME IInv,
           NEW ps \in Seq(CachedPlan),
           DOMAIN plans \subseteq DOMAIN ps,
           \A j \in DOMAIN plans : ps[j] = plans[j],
           \A j \in DOMAIN ps \ DOMAIN plans : ~ps[j].resident /\ ps[j].table = NoTable,
           \A j, l \in DOMAIN ps : ps[j].key = ps[l].key => j = l,
           NEW i \in DOMAIN ps, ~ps[i].resident,
           NEW t \in {NoTable, ps[i].key},
           plans' = [ps EXCEPT ![i] = WithPayload(ps[i], t)],
           fifo' = Installed(ps, i),
           head' = head
    PROVE  /\ plans' \in Seq(CachedPlan)
           /\ DOMAIN plans' = DOMAIN ps
           /\ fifo' \in Seq(DOMAIN plans')
           /\ head' \in 0..Len(fifo')
           /\ KeyUnique'
           /\ FifoListsResident'
           /\ TableMatchesKey'
           /\ plans'[i].resident
           /\ plans'[i].key = ps[i].key
           /\ \A j \in DOMAIN plans \ {i} : plans'[j] = plans[j]
<1>1. /\ plans \in Seq(CachedPlan) /\ fifo \in Seq(DOMAIN plans)
      /\ head \in 0..Len(fifo)
  BY DEF IInv, TypeOK
<1>2. ps[i] \in CachedPlan /\ t \in Keys \cup {NoTable}
  <2>1. ps[i] \in CachedPlan
    OBVIOUS
  <2>2. ps[i].key \in Keys
    BY <2>1 DEF CachedPlan
  <2> QED
    BY <2>1, <2>2
<1>3. WithPayload(ps[i], t) \in CachedPlan
  BY <1>2, PayloadTypes
<1>4. /\ plans' \in Seq(CachedPlan)
      /\ DOMAIN plans' = DOMAIN ps
      /\ plans'[i] = WithPayload(ps[i], t)
      /\ \A j \in DOMAIN ps \ {i} : plans'[j] = ps[j]
  BY <1>3, Replace
<1>5. /\ plans'[i].resident /\ plans'[i].key = ps[i].key /\ plans'[i].table = t
  BY <1>4 DEF WithPayload
<1>6. /\ fifo' \in Seq(DOMAIN plans')
      /\ Len(fifo') = Len(fifo) + 1
      /\ fifo'[Len(fifo) + 1] = i
      /\ \A j \in 1..Len(fifo) : fifo'[j] = fifo[j]
  BY <1>1, <1>4 DEF Installed
<1>7. Live' = Live \cup {Len(fifo) + 1} /\ Len(fifo) + 1 \notin Live
  <2>1. head \in Nat /\ Len(fifo) \in Nat /\ head <= Len(fifo)
    BY <1>1
  <2> QED
    BY <1>6, <2>1, OneMore DEF Live
<1>8. \A j \in Live : /\ fifo'[j] = fifo[j] /\ fifo[j] \in DOMAIN plans
                       /\ plans[fifo[j]].resident
  <2>1. \A j \in Live : j \in 1..Len(fifo)
    BY <1>1 DEF Live
  <2>2. \A j \in Live : fifo[j] \in DOMAIN plans
    BY <1>1, <2>1
  <2> QED
    BY <1>6, <2>1, <2>2 DEF IInv, FifoListsResident
<1>9. \A j \in Live : fifo[j] # i
  BY <1>8
<1>10. KeyUnique'
  BY <1>4, <1>5 DEF KeyUnique
<1>11. FifoListsResident'
  <2>1. \A j \in Live' : plans'[fifo'[j]].resident
    BY <1>4, <1>5, <1>6, <1>7, <1>8, <1>9
  <2>2. \A j \in Resident' : \E l \in Live' : fifo'[l] = j
    <3>1. Resident' \subseteq Resident \cup {i}
      BY <1>4 DEF Resident
    <3>2. \A j \in Resident : \E l \in Live : fifo[l] = j
      BY DEF IInv, FifoListsResident
    <3> QED
      BY <1>6, <1>7, <1>8, <3>1, <3>2
  <2>3. \A j, l \in Live' : fifo'[j] = fifo'[l] => j = l
    <3>1. \A j, l \in Live : fifo[j] = fifo[l] => j = l
      BY DEF IInv, FifoListsResident
    <3> QED
      BY <1>6, <1>7, <1>8, <1>9, <3>1
  <2> QED
    BY <2>1, <2>2, <2>3 DEF FifoListsResident
<1>12. TableMatchesKey'
  BY <1>4, <1>5 DEF TableMatchesKey, IInv
<1> QED
  BY <1>1, <1>4, <1>5, <1>6, <1>10, <1>11, <1>12

-----------------------------------------------------------------------------
(* One plan changes where no invariant but its type looks: same key, same   *)
(* residence, and a table that is its key's or the one it had.              *)
LEMMA ChangeKeeps ==
    ASSUME IInv,
           NEW i \in DOMAIN plans,
           NEW q \in CachedPlan,
           q.key = plans[i].key,
           q.resident = plans[i].resident,
           q.table # NoTable => q.resident /\ q.table = q.key,
           plans' = [plans EXCEPT ![i] = q],
           UNCHANGED <<fifo, head, parkPlan, parkLaw>>
    PROVE  /\ plans' \in Seq(CachedPlan)
           /\ DOMAIN plans' = DOMAIN plans
           /\ KeyUnique'
           /\ FifoListsResident'
           /\ ParkIsCurrent'
           /\ TableMatchesKey'
<1>1. /\ plans \in Seq(CachedPlan) /\ fifo \in Seq(DOMAIN plans)
      /\ head \in 0..Len(fifo) /\ parkPlan \in {0} \cup DOMAIN plans
  BY DEF IInv, TypeOK
<1>2. /\ plans' \in Seq(CachedPlan)
      /\ DOMAIN plans' = DOMAIN plans
      /\ plans'[i] = q
      /\ \A j \in DOMAIN plans \ {i} : plans'[j] = plans[j]
  BY <1>1, Replace
<1>3. \A j \in DOMAIN plans : /\ plans'[j].key = plans[j].key
                              /\ plans'[j].resident = plans[j].resident
  BY <1>2
<1>4. Live' = Live /\ Resident' = Resident
  BY <1>2, <1>3 DEF Live, Resident
<1>5. \A j \in Live : fifo[j] \in DOMAIN plans
  BY <1>1 DEF Live
<1>6. KeyUnique'
  BY <1>2, <1>3 DEF KeyUnique, IInv
<1>7. FifoListsResident'
  BY <1>3, <1>4, <1>5 DEF FifoListsResident, IInv
<1>8. ParkIsCurrent'
  BY <1>1, <1>3 DEF ParkIsCurrent, IInv
<1>9. TableMatchesKey'
  BY <1>2 DEF TableMatchesKey, IInv
<1> QED
  BY <1>2, <1>6, <1>7, <1>8, <1>9

-----------------------------------------------------------------------------
(* The entry evict_oldest drops is the first live one.                      *)
LEMMA OldestIsFirst ==
    ASSUME IInv, \E j \in Live : plans[fifo[j]].resident
    PROVE  Oldest = head + 1 /\ head + 1 \in Live
<1>1. /\ fifo \in Seq(DOMAIN plans) /\ head \in 0..Len(fifo)
      /\ \A j \in Live : plans[fifo[j]].resident
  BY DEF IInv, TypeOK, FifoListsResident
<1>2. head + 1 \in Live /\ \A l \in Live : head + 1 <= l
  BY <1>1 DEF Live
<1>3. Oldest \in Live /\ \A l \in Live : Oldest <= l
  BY <1>1, <1>2 DEF Oldest
<1> QED
  BY <1>1, <1>2, <1>3 DEF Live

(* Consuming n entries shortens the live part from its front, whether the   *)
(* prefix is erased or not.                                                 *)
LEMMA ConsumeShifts ==
    ASSUME NEW S, fifo \in Seq(S), NEW n \in 0..Len(fifo), Consume(n)
    PROVE  /\ fifo' \in Seq(S)
           /\ head' \in 0..Len(fifo')
           /\ Len(fifo') - head' = Len(fifo) - n
           /\ \A j \in (head' + 1)..Len(fifo') :
                 /\ j - head' + n \in (n + 1)..Len(fifo)
                 /\ fifo'[j] = fifo[j - head' + n]
<1>1. CASE fifo' = SubSeq(fifo, n + 1, Len(fifo)) /\ head' = 0
  <2>1. /\ fifo' \in Seq(S) /\ Len(fifo') = Len(fifo) - n
        /\ \A j \in 1..(Len(fifo) - n) : fifo'[j] = fifo[j + n]
    BY <1>1
  <2> QED
    BY <1>1, <2>1
<1>2. CASE fifo' = fifo /\ head' = n
  BY <1>2
<1> QED
  BY <1>1, <1>2 DEF Consume

-----------------------------------------------------------------------------
(* find answers with the header of the key, or says there is none.          *)
LEMMA FindIs ==
    ASSUME plans \in Seq(CachedPlan), NEW k
    PROVE  /\ Find(k) # 0 => Find(k) \in DOMAIN plans /\ plans[Find(k)].key = k
           /\ Find(k) = 0 => \A i \in DOMAIN plans : plans[i].key # k
<1>1. 0 \notin HeadersOf(k)
  BY DEF HeadersOf
<1>2. CASE HeadersOf(k) = {}
  BY <1>2 DEF Find, HeadersOf
<1>3. CASE HeadersOf(k) # {}
  <2>1. Find(k) \in HeadersOf(k)
    BY <1>3 DEF Find
  <2> QED
    BY <1>1, <2>1 DEF HeadersOf
<1> QED
  BY <1>2, <1>3

(* A header for a key that had none, without payload.                       *)
LEMMA HeaderKeeps ==
    ASSUME IInv,
           NEW k \in Keys,
           Find(k) = 0,
           plans' = Append(plans, NewHeader(k)),
           UNCHANGED <<fifo, head>>,
           \/ parkPlan' = 0
           \/ UNCHANGED <<parkPlan, parkLaw>>
    PROVE  /\ plans' \in Seq(CachedPlan)
           /\ DOMAIN plans \subseteq DOMAIN plans'
           /\ fifo' \in Seq(DOMAIN plans')
           /\ KeyUnique'
           /\ FifoListsResident'
           /\ ParkIsCurrent'
           /\ TableMatchesKey'
<1>1. /\ plans \in Seq(CachedPlan) /\ fifo \in Seq(DOMAIN plans)
      /\ head \in 0..Len(fifo) /\ parkPlan \in {0} \cup DOMAIN plans
  BY DEF IInv, TypeOK
<1> DEFINE n == Len(plans) + 1
<1>2. /\ plans' \in Seq(CachedPlan)
      /\ DOMAIN plans' = DOMAIN plans \cup {n}
      /\ n \notin DOMAIN plans
      /\ plans'[n] = NewHeader(k)
      /\ \A j \in DOMAIN plans : plans'[j] = plans[j]
  BY <1>1, AddHeader
<1>3. /\ plans'[n].key = k /\ ~plans'[n].resident /\ plans'[n].table = NoTable
  BY <1>2 DEF NewHeader
<1> HIDE DEF n
<1>4. Live' = Live /\ Resident' = Resident
  BY <1>2, <1>3 DEF Live, Resident
<1>5. \A j \in Live : fifo[j] \in DOMAIN plans
  BY <1>1 DEF Live
<1>6. fifo' \in Seq(DOMAIN plans')
  BY <1>1, <1>2
<1>7. KeyUnique'
  <2>1. \A i \in DOMAIN plans : plans[i].key # k
    BY <1>1, FindIs
  <2> QED
    BY <1>2, <1>3, <2>1 DEF KeyUnique, IInv
<1>8. FifoListsResident'
  BY <1>2, <1>4, <1>5 DEF FifoListsResident, IInv
<1>9. ParkIsCurrent'
  BY <1>1, <1>2 DEF ParkIsCurrent, IInv
<1>10. TableMatchesKey'
  BY <1>2, <1>3 DEF TableMatchesKey, IInv
<1> QED
  BY <1>2, <1>6, <1>7, <1>8, <1>9, <1>10

(* Counting keeps the counters natural numbers.                             *)
LEMMA CountTypes ==
    ASSUME NEW s \in Stats
    PROVE  /\ [s EXCEPT !.hits = @ + 1] \in Stats
           /\ [s EXCEPT !.misses = @ + 1] \in Stats
           /\ [s EXCEPT !.rebuilds = @ + 1] \in Stats
           /\ [s EXCEPT !.installs = @ + 1] \in Stats
           /\ [s EXCEPT !.evictions = @ + 1] \in Stats
           /\ \A d \in Nat : [s EXCEPT !.unparked = @ + d] \in Stats
           /\ [s EXCEPT !.misses = @ + 1, !.installs = @ + 1] \in Stats
           /\ [s EXCEPT !.rebuilds = @ + 1, !.installs = @ + 1] \in Stats
<1>1. \A c \in Stats : /\ [c EXCEPT !.misses = @ + 1] \in Stats
                       /\ [c EXCEPT !.rebuilds = @ + 1] \in Stats
                       /\ [c EXCEPT !.installs = @ + 1] \in Stats
  BY DEF Stats
<1>2. /\ [s EXCEPT !.hits = @ + 1] \in Stats
      /\ [s EXCEPT !.evictions = @ + 1] \in Stats
      /\ \A d \in Nat : [s EXCEPT !.unparked = @ + d] \in Stats
  BY DEF Stats
<1> DEFINE missed == [s EXCEPT !.misses = @ + 1]
           rebuilt == [s EXCEPT !.rebuilds = @ + 1]
<1>3. /\ [missed EXCEPT !.installs = @ + 1] \in Stats
      /\ [rebuilt EXCEPT !.installs = @ + 1] \in Stats
  BY <1>1
<1>4. /\ [s EXCEPT !.misses = @ + 1, !.installs = @ + 1] = [missed EXCEPT !.installs = @ + 1]
      /\ [s EXCEPT !.rebuilds = @ + 1, !.installs = @ + 1] = [rebuilt EXCEPT !.installs = @ + 1]
  BY DEF Stats
<1> QED
  BY <1>1, <1>2, <1>3, <1>4

-----------------------------------------------------------------------------
(* get_or_build keeps the invariant, on a hit, a miss, a rebuild and when   *)
(* the builder throws.                                                      *)
LEMMA GetKeeps ==
    ASSUME IInv, NEW k \in DiagKeys, NEW nf \in DiagKeys, NEW verify \in BOOLEAN,
           GetOrBuild(k, nf, verify)
    PROVE  IInv'
<1>1. /\ plans \in Seq(CachedPlan) /\ fifo \in Seq(DOMAIN plans)
      /\ head \in 0..Len(fifo) /\ parkPlan \in {0} \cup DOMAIN plans
      /\ parkLaw \in Keys \cup {NoTable} /\ residentBytes \in Int /\ stats \in Stats
  BY DEF IInv, TypeOK
<1>2. k \in Keys /\ nf \in Keys
  BY DEF Keys
<1>3. CASE GetHit(k, nf, verify)
  <2>1. stats' \in Stats
    BY <1>1, <1>3, CountTypes DEF GetHit
  <2>2. UNCHANGED <<plans, fifo, head, parkPlan, parkLaw, residentBytes>>
    BY <1>3 DEF GetHit
  <2> QED
    BY <1>1, <2>1, <2>2 DEF IInv, TypeOK, KeyUnique, FifoListsResident,
                            ParkIsCurrent, TableMatchesKey, Live, Resident
<1>4. CASE GetMiss(k, nf, verify)
  <2> DEFINE ps == Append(plans, NewHeader(k))
             n == Len(plans) + 1
  <2>1. Find(k) = 0 /\ nf = k
    BY <1>4 DEF GetMiss, Refused, KeyEncodes
  <2>2. \A j \in DOMAIN plans : plans[j].key # k
    BY <1>1, <2>1, FindIs
  <2>3. /\ ps \in Seq(CachedPlan)
        /\ DOMAIN ps = DOMAIN plans \cup {n}
        /\ n \notin DOMAIN plans
        /\ ps[n] = NewHeader(k)
        /\ \A j \in DOMAIN plans : ps[j] = plans[j]
    BY <1>1, <1>2, AddHeader
  <2>4. ps[n].key = k /\ ~ps[n].resident /\ ps[n].table = NoTable
    BY <2>3 DEF NewHeader
  <2>5. CASE BuildPayload(ps, n, nf) /\ stats' = [stats EXCEPT !.misses = @ + 1,
                                                              !.installs = @ + 1]
    <3> HIDE DEF ps, n
    <3>1. /\ plans' = [ps EXCEPT ![n] = WithPayload(ps[n], NoTable)]
          /\ fifo' = Installed(ps, n) /\ head' = head
          /\ parkPlan' = n /\ parkLaw' = nf /\ residentBytes' = residentBytes
      BY <2>5 DEF BuildPayload
    <3>2. \A j, l \in DOMAIN ps : ps[j].key = ps[l].key => j = l
      BY <2>2, <2>3, <2>4 DEF IInv, KeyUnique
    <3>3. /\ plans' \in Seq(CachedPlan)
          /\ DOMAIN plans' = DOMAIN ps
          /\ fifo' \in Seq(DOMAIN plans')
          /\ head' \in 0..Len(fifo')
          /\ KeyUnique' /\ FifoListsResident' /\ TableMatchesKey'
          /\ plans'[n].resident
          /\ plans'[n].key = ps[n].key
      <4>1. \A j \in DOMAIN ps \ DOMAIN plans : ~ps[j].resident /\ ps[j].table = NoTable
        BY <2>3, <2>4
      <4>2. DOMAIN plans \subseteq DOMAIN ps /\ n \in DOMAIN ps
        BY <2>3
      <4> QED
        BY <2>3, <2>4, <3>1, <3>2, <4>1, <4>2, InstallKeeps
    <3>4. ParkIsCurrent'
      BY <2>1, <2>4, <3>1, <3>3 DEF ParkIsCurrent
    <3>5. stats' \in Stats
      BY <1>1, <2>5, CountTypes
    <3>6. TypeOK'
      BY <1>1, <1>2, <2>3, <3>1, <3>3, <3>5 DEF TypeOK
    <3> QED
      BY <3>3, <3>4, <3>6 DEF IInv
  <2>6. CASE BuildThrows(ps) /\ stats' = [stats EXCEPT !.misses = @ + 1]
    <3>1. /\ plans' = Append(plans, NewHeader(k)) /\ UNCHANGED <<fifo, head, residentBytes>>
          /\ parkPlan' = 0 /\ parkLaw' = NoTable
      BY <2>6 DEF BuildThrows
    <3>2. /\ plans' \in Seq(CachedPlan) /\ fifo' \in Seq(DOMAIN plans')
          /\ KeyUnique' /\ FifoListsResident' /\ ParkIsCurrent' /\ TableMatchesKey'
      BY <1>2, <2>1, <3>1, HeaderKeeps
    <3>3. stats' \in Stats
      BY <1>1, <2>6, CountTypes
    <3> QED
      BY <1>1, <3>1, <3>2, <3>3 DEF IInv, TypeOK
  <2> QED
    BY <1>4, <2>5, <2>6 DEF GetMiss
<1>5. CASE GetRebuild(k, nf, verify)
  <2> DEFINE i == Find(k)
  <2>1. i \in DOMAIN plans /\ plans[i].key = k /\ ~plans[i].resident
    BY <1>1, <1>5, FindIs DEF GetRebuild
  <2>2. nf = k
    BY <1>5 DEF GetRebuild, Refused, KeyEncodes
  <2>3. CASE BuildPayload(plans, i, nf) /\ stats' = [stats EXCEPT !.rebuilds = @ + 1,
                                                                 !.installs = @ + 1]
    <3> HIDE DEF i
    <3>1. /\ plans' = [plans EXCEPT ![i] = WithPayload(plans[i], NoTable)]
          /\ fifo' = Installed(plans, i) /\ head' = head
          /\ parkPlan' = i /\ parkLaw' = nf /\ residentBytes' = residentBytes
      BY <2>3 DEF BuildPayload
    <3>2. /\ plans' \in Seq(CachedPlan)
          /\ DOMAIN plans' = DOMAIN plans
          /\ fifo' \in Seq(DOMAIN plans')
          /\ head' \in 0..Len(fifo')
          /\ KeyUnique' /\ FifoListsResident' /\ TableMatchesKey'
          /\ plans'[i].resident
          /\ plans'[i].key = plans[i].key
      <4>1. \A j, l \in DOMAIN plans : plans[j].key = plans[l].key => j = l
        BY DEF IInv, KeyUnique
      <4> QED
        BY <1>1, <2>1, <3>1, <4>1, InstallKeeps
    <3>3. ParkIsCurrent'
      BY <2>1, <2>2, <3>1, <3>2 DEF ParkIsCurrent
    <3>4. stats' \in Stats
      BY <1>1, <2>3, CountTypes
    <3>5. TypeOK'
      BY <1>1, <1>2, <2>1, <3>1, <3>2, <3>4 DEF TypeOK
    <3> QED
      BY <3>2, <3>3, <3>5 DEF IInv
  <2>4. CASE BuildThrows(plans) /\ stats' = [stats EXCEPT !.rebuilds = @ + 1]
    <3>1. UNCHANGED <<plans, fifo, head, residentBytes>> /\ parkPlan' = 0 /\ parkLaw' = NoTable
      BY <2>4 DEF BuildThrows
    <3>2. stats' \in Stats
      BY <1>1, <2>4, CountTypes
    <3> QED
      BY <1>1, <3>1, <3>2 DEF IInv, TypeOK, KeyUnique, FifoListsResident,
                              ParkIsCurrent, TableMatchesKey, Live, Resident
  <2> QED
    BY <1>5, <2>3, <2>4 DEF GetRebuild
<1> QED
  BY <1>3, <1>4, <1>5 DEF GetOrBuild

-----------------------------------------------------------------------------
(* The lazy table, taken from the parked core or built from the stored key. *)
LEMMA EnsureKeeps ==
    ASSUME IInv, NEW i \in DOMAIN plans, EnsureRec(i)
    PROVE  IInv'
<1>1. /\ plans \in Seq(CachedPlan) /\ fifo \in Seq(DOMAIN plans)
      /\ head \in 0..Len(fifo) /\ parkPlan \in {0} \cup DOMAIN plans
      /\ parkLaw \in Keys \cup {NoTable} /\ residentBytes \in Int /\ stats \in Stats
  BY DEF IInv, TypeOK
<1> DEFINE t == TableLaw(i)
           q == [plans[i] EXCEPT !.table = t, !.nodes = 0]
           b == PayloadBytes(q)
           r == [q EXCEPT !.bytes = b]
<1>2. plans[i] \in CachedPlan /\ plans[i].key \in Keys
  <2>1. plans[i] \in CachedPlan
    BY <1>1
  <2> QED
    BY <2>1 DEF CachedPlan
<1>3. t = plans[i].key
  BY <1>1 DEF TableLaw, ParkedFor, IInv, ParkIsCurrent
<1>4. q \in CachedPlan
  BY <1>2, <1>3 DEF CachedPlan
<1>5. b \in Nat
  BY <1>4, PayloadTypes
<1>6. r \in CachedPlan
  BY <1>4, <1>5 DEF CachedPlan
<1>7. r.key = plans[i].key /\ r.resident = plans[i].resident /\ r.table = plans[i].key
  BY <1>2, <1>3 DEF CachedPlan
<1>8. plans[i].resident
  BY DEF EnsureRec
<1>9. /\ plans' = [plans EXCEPT ![i] = r]
      /\ residentBytes' = (residentBytes - plans[i].bytes) + b
      /\ UNCHANGED <<fifo, head, parkPlan, parkLaw>>
  BY DEF EnsureRec, Reaccounted
<1> HIDE DEF r, b
<1>10. /\ plans' \in Seq(CachedPlan) /\ DOMAIN plans' = DOMAIN plans
       /\ KeyUnique' /\ FifoListsResident' /\ ParkIsCurrent' /\ TableMatchesKey'
  BY <1>6, <1>7, <1>8, <1>9, ChangeKeeps
<1>11. residentBytes' \in Int
  BY <1>1, <1>2, <1>5, <1>9 DEF CachedPlan
<1>12. stats' \in Stats
  <2> DEFINE d == IF ParkedFor(i) THEN 0 ELSE 1
  <2>1. stats' = [stats EXCEPT !.unparked = @ + d]
    BY DEF EnsureRec
  <2>2. d \in Nat
    OBVIOUS
  <2> QED
    BY <1>1, <2>1, <2>2, CountTypes
<1> QED
  BY <1>1, <1>9, <1>10, <1>11, <1>12 DEF IInv, TypeOK

(* A walk that grows the trie, whether it is charged or has thrown.         *)
LEMMA GrowKeeps ==
    ASSUME IInv, NEW i \in DOMAIN plans, NEW n \in Nat,
           GrowTrie(i, n) \/ GrowTrieThrows(i, n)
    PROVE  IInv'
<1>1. /\ plans \in Seq(CachedPlan) /\ fifo \in Seq(DOMAIN plans)
      /\ head \in 0..Len(fifo) /\ parkPlan \in {0} \cup DOMAIN plans
      /\ parkLaw \in Keys \cup {NoTable} /\ residentBytes \in Int /\ stats \in Stats
  BY DEF IInv, TypeOK
<1> DEFINE q == [plans[i] EXCEPT !.nodes = n]
           b == PayloadBytes(q)
           r == [q EXCEPT !.bytes = b]
<1>2. plans[i] \in CachedPlan
  BY <1>1
<1>3. q \in CachedPlan
  BY <1>2 DEF CachedPlan
<1>4. b \in Nat
  BY <1>3, PayloadTypes
<1>5. r \in CachedPlan
  BY <1>3, <1>4 DEF CachedPlan
<1>6. plans[i].table # NoTable => plans[i].resident /\ plans[i].table = plans[i].key
  BY DEF IInv, TableMatchesKey
<1>7. /\ q.key = plans[i].key /\ q.resident = plans[i].resident /\ q.table = plans[i].table
      /\ r.key = plans[i].key /\ r.resident = plans[i].resident /\ r.table = plans[i].table
  BY <1>2 DEF CachedPlan
<1>8. UNCHANGED <<fifo, head, parkPlan, parkLaw, stats>>
  BY DEF GrowTrie, GrowTrieThrows
<1>9. \/ plans' = [plans EXCEPT ![i] = r] /\ residentBytes' = (residentBytes - plans[i].bytes) + b
      \/ plans' = [plans EXCEPT ![i] = q] /\ residentBytes' = residentBytes
  BY DEF GrowTrie, GrowTrieThrows, Reaccounted
<1> HIDE DEF r, b, q
<1>10. /\ plans' \in Seq(CachedPlan) /\ DOMAIN plans' = DOMAIN plans
       /\ KeyUnique' /\ FifoListsResident' /\ ParkIsCurrent' /\ TableMatchesKey'
  BY <1>3, <1>5, <1>6, <1>7, <1>8, <1>9, ChangeKeeps
<1>11. residentBytes' \in Int
  BY <1>1, <1>2, <1>4, <1>9 DEF CachedPlan
<1> QED
  BY <1>1, <1>8, <1>10, <1>11 DEF IInv, TypeOK

-----------------------------------------------------------------------------
(* The permanent header of an arena key. *)
LEMMA ArenaHeaderKeeps ==
    ASSUME IInv, NEW k \in ArenaKeys, ArenaHeader(k)
    PROVE  IInv'
<1>1. /\ head \in 0..Len(fifo) /\ parkPlan \in {0} \cup DOMAIN plans
      /\ parkLaw \in Keys \cup {NoTable} /\ residentBytes \in Int /\ stats \in Stats
  BY DEF IInv, TypeOK
<1>2. /\ Find(k) = 0 /\ plans' = Append(plans, NewHeader(k))
      /\ UNCHANGED <<fifo, head, parkPlan, parkLaw, residentBytes, stats>>
  BY DEF ArenaHeader
<1>3. k \in Keys
  BY DEF Keys
<1>4. /\ plans' \in Seq(CachedPlan) /\ DOMAIN plans \subseteq DOMAIN plans'
      /\ fifo' \in Seq(DOMAIN plans')
      /\ KeyUnique' /\ FifoListsResident' /\ ParkIsCurrent' /\ TableMatchesKey'
  BY <1>2, <1>3, HeaderKeeps
<1> QED
  BY <1>1, <1>2, <1>4 DEF IInv, TypeOK

(* The payload of an arena plan is installed with its table. *)
LEMMA InstallArenaKeeps ==
    ASSUME IInv, NEW i \in DOMAIN plans, InstallArena(i)
    PROVE  IInv'
<1>1. /\ plans \in Seq(CachedPlan) /\ fifo \in Seq(DOMAIN plans)
      /\ head \in 0..Len(fifo) /\ parkPlan \in {0} \cup DOMAIN plans
      /\ parkLaw \in Keys \cup {NoTable} /\ residentBytes \in Int /\ stats \in Stats
  BY DEF IInv, TypeOK
<1>2. /\ plans' = [plans EXCEPT ![i] = WithPayload(plans[i], plans[i].key)]
      /\ fifo' = Installed(plans, i) /\ ~plans[i].resident
      /\ residentBytes' = residentBytes + TableBytes
      /\ stats' = [stats EXCEPT !.installs = @ + 1]
      /\ UNCHANGED <<head, parkPlan, parkLaw>>
  BY DEF InstallArena
<1>3. \A j, l \in DOMAIN plans : plans[j].key = plans[l].key => j = l
  BY DEF IInv, KeyUnique
<1>4. /\ plans' \in Seq(CachedPlan) /\ DOMAIN plans' = DOMAIN plans
      /\ fifo' \in Seq(DOMAIN plans') /\ head' \in 0..Len(fifo')
      /\ KeyUnique' /\ FifoListsResident' /\ TableMatchesKey'
      /\ \A j \in DOMAIN plans \ {i} : plans'[j] = plans[j]
  BY <1>1, <1>2, <1>3, InstallKeeps
<1>5. ParkIsCurrent'
  <2>1. parkPlan # 0 => parkPlan # i
    BY <1>2 DEF IInv, ParkIsCurrent
  <2> QED
    BY <1>1, <1>2, <1>4, <2>1 DEF IInv, ParkIsCurrent
<1>6. residentBytes' \in Int /\ stats' \in Stats
  <2>1. residentBytes' \in Int
    BY <1>1, <1>2, ConstantsAssumption
  <2>2. stats' \in Stats
    BY <1>1, <1>2, CountTypes
  <2> QED
    BY <2>1, <2>2
<1> QED
  BY <1>1, <1>2, <1>4, <1>5, <1>6 DEF IInv, TypeOK

-----------------------------------------------------------------------------
LEMMA ShiftBack ==
    \A l, n, h, L, M \in Int :
       /\ (l - n + h) - h + n = l
       /\ n < l /\ l <= L /\ M - h = L - n => l - n + h \in (h + 1)..M
  OBVIOUS

LEMMA BehindFirst ==
    \A h, n, x, L \in Int : n = h + 1 /\ x \in (n + 1)..L => x \in (h + 1)..L /\ x # n
  OBVIOUS

(* The oldest payload is dropped, with the core parked for it.              *)
LEMMA EvictKeeps ==
    ASSUME IInv, EvictOldest
    PROVE  IInv'
<1>1. /\ plans \in Seq(CachedPlan) /\ fifo \in Seq(DOMAIN plans)
      /\ head \in 0..Len(fifo) /\ parkPlan \in {0} \cup DOMAIN plans
      /\ parkLaw \in Keys \cup {NoTable} /\ residentBytes \in Int /\ stats \in Stats
  BY DEF IInv, TypeOK
<1> DEFINE n == Oldest
           i == fifo[n]
<1>2. n = head + 1 /\ head + 1 \in Live
  BY OldestIsFirst DEF EvictOldest
<1>3. i \in DOMAIN plans /\ plans[i].resident /\ plans[i] \in CachedPlan
  BY <1>1, <1>2 DEF Live, IInv, FifoListsResident
<1>4. /\ plans' = [plans EXCEPT ![i] = WithoutPayload(plans[i])]
      /\ residentBytes' = residentBytes - plans[i].bytes
      /\ parkPlan' = IF parkPlan = i THEN 0 ELSE parkPlan
      /\ parkLaw' = parkLaw
      /\ Consume(n)
      /\ stats' = [stats EXCEPT !.evictions = @ + 1]
  BY DEF EvictOldest, Unpark
<1> HIDE DEF n
<1>5. WithoutPayload(plans[i]) \in CachedPlan
  BY <1>3, PayloadTypes
<1>6. /\ plans' \in Seq(CachedPlan)
      /\ DOMAIN plans' = DOMAIN plans
      /\ plans'[i] = WithoutPayload(plans[i])
      /\ \A j \in DOMAIN plans \ {i} : plans'[j] = plans[j]
  BY <1>1, <1>3, <1>4, <1>5, Replace
<1>7. /\ plans'[i].key = plans[i].key /\ ~plans'[i].resident /\ plans'[i].table = NoTable
  BY <1>6 DEF WithoutPayload
<1>8. /\ fifo' \in Seq(DOMAIN plans)
      /\ head' \in 0..Len(fifo')
      /\ Len(fifo') - head' = Len(fifo) - n
      /\ \A j \in (head' + 1)..Len(fifo') :
            /\ j - head' + n \in (n + 1)..Len(fifo)
            /\ fifo'[j] = fifo[j - head' + n]
  <2>1. n \in 0..Len(fifo)
    BY <1>1, <1>2 DEF Live
  <2> QED
    BY <1>1, <1>4, <2>1, ConsumeShifts
<1>9. Resident' = Resident \ {i}
  BY <1>6, <1>7 DEF Resident
<1>10. KeyUnique'
  BY <1>6, <1>7 DEF KeyUnique, IInv
<1>11. FifoListsResident'
  <2>1. /\ \A j \in Live : fifo[j] \in DOMAIN plans /\ plans[fifo[j]].resident
        /\ \A j \in Resident : \E l \in Live : fifo[l] = j
        /\ \A j, l \in Live : fifo[j] = fifo[l] => j = l
    BY <1>1 DEF Live, IInv, FifoListsResident
  <2>2. \A j \in Live' : /\ j - head' + n \in Live
                        /\ j - head' + n # n
                        /\ fifo'[j] = fifo[j - head' + n]
    <3> SUFFICES ASSUME NEW j \in Live'
                 PROVE  /\ j - head' + n \in Live
                        /\ j - head' + n # n
                        /\ fifo'[j] = fifo[j - head' + n]
      OBVIOUS
    <3>1. j \in (head' + 1)..Len(fifo')
      BY DEF Live
    <3>2. j - head' + n \in (n + 1)..Len(fifo) /\ fifo'[j] = fifo[j - head' + n]
      BY <1>8, <3>1
    <3>3. n \in Int /\ j - head' + n \in Int /\ head \in Int /\ Len(fifo) \in Int
      BY <1>1, <1>2, <1>8, <3>1, <3>2
    <3>4. j - head' + n \in (head + 1)..Len(fifo) /\ j - head' + n # n
      BY <1>2, <3>2, <3>3, BehindFirst
    <3> QED
      BY <3>2, <3>4 DEF Live
  <2>3. \A l \in Live : l # n => /\ l - n + head' \in Live'
                                /\ fifo'[l - n + head'] = fifo[l]
    <3> SUFFICES ASSUME NEW l \in Live, l # n
                 PROVE  /\ l - n + head' \in Live'
                        /\ fifo'[l - n + head'] = fifo[l]
      OBVIOUS
    <3>1. n \in Int /\ head' \in Int /\ l \in Int /\ n < l /\ l <= Len(fifo)
      BY <1>1, <1>2, <1>8 DEF Live
    <3>2. l - n + head' \in (head' + 1)..Len(fifo')
      <4>1. Len(fifo) \in Int /\ Len(fifo') \in Int
        BY <1>1, <1>8
      <4> QED
        BY <1>8, <3>1, <4>1, ShiftBack
    <3>3. fifo'[l - n + head'] = fifo[(l - n + head') - head' + n]
      BY <1>8, <3>2
    <3>4. (l - n + head') - head' + n = l
      BY <3>1, ShiftBack
    <3> QED
      BY <3>2, <3>3, <3>4 DEF Live
  <2>4. n \in Live
    BY <1>2
  <2>5. \A j \in Live' : fifo'[j] # i
    BY <2>1, <2>2, <2>4
  <2>6. \A j \in Live' : plans'[fifo'[j]].resident
    BY <1>6, <2>1, <2>2, <2>5
  <2>7. \A j \in Resident' : \E l \in Live' : fifo'[l] = j
    BY <1>9, <2>1, <2>3
  <2>8. \A j, l \in Live' : fifo'[j] = fifo'[l] => j = l
    <3> SUFFICES ASSUME NEW j \in Live', NEW l \in Live', fifo'[j] = fifo'[l]
                 PROVE  j = l
      OBVIOUS
    <3>1. j - head' + n = l - head' + n
      BY <2>1, <2>2
    <3> QED
      BY <1>1, <1>2, <1>8, <3>1 DEF Live
  <2> QED
    BY <2>6, <2>7, <2>8 DEF FifoListsResident
<1>12. ParkIsCurrent'
  BY <1>1, <1>3, <1>4, <1>6 DEF ParkIsCurrent, IInv
<1>13. TableMatchesKey'
  BY <1>6, <1>7 DEF TableMatchesKey, IInv
<1>14. residentBytes' \in Int /\ stats' \in Stats
  <2>1. residentBytes' \in Int
    BY <1>1, <1>3, <1>4 DEF CachedPlan
  <2>2. stats' \in Stats
    BY <1>1, <1>4, CountTypes
  <2> QED
    BY <2>1, <2>2
<1> QED
  BY <1>1, <1>4, <1>6, <1>8, <1>10, <1>11, <1>12, <1>13, <1>14 DEF IInv, TypeOK

(* Nothing to evict: the FIFO's live part was empty already. *)
LEMMA EvictNothingKeeps ==
    ASSUME IInv, EvictNothing
    PROVE  IInv'
<1>1. /\ fifo \in Seq(DOMAIN plans) /\ head \in 0..Len(fifo)
  BY DEF IInv, TypeOK
<1>2. Live = {}
  BY DEF IInv, FifoListsResident, EvictNothing
<1>3. head = Len(fifo)
  <2>1. head \in Nat /\ Len(fifo) \in Nat /\ head <= Len(fifo)
    BY <1>1
  <2>2. ~(head < Len(fifo))
    <3> SUFFICES ASSUME head < Len(fifo) PROVE FALSE
      OBVIOUS
    <3>1. head + 1 \in Live
      BY <2>1 DEF Live
    <3> QED
      BY <1>2, <3>1
  <2> QED
    BY <2>1, <2>2
<1> QED
  BY <1>1, <1>3 DEF EvictNothing, IInv, TypeOK, KeyUnique, FifoListsResident,
                    ParkIsCurrent, TableMatchesKey, Live, Resident

-----------------------------------------------------------------------------
LEMMA NextKeeps == IInv /\ [Next]_vars => IInv'
<1> SUFFICES ASSUME IInv, [Next]_vars
             PROVE  IInv'
  OBVIOUS
<1>1. CASE \E k, nf \in DiagKeys, verify \in BOOLEAN : GetOrBuild(k, nf, verify)
  BY <1>1, GetKeeps
<1>2. CASE \E i \in DOMAIN plans : EnsureRec(i) \/ InstallArena(i)
  BY <1>2, EnsureKeeps, InstallArenaKeeps
<1>7. CASE \E i \in DOMAIN plans, n \in 1..MaxNodes : GrowTrie(i, n) \/ GrowTrieThrows(i, n)
  BY <1>7, GrowKeeps, ConstantsAssumption
<1>3. CASE \E k \in ArenaKeys : ArenaHeader(k)
  BY <1>3, ArenaHeaderKeeps
<1>4. CASE EvictOldest
  BY <1>4, EvictKeeps
<1>5. CASE EvictNothing
  BY <1>5, EvictNothingKeeps
<1>6. CASE UNCHANGED vars
  BY <1>6 DEF vars, IInv, TypeOK, KeyUnique, FifoListsResident, ParkIsCurrent,
              TableMatchesKey, Live, Resident
<1> QED
  BY <1>1, <1>2, <1>3, <1>4, <1>5, <1>6, <1>7 DEF Next

(* The inductive invariant holds in every behaviour of the plan cache.      *)
LEMMA Invariance == Spec => []IInv
  BY InitIInv, NextKeeps, PTL DEF Spec

(* Types of the cache's state, for every constants.                         *)
THEOREM TypeCorrect == Spec => []TypeOK
  BY Invariance, PTL DEF IInv

(* One header per key, whatever order of lookups, misses, builders that     *)
(* throw, file loads and arena installs.                                    *)
THEOREM KeysStayUnique == Spec => []KeyUnique
  BY Invariance, PTL DEF IInv

(* The FIFO's live part lists the resident payloads, each once, across      *)
(* evictions, rebuilds and the erasure of the consumed prefix.              *)
THEOREM FifoIsExact == Spec => []FifoListsResident
  BY Invariance, PTL DEF IInv

(* The core parked for a plan is never that of an evicted payload nor of    *)
(* another key.                                                             *)
THEOREM ParkNeverStale == Spec => []ParkIsCurrent
  BY Invariance, PTL DEF IInv

(* A resident record table is always its own key's.                         *)
THEOREM TablesAreOwn == Spec => []TableMatchesKey
  BY Invariance, PTL DEF IInv

-----------------------------------------------------------------------------
(* Every step that counts an eviction is evict_oldest, and drops the head   *)
(* of the live order.                                                       *)
LEMMA OnlyEvictCounts ==
    ASSUME IInv, [Next]_vars, stats'.evictions # stats.evictions
    PROVE  EvictOldest
<1>1. stats \in Stats
  BY DEF IInv, TypeOK
<1>2. /\ [stats EXCEPT !.hits = @ + 1].evictions = stats.evictions
      /\ [stats EXCEPT !.misses = @ + 1].evictions = stats.evictions
      /\ [stats EXCEPT !.rebuilds = @ + 1].evictions = stats.evictions
      /\ [stats EXCEPT !.installs = @ + 1].evictions = stats.evictions
      /\ [stats EXCEPT !.misses = @ + 1, !.installs = @ + 1].evictions = stats.evictions
      /\ [stats EXCEPT !.rebuilds = @ + 1, !.installs = @ + 1].evictions = stats.evictions
      /\ \A d : [stats EXCEPT !.unparked = @ + d].evictions = stats.evictions
  BY <1>1 DEF Stats
<1>3. ASSUME NEW k \in DiagKeys, NEW nf \in DiagKeys, NEW verify \in BOOLEAN,
             GetOrBuild(k, nf, verify)
      PROVE  FALSE
  BY <1>2, <1>3 DEF GetOrBuild, GetHit, GetMiss, GetRebuild
<1>4. ASSUME NEW i \in DOMAIN plans, EnsureRec(i)
      PROVE  FALSE
  BY <1>2, <1>4 DEF EnsureRec
<1>5. ASSUME NEW i \in DOMAIN plans, NEW n \in 1..MaxNodes,
             GrowTrie(i, n) \/ GrowTrieThrows(i, n)
      PROVE  FALSE
  BY <1>2, <1>5 DEF GrowTrie, GrowTrieThrows
<1>8. ASSUME NEW i \in DOMAIN plans, InstallArena(i)
      PROVE  FALSE
  BY <1>2, <1>8 DEF InstallArena
<1>6. ASSUME NEW k \in ArenaKeys, ArenaHeader(k)
      PROVE  FALSE
  BY <1>6 DEF ArenaHeader
<1>7. ~EvictNothing /\ ~UNCHANGED vars
  BY DEF EvictNothing, vars
<1> QED
  BY <1>3, <1>4, <1>5, <1>6, <1>7, <1>8 DEF Next

LEMMA ShiftOn ==
    \A j, m, h, L \in Int : j \in 1..(m - 1) /\ m - 1 = L - h => h + j \in (h + 1)..L
  OBVIOUS

LEMMA ShiftCancels ==
    \A j, h, k \in Int : (h + j) - h + (k + 1) = k + (j + 1)
  OBVIOUS

LEMMA EvictionOrder ==
    ASSUME IInv, EvictOldest
    PROVE  LiveOrder' = Tail(LiveOrder)
<1>1. /\ fifo \in Seq(DOMAIN plans) /\ head \in 0..Len(fifo)
  BY DEF IInv, TypeOK
<1> DEFINE n == Oldest
<1>2. n = head + 1 /\ head + 1 \in Live
  BY OldestIsFirst DEF EvictOldest
<1>3. Consume(n) /\ n \in 0..Len(fifo)
  BY <1>1, <1>2 DEF EvictOldest, Live
<1> HIDE DEF n
<1>4. /\ fifo' \in Seq(DOMAIN plans)
      /\ head' \in 0..Len(fifo')
      /\ Len(fifo') - head' = Len(fifo) - n
      /\ \A j \in (head' + 1)..Len(fifo') :
            /\ j - head' + n \in (n + 1)..Len(fifo)
            /\ fifo'[j] = fifo[j - head' + n]
  BY <1>1, <1>3, ConsumeShifts
<1> DEFINE m == Len(fifo) - head
<1>5. /\ m \in Nat /\ m > 0 /\ m - 1 = Len(fifo') - head'
      /\ Len(fifo) \in Nat /\ Len(fifo') \in Nat /\ head \in Nat /\ head' \in Nat
  BY <1>1, <1>2, <1>3, <1>4
<1>6. LiveOrder = [j \in 1..m |-> fifo[head + j]]
  BY DEF LiveOrder
<1>7. Tail(LiveOrder) = [j \in 1..(m - 1) |-> fifo[head + (j + 1)]]
  <2>1. \A j \in 1..m : fifo[head + j] \in DOMAIN plans
    BY <1>1, <1>5
  <2>2. LiveOrder \in Seq(DOMAIN plans) /\ Len(LiveOrder) = m
    BY <1>5, <1>6, <2>1
  <2> QED
    BY <1>5, <1>6, <2>2
<1>8. LiveOrder' = [j \in 1..(m - 1) |-> fifo'[head' + j]]
  BY <1>5 DEF LiveOrder
<1>9. \A j \in 1..(m - 1) : fifo'[head' + j] = fifo[head + (j + 1)]
  <2> SUFFICES ASSUME NEW j \in 1..(m - 1)
               PROVE  fifo'[head' + j] = fifo[head + (j + 1)]
    OBVIOUS
  <2> j \in Int /\ m \in Int /\ head \in Int /\ head' \in Int /\ Len(fifo') \in Int
    BY <1>5
  <2> HIDE DEF m
  <2>1. head' + j \in (head' + 1)..Len(fifo')
    BY <1>5, ShiftOn
  <2>2. fifo'[head' + j] = fifo[(head' + j) - head' + n]
    BY <1>4, <2>1
  <2>3. (head' + j) - head' + (head + 1) = head + (j + 1)
    BY ShiftCancels
  <2> QED
    BY <1>2, <2>2, <2>3
<1> QED
  BY <1>7, <1>8, <1>9

(* The payload evicted is always the one installed longest ago.             *)
THEOREM OldestGoesFirst == Spec => EvictsFirstIn
<1>1. IInv /\ [Next]_vars => [FirstOut]_vars
  BY OnlyEvictCounts, EvictionOrder DEF FirstOut
<1> QED
  BY <1>1, Invariance, PTL DEF Spec, EvictsFirstIn

-----------------------------------------------------------------------------
(* The ledger: what each plan is charged, and what the cache has charged.   *)
Charged(p) ==
    /\ ~p.resident => PayloadBytes(p) = 0 /\ p.bytes = 0
    /\ p.bytes <= PayloadBytes(p)

LEMMA PlansAreFinite ==
    ASSUME NEW ps \in Seq(CachedPlan)
    PROVE  /\ IsFiniteSet(DOMAIN ps)
           /\ \A i \in DOMAIN ps : ps[i].bytes \in Int
<1>1. Len(ps) \in Nat /\ DOMAIN ps = 1..Len(ps)
  OBVIOUS
<1>2. IsFiniteSet(DOMAIN ps)
  BY <1>1, FS_Interval
<1>3. ASSUME NEW i \in DOMAIN ps PROVE ps[i].bytes \in Int
  <2>1. ps[i] \in CachedPlan
    OBVIOUS
  <2> QED
    BY <2>1 DEF CachedPlan
<1> QED
  BY <1>2, <1>3

LEMMA SumBytesIs ==
    LET f == [i \in DOMAIN plans |-> plans[i].bytes]
        g == [i \in DOMAIN plans' |-> plans'[i].bytes]
    IN  /\ SumBytes = SumFunctionOnSet(f, DOMAIN plans)
        /\ SumBytes' = SumFunctionOnSet(g, DOMAIN plans')
  BY DEF SumBytes, SumFunction

(* One plan's charge moves, and resident_bytes_ with it. *)
LEMMA MoveIsAccounted ==
    ASSUME plans \in Seq(CachedPlan), plans' \in Seq(CachedPlan), BytesAccounted,
           NEW i \in DOMAIN plans,
           DOMAIN plans' = DOMAIN plans,
           \A j \in DOMAIN plans \ {i} : plans'[j] = plans[j],
           Charged(plans'[i]),
           residentBytes' = residentBytes - plans[i].bytes + plans'[i].bytes
    PROVE  BytesAccounted'
<1> DEFINE D == DOMAIN plans
           f == [j \in DOMAIN plans |-> plans[j].bytes]
           g == [j \in DOMAIN plans' |-> plans'[j].bytes]
<1>1. IsFiniteSet(D) /\ \A j \in D : f[j] \in Int /\ g[j] \in Int
  BY PlansAreFinite
<1>2. \A j \in D \ {i} : g[j] = f[j]
  OBVIOUS
<1>3. SumBytes = SumFunctionOnSet(f, D) /\ SumBytes' = SumFunctionOnSet(g, D)
  BY SumBytesIs
<1>4. f[i] = plans[i].bytes /\ g[i] = plans'[i].bytes /\ i \in D
  OBVIOUS
<1>5. residentBytes' = SumBytes'
  <2> HIDE DEF f, g, D
  <2>1. SumFunctionOnSet(g, D) = SumFunctionOnSet(f, D) - f[i] + g[i]
    BY <1>1, <1>2, <1>4, SumChange
  <2> QED
    BY <1>3, <1>4, <2>1 DEF BytesAccounted
<1>6. \A j \in DOMAIN plans' : Charged(plans'[j])
  BY DEF BytesAccounted, Charged
<1> QED
  BY <1>5, <1>6 DEF BytesAccounted, Charged, PayloadBytes

(* One header more, charged nothing. *)
LEMMA HeaderIsAccounted ==
    ASSUME plans \in Seq(CachedPlan), plans' \in Seq(CachedPlan), BytesAccounted,
           NEW n, n \notin DOMAIN plans,
           DOMAIN plans' = DOMAIN plans \cup {n},
           \A j \in DOMAIN plans : plans'[j] = plans[j],
           Charged(plans'[n]), plans'[n].bytes = 0,
           residentBytes' = residentBytes
    PROVE  BytesAccounted'
<1> DEFINE D == DOMAIN plans
           f == [j \in DOMAIN plans |-> plans[j].bytes]
           g == [j \in DOMAIN plans' |-> plans'[j].bytes]
<1>1. /\ IsFiniteSet(D) /\ \A j \in D : f[j] \in Int /\ g[j] = f[j]
      /\ IsFiniteSet(D \cup {n}) /\ \A j \in D \cup {n} : g[j] \in Int
  BY PlansAreFinite
<1>2. n \in D \cup {n} /\ (D \cup {n}) \ {n} = D /\ g[n] = 0
  OBVIOUS
<1>3. SumBytes = SumFunctionOnSet(f, D) /\ SumBytes' = SumFunctionOnSet(g, D \cup {n})
  BY SumBytesIs
<1>4. SumBytes' = SumBytes
  <2> HIDE DEF f, g, D
  <2>1. SumFunctionOnSet(g, D \cup {n}) = g[n] + SumFunctionOnSet(g, (D \cup {n}) \ {n})
    BY <1>1, <1>2, SumRemove
  <2>2. SumFunctionOnSet(g, D) = SumFunctionOnSet(f, D)
    BY <1>1, SumSame
  <2>3. SumFunctionOnSet(f, D) \in Int
    BY <1>1, SumType
  <2>4. SumFunctionOnSet(g, D \cup {n}) = 0 + SumFunctionOnSet(g, D)
    BY <1>2, <2>1
  <2>5. SumFunctionOnSet(g, D \cup {n}) = SumFunctionOnSet(f, D)
    BY <2>2, <2>3, <2>4
  <2> QED
    BY <1>3, <2>5
<1>5. \A j \in DOMAIN plans' : Charged(plans'[j])
  BY DEF BytesAccounted, Charged
<1> QED
  BY <1>4, <1>5 DEF BytesAccounted, Charged, PayloadBytes

(* A lookup: a header and an empty payload are charged nothing. *)
LEMMA GetIsAccounted ==
    ASSUME IInv, plans' \in Seq(CachedPlan), BytesAccounted,
           NEW k \in DiagKeys, NEW nf \in DiagKeys, NEW verify \in BOOLEAN,
           GetOrBuild(k, nf, verify)
    PROVE  BytesAccounted'
<1>1. plans \in Seq(CachedPlan) /\ residentBytes \in Int /\ k \in Keys
  BY DEF IInv, TypeOK, Keys
<1>2. CASE GetHit(k, nf, verify)
  BY <1>2 DEF GetHit, BytesAccounted, SumBytes
<1>3. CASE GetMiss(k, nf, verify)
  <2> DEFINE ps == Append(plans, NewHeader(k))
             n == Len(plans) + 1
  <2>1. /\ ps \in Seq(CachedPlan) /\ DOMAIN ps = DOMAIN plans \cup {n}
        /\ n \notin DOMAIN plans /\ ps[n] = NewHeader(k)
        /\ \A j \in DOMAIN plans : ps[j] = plans[j]
    BY <1>1, AddHeader
  <2>2. /\ residentBytes' = residentBytes
        /\ plans' = ps \/ plans' = [ps EXCEPT ![n] = WithPayload(ps[n], NoTable)]
    BY <1>3 DEF GetMiss, BuildPayload, BuildThrows
  <2> HIDE DEF ps, n
  <2>3. /\ DOMAIN plans' = DOMAIN plans \cup {n}
        /\ \A j \in DOMAIN plans : plans'[j] = plans[j]
        /\ plans'[n] = NewHeader(k) \/ plans'[n] = WithPayload(NewHeader(k), NoTable)
    BY <2>1, <2>2
  <2>4. plans'[n].bytes = 0 /\ Charged(plans'[n])
    BY <2>3 DEF Charged, NewHeader, WithPayload, PayloadBytes
  <2> QED
    BY <1>1, <2>1, <2>2, <2>3, <2>4, HeaderIsAccounted
<1>4. CASE GetRebuild(k, nf, verify)
  <2> DEFINE i == Find(k)
  <2>1. i \in DOMAIN plans /\ ~plans[i].resident
    BY <1>1, <1>4, FindIs DEF GetRebuild
  <2>2. /\ residentBytes' = residentBytes
        /\ plans' = plans \/ plans' = [plans EXCEPT ![i] = WithPayload(plans[i], NoTable)]
    BY <1>4 DEF GetRebuild, BuildPayload, BuildThrows
  <2> HIDE DEF i
  <2>3. plans[i].bytes = 0
    BY <2>1 DEF BytesAccounted
  <2>4. CASE plans' = plans
    BY <2>2, <2>4 DEF BytesAccounted, SumBytes
  <2>5. CASE plans' = [plans EXCEPT ![i] = WithPayload(plans[i], NoTable)]
    <3>1. /\ DOMAIN plans' = DOMAIN plans /\ plans'[i] = WithPayload(plans[i], NoTable)
          /\ \A j \in DOMAIN plans \ {i} : plans'[j] = plans[j]
      BY <2>1, <2>5
    <3>2. plans'[i].bytes = 0 /\ Charged(plans'[i])
      BY <3>1 DEF Charged, WithPayload, PayloadBytes
    <3> QED
      BY <1>1, <2>1, <2>2, <2>3, <3>1, <3>2, MoveIsAccounted
  <2> QED
    BY <2>2, <2>4, <2>5
<1> QED
  BY <1>2, <1>3, <1>4 DEF GetOrBuild

(* A table, a trie that grows, an arena payload: one plan is charged anew.  *)
LEMMA PlanIsAccounted ==
    ASSUME IInv, plans' \in Seq(CachedPlan), BytesAccounted, NEW i \in DOMAIN plans,
           \/ EnsureRec(i)
           \/ InstallArena(i)
           \/ \E n \in 1..MaxNodes : GrowTrie(i, n) \/ GrowTrieThrows(i, n)
    PROVE  BytesAccounted'
<1>1. plans \in Seq(CachedPlan) /\ residentBytes \in Int /\ plans[i] \in CachedPlan
  BY DEF IInv, TypeOK
<1>2. plans[i].bytes \in Nat /\ plans[i].nodes \in Nat
  BY <1>1 DEF CachedPlan
<1>3. ASSUME NEW q, q.resident, DOMAIN q = DOMAIN plans[i], Reaccounted(i, q)
      PROVE  BytesAccounted'
  <2> DEFINE r == [q EXCEPT !.bytes = PayloadBytes(q)]
  <2>1. /\ plans' = [plans EXCEPT ![i] = r]
        /\ residentBytes' = (residentBytes - plans[i].bytes) + PayloadBytes(q)
    BY <1>3 DEF Reaccounted
  <2>2. DOMAIN q = {"key", "built", "resident", "table", "nodes", "bytes"}
    BY <1>1, <1>3 DEF CachedPlan
  <2>3. r.bytes = PayloadBytes(q) /\ r.resident /\ r.table = q.table /\ r.nodes = q.nodes
    BY <1>3, <2>2
  <2> HIDE DEF r
  <2>4. /\ DOMAIN plans' = DOMAIN plans /\ plans'[i] = r
        /\ \A j \in DOMAIN plans \ {i} : plans'[j] = plans[j]
    BY <1>1, <2>1
  <2>5. PayloadBytes(r) = r.bytes /\ r.bytes \in Int
    <3>1. plans'[i] \in CachedPlan
      BY <2>4
    <3> QED
      BY <2>3, <2>4, <3>1 DEF PayloadBytes, CachedPlan
  <2>6. Charged(plans'[i])
    BY <2>3, <2>4, <2>5 DEF Charged
  <2>7. residentBytes' = residentBytes - plans[i].bytes + plans'[i].bytes
    BY <2>1, <2>3, <2>4
  <2> QED
    BY <1>1, <2>4, <2>6, <2>7, MoveIsAccounted
<1>4. CASE EnsureRec(i)
  <2> DEFINE q == [plans[i] EXCEPT !.table = TableLaw(i), !.nodes = 0]
  <2>1. Reaccounted(i, q) /\ plans[i].resident
    BY <1>4 DEF EnsureRec
  <2>2. q.resident /\ DOMAIN q = DOMAIN plans[i]
    BY <1>1, <2>1 DEF CachedPlan
  <2> HIDE DEF q
  <2> QED
    BY <1>3, <2>1, <2>2
<1>5. CASE InstallArena(i)
  <2>1. /\ plans' = [plans EXCEPT ![i] = WithPayload(plans[i], plans[i].key)]
        /\ residentBytes' = residentBytes + TableBytes /\ ~plans[i].resident
    BY <1>5 DEF InstallArena
  <2>2. /\ DOMAIN plans' = DOMAIN plans /\ plans'[i] = WithPayload(plans[i], plans[i].key)
        /\ \A j \in DOMAIN plans \ {i} : plans'[j] = plans[j]
    BY <1>1, <2>1
  <2>3. plans[i].key # NoTable
    BY <1>1, ConstantsAssumption DEF CachedPlan
  <2>4. plans'[i].bytes = TableBytes /\ PayloadBytes(plans'[i]) = TableBytes + 0 /\ plans'[i].resident
    BY <2>2, <2>3 DEF WithPayload, PayloadBytes
  <2>5. plans[i].bytes = 0
    BY <2>1 DEF BytesAccounted
  <2>6. Charged(plans'[i]) /\ residentBytes' = residentBytes - plans[i].bytes + plans'[i].bytes
    BY <1>1, <2>1, <2>4, <2>5, ConstantsAssumption DEF Charged
  <2> QED
    BY <1>1, <2>2, <2>6, MoveIsAccounted
<1>6. ASSUME NEW n \in 1..MaxNodes, GrowTrie(i, n) PROVE BytesAccounted'
  <2> DEFINE q == [plans[i] EXCEPT !.nodes = n]
  <2>1. Reaccounted(i, q) /\ plans[i].resident
    BY <1>6 DEF GrowTrie
  <2>2. q.resident /\ DOMAIN q = DOMAIN plans[i]
    BY <1>1, <2>1 DEF CachedPlan
  <2> HIDE DEF q
  <2> QED
    BY <1>3, <2>1, <2>2
<1>7. ASSUME NEW n \in 1..MaxNodes, GrowTrieThrows(i, n) PROVE BytesAccounted'
  <2>1. /\ plans' = [plans EXCEPT ![i].nodes = n] /\ residentBytes' = residentBytes
        /\ plans[i].resident /\ plans[i].table # NoTable /\ plans[i].nodes < n /\ n \in Nat
    BY <1>7, ConstantsAssumption DEF GrowTrieThrows
  <2>2. /\ DOMAIN plans' = DOMAIN plans
        /\ \A j \in DOMAIN plans \ {i} : plans'[j] = plans[j]
        /\ plans'[i] = [plans[i] EXCEPT !.nodes = n]
    BY <1>1, <2>1
  <2>3. /\ plans'[i].bytes = plans[i].bytes /\ plans'[i].resident
        /\ plans'[i].nodes = n /\ plans'[i].table = plans[i].table
    BY <1>1, <2>1, <2>2 DEF CachedPlan
  <2>4. plans[i].bytes <= TableBytes + plans[i].nodes
    BY <2>1 DEF BytesAccounted, PayloadBytes
  <2>5. PayloadBytes(plans'[i]) = TableBytes + n
    BY <2>1, <2>3 DEF PayloadBytes
  <2>6. Charged(plans'[i])
    BY <1>2, <2>1, <2>3, <2>4, <2>5, ConstantsAssumption DEF Charged
  <2>7. residentBytes' = residentBytes - plans[i].bytes + plans'[i].bytes
    BY <1>1, <1>2, <2>1, <2>3
  <2> QED
    BY <1>1, <2>2, <2>6, <2>7, MoveIsAccounted
<1> QED
  BY <1>4, <1>5, <1>6, <1>7

LEMMA StepIsAccounted ==
    ASSUME IInv, IInv', BytesAccounted, [Next]_vars
    PROVE  BytesAccounted'
<1>1. plans \in Seq(CachedPlan) /\ residentBytes \in Int /\ plans' \in Seq(CachedPlan)
  BY DEF IInv, TypeOK
<1>2. CASE \E k, nf \in DiagKeys, verify \in BOOLEAN : GetOrBuild(k, nf, verify)
  BY <1>1, <1>2, GetIsAccounted
<1>3. CASE \E i \in DOMAIN plans :
              \/ EnsureRec(i)
              \/ InstallArena(i)
              \/ \E n \in 1..MaxNodes : GrowTrie(i, n) \/ GrowTrieThrows(i, n)
  BY <1>1, <1>3, PlanIsAccounted
<1>4. CASE \E k \in ArenaKeys : ArenaHeader(k)
  <2>1. PICK k \in ArenaKeys : ArenaHeader(k)
    BY <1>4
  <2> DEFINE n == Len(plans) + 1
  <2>2. plans' = Append(plans, NewHeader(k)) /\ residentBytes' = residentBytes /\ k \in Keys
    BY <2>1 DEF ArenaHeader, Keys
  <2>3. /\ DOMAIN plans' = DOMAIN plans \cup {n} /\ n \notin DOMAIN plans
        /\ plans'[n] = NewHeader(k) /\ \A j \in DOMAIN plans : plans'[j] = plans[j]
    BY <1>1, <2>2, AddHeader
  <2> HIDE DEF n
  <2>4. plans'[n].bytes = 0 /\ Charged(plans'[n])
    BY <2>3 DEF Charged, NewHeader, PayloadBytes
  <2> QED
    BY <1>1, <2>2, <2>3, <2>4, HeaderIsAccounted
<1>5. CASE EvictOldest
  <2> DEFINE i == fifo[Oldest]
  <2>1. Oldest \in Live
    BY <1>5, OldestIsFirst DEF EvictOldest
  <2>2. i \in DOMAIN plans
    BY <2>1 DEF IInv, TypeOK, Live
  <2>3. /\ plans' = [plans EXCEPT ![i] = WithoutPayload(plans[i])]
        /\ residentBytes' = residentBytes - plans[i].bytes
    BY <1>5 DEF EvictOldest
  <2> HIDE DEF i
  <2>4. /\ DOMAIN plans' = DOMAIN plans /\ plans'[i] = WithoutPayload(plans[i])
        /\ \A j \in DOMAIN plans \ {i} : plans'[j] = plans[j]
    BY <1>1, <2>2, <2>3
  <2>5. plans'[i].bytes = 0 /\ Charged(plans'[i])
    BY <2>4 DEF Charged, WithoutPayload, PayloadBytes
  <2>6. plans[i].bytes \in Int
    BY <1>1, <2>2, PlansAreFinite
  <2>7. residentBytes' = residentBytes - plans[i].bytes + plans'[i].bytes
    BY <1>1, <2>3, <2>5, <2>6
  <2> QED
    BY <1>1, <2>2, <2>4, <2>5, <2>7, MoveIsAccounted
<1>6. CASE EvictNothing \/ UNCHANGED vars
  BY <1>6 DEF EvictNothing, vars, BytesAccounted, SumBytes
<1> QED
  BY <1>2, <1>3, <1>4, <1>5, <1>6 DEF Next

LEMMA InitIsAccounted == Init => BytesAccounted
<1> SUFFICES ASSUME NEW file \in Files, EmptyCache(file)
             PROVE  BytesAccounted
  BY DEF Init
<1>1. \A i \in DOMAIN plans : plans[i] = NewHeader(file[i])
  BY DEF EmptyCache, LoadedHeaders
<1>2. \A i \in DOMAIN plans : plans[i].bytes = 0 /\ Charged(plans[i])
  BY <1>1 DEF NewHeader, Charged, PayloadBytes
<1>3. plans \in Seq(CachedPlan)
  BY InitIInv DEF Init, IInv, TypeOK
<1> DEFINE f == [i \in DOMAIN plans |-> plans[i].bytes]
<1>4. SumBytes = SumFunctionOnSet(f, DOMAIN plans)
  BY SumBytesIs
<1>5. IsFiniteSet(DOMAIN plans) /\ \A i \in DOMAIN plans : f[i] = 0
  BY <1>2, <1>3, PlansAreFinite
<1>6. SumBytes = 0
  <2> HIDE DEF f
  <2> QED
    BY <1>4, <1>5, SumZero
<1> QED
  BY <1>2, <1>6 DEF EmptyCache, BytesAccounted, Charged

(* resident_bytes() is at every moment the sum of the charges of the        *)
(* resident plans: a walk that throws leaves a plan undercharged, never the *)
(* sum wrong, and an evicted plan takes back exactly what it was charged.   *)
THEOREM BytesStayAccounted == Spec => []BytesAccounted
<1>1. IInv /\ IInv' /\ BytesAccounted /\ [Next]_vars => BytesAccounted'
  BY StepIsAccounted
<1> QED
  BY <1>1, InitIsAccounted, Invariance, PTL DEF Spec

=============================================================================
