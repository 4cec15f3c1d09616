----------------------- MODULE StoragePrefetchTheorems -----------------------
(***************************************************************************)
(* The steps that settle, abort and drain prefetches, and the results:     *)
(* StorageInv holds throughout, for any requests, prompts, pool size and   *)
(* stop policy.                                                            *)
(***************************************************************************)
EXTENDS StoragePrefetchProofs, FiniteSetTheorems, WellFoundedInduction

-----------------------------------------------------------------------------
(* Aborting and settling a prefetch *)

(* An entry goes *)

\* The entry of r is popped: its operation i is told to stop and its anchor released.
Popped(r, i) ==
    /\ ops' = [ops EXCEPT ![i].terminated = TRUE] /\ ongoing' = [ongoing EXCEPT ![r] = 0]
    /\ hostRef' = ReleaseHost(hostRef, AnchorOf(ops[i]))
    /\ UNCHANGED <<data, prefetchQ, buffer, io, revokeQ, storage, backups, backupQ, ackQ>>

\* What popping an entry does to operations and entries.
LEMMA PoppedOps ==
  ASSUME StorageInv, NEW r \in Requests, NEW i, i = ongoing[r], i # 0, Popped(r, i)
  PROVE  /\ i \in DOMAIN ops /\ ops[i].rid = r
         /\ ops' \in Seq(Operation) /\ DOMAIN ops' = DOMAIN ops
         /\ \A j \in DOMAIN ops :
               /\ ops'[j].rid = ops[j].rid /\ ops'[j].base = ops[j].base /\ ops'[j].len = ops[j].len
               /\ ops'[j].pages = ops[j].pages /\ ops'[j].held = ops[j].held /\ ops'[j].hash = ops[j].hash
               /\ ops'[j].completed = ops[j].completed /\ ops'[j].stage = ops[j].stage
         /\ ongoing' \in [Requests -> Nat] /\ ongoing'[r] = 0
         /\ \A s \in Requests : s # r => ongoing'[s] = ongoing[s]
<1>1. i \in DOMAIN ops /\ ops[i].rid = r /\ ops \in Seq(Operation) /\ ongoing \in [Requests -> Nat]
  BY Zenon DEF StorageInv, Entries, Types
<1> DEFINE o2 == [ops[i] EXCEPT !.terminated = TRUE]
<1>2. ops[i] \in Operation
  BY <1>1
<1>3. /\ o2 \in Operation /\ o2.rid = ops[i].rid /\ o2.base = ops[i].base /\ o2.len = ops[i].len
      /\ o2.pages = ops[i].pages /\ o2.held = ops[i].held /\ o2.hash = ops[i].hash
      /\ o2.completed = ops[i].completed /\ o2.stage = ops[i].stage
  BY <1>2, Zenon DEF Operation
<1>4. ops' = [ops EXCEPT ![i] = o2] /\ ongoing' = [ongoing EXCEPT ![r] = 0]
  BY Zenon DEF Popped
<1> HIDE DEF o2
<1>5. ops' \in Seq(Operation) /\ DOMAIN ops' = DOMAIN ops /\ ops'[i] = o2 /\ \A j \in DOMAIN ops : j # i => ops'[j] = ops[j]
  BY <1>1, <1>3, <1>4
<1>6. \A j \in DOMAIN ops :
               /\ ops'[j].rid = ops[j].rid /\ ops'[j].base = ops[j].base /\ ops'[j].len = ops[j].len
               /\ ops'[j].pages = ops[j].pages /\ ops'[j].held = ops[j].held /\ ops'[j].hash = ops[j].hash
               /\ ops'[j].completed = ops[j].completed /\ ops'[j].stage = ops[j].stage
  BY <1>3, <1>5, Zenon
<1>7. ongoing' \in [Requests -> Nat] /\ ongoing'[r] = 0 /\ \A s \in Requests : s # r => ongoing'[s] = ongoing[s]
  BY <1>1, <1>4, Zenon
<1> QED
  BY <1>1, <1>5, <1>6, <1>7, Zenon

\* And to the hands: the operation answers for its uncounted pages only.
LEMMA PoppedHands ==
  ASSUME StorageInv, NEW r \in Requests, NEW i, i = ongoing[r], i # 0, Popped(r, i)
  PROVE  /\ Hand(i) = {ops[i].pages[n] : n \in 1..ops[i].held}
         /\ Hand(i)' = {ops[i].pages[n] : n \in (ops[i].completed + 1)..ops[i].held}
         /\ \A j \in DOMAIN ops : j # i => Hand(j)' = Hand(j)
<1>1. /\ i \in DOMAIN ops /\ ops[i].rid = r /\ DOMAIN ops' = DOMAIN ops
      /\ \A j \in DOMAIN ops : /\ ops'[j].rid = ops[j].rid /\ ops'[j].pages = ops[j].pages
                               /\ ops'[j].held = ops[j].held /\ ops'[j].completed = ops[j].completed
      /\ ongoing'[r] = 0 /\ \A s \in Requests : s # r => ongoing'[s] = ongoing[s]
  BY PoppedOps, Zenon
<1>2. Counted(i) + 1 = 1
  BY <1>1 DEF Counted
<1>3. Counted(i)' = ops[i].completed
  BY <1>1, Zenon DEF Counted
<1>4. ASSUME NEW j \in DOMAIN ops, j # i PROVE Hand(j)' = Hand(j)
  <2>1. ops[j].rid \in Requests /\ j # 0
    BY OpIs, Zenon DEF StorageInv
  <2>2. ongoing'[ops[j].rid] = j <=> ongoing[ops[j].rid] = j
    BY <1>1, <1>4, <2>1, Zenon
  <2>3. Counted(j)' = Counted(j)
    BY <1>1, <2>2, Zenon DEF Counted
  <2>4. ops'[j].pages = ops[j].pages /\ ops'[j].held = ops[j].held
    BY <1>1, Zenon
  <2>5. Hand(j)' = {ops'[j].pages[n] : n \in (Counted(j)' + 1)..ops'[j].held}
    BY Zenon DEF Hand
  <2>6. Hand(j) = {ops[j].pages[n] : n \in (Counted(j) + 1)..ops[j].held}
    BY Zenon DEF Hand
  <2> QED
    BY <2>3, <2>4, <2>5, <2>6, Zenon
<1>5. Hand(i)' = {ops'[i].pages[n] : n \in (Counted(i)' + 1)..ops'[i].held}
  BY Zenon DEF Hand
<1>6. Hand(i) = {ops[i].pages[n] : n \in (Counted(i) + 1)..ops[i].held}
  BY Zenon DEF Hand
<1>7. ops'[i].pages = ops[i].pages /\ ops'[i].held = ops[i].held
  BY <1>1, Zenon
<1>8. Hand(i)' = {ops[i].pages[n] : n \in (ops[i].completed + 1)..ops[i].held}
  BY <1>3, <1>5, <1>7, Zenon
<1>9. Hand(i) = {ops[i].pages[n] : n \in 1..ops[i].held}
  BY <1>2, <1>6, Zenon
<1> QED
  BY <1>4, <1>8, <1>9, Zenon

\* Popping an entry keeps what does not concern its pages.
LEMMA PoppedStep ==
  ASSUME SetFacts, StorageInv, NEW r \in Requests, NEW i, i = ongoing[r], i # 0, Popped(r, i),
         NEW to, where' = [where EXCEPT ![r] = to]
  PROVE  /\ Entries' /\ Stages' /\ EntryData' /\ HostRefsAreExact' /\ BackupsAreOnce'
         /\ hostRef' \in [Paths -> Int]
<1>1. /\ i \in DOMAIN ops /\ ops[i].rid = r /\ DOMAIN ops' = DOMAIN ops
      /\ \A j \in DOMAIN ops :
               /\ ops'[j].rid = ops[j].rid /\ ops'[j].base = ops[j].base /\ ops'[j].len = ops[j].len
               /\ ops'[j].pages = ops[j].pages /\ ops'[j].held = ops[j].held /\ ops'[j].hash = ops[j].hash
               /\ ops'[j].completed = ops[j].completed /\ ops'[j].stage = ops[j].stage
      /\ ongoing'[r] = 0 /\ \A s \in Requests : s # r => ongoing'[s] = ongoing[s]
  BY PoppedOps, Zenon
<1>2. Types /\ Entries /\ Stages /\ DataInv /\ HostInv
  BY Zenon DEF StorageInv
<1>3. UNCHANGED <<data, prefetchQ, buffer, io, revokeQ, storage, backups, backupQ, ackQ>>
  BY Zenon DEF Popped
<1>4. \A s \in Requests : s # r => where'[s] = where[s]
  BY <1>2, Zenon DEF Types
<1>5. Entries'
  BY <1>1, <1>2, <1>4 DEF Entries
<1>6. Stages'
  <2>1. ASSUME NEW j \in DOMAIN ops' PROVE OperationIsSound(ops[j])'
    <3>1. OperationIsSound(ops[j])
      BY <1>1, <1>2, Zenon DEF Stages
    <3> QED
      BY <1>1, <1>3, <3>1, Zenon DEF OperationIsSound, PathAt
  <2>2. QueueOf(prefetchQ, "queued")' /\ QueueOf(buffer, "buffered")'
    BY <1>1, <1>2, <1>3 DEF Stages, QueueOf
  <2>3. IoIsSound'
    <3>1. io.step # "idle" => io.op \in DOMAIN ops
      BY <1>2, Zenon DEF Stages, IoIsSound
    <3> QED
      BY <1>1, <1>2, <1>3, <3>1, Zenon DEF Stages, IoIsSound, PathAt
  <2> QED
    BY <2>1, <2>2, <2>3, Zenon DEF Stages
<1>7. EntryData'
  <2>1. ASSUME NEW s \in Requests, ongoing'[s] # 0 PROVE s # r /\ ongoing'[s] = ongoing[s] /\ ongoing[s] \in DOMAIN ops
    BY <1>1, <1>2, <2>1, Zenon DEF Entries
  <2> QED
    BY <1>1, <1>2, <1>3, <2>1 DEF DataInv, EntryData, PathAt
<1>8. BackupsAreOnce'
  BY <1>2, <1>3, Zenon DEF HostInv, BackupsAreOnce
<1>9. PICK a \in Paths : a = AnchorOf(ops[i])
  BY AnchorIs, Zenon
<1>10. hostRef' \in [Paths -> Int] /\ hostRef'[a] = hostRef[a] - 1 /\ \A p \in Paths : p # a => hostRef'[p] = hostRef[p]
  <2>1. hostRef \in [Paths -> Int] /\ hostRef' = [hostRef EXCEPT ![a] = @ - 1]
    BY <1>2, <1>9, Zenon DEF Types, Popped, ReleaseHost
  <2> QED
    BY <2>1
<1>11. ASSUME NEW p \in Paths PROVE hostRef'[p] = Cardinality(Refs(p)') + Cardinality({p} \cap backups)
  <2>1. \A s \in Requests : s # r => (s \in Refs(p)' <=> s \in Refs(p))
    <3>1. ASSUME NEW s \in Requests, s # r PROVE s \in Refs(p)' <=> s \in Refs(p)
      <4>1. ongoing'[s] = ongoing[s] /\ (ongoing[s] # 0 => ongoing[s] \in DOMAIN ops)
        BY <1>1, <1>2, <3>1, Zenon DEF Entries
      <4>2. ongoing[s] # 0 => AnchorOf(ops'[ongoing'[s]]) = AnchorOf(ops[ongoing[s]])
        BY <1>1, <4>1, Zenon DEF AnchorOf
      <4> QED
        BY <4>1, <4>2, Zenon DEF Refs, AnchorOf
    <3> QED
      BY <3>1, Zenon
  <2>2. r \notin Refs(p)' /\ (r \in Refs(p) <=> a = p)
    BY <1>1, <1>9, Zenon DEF Refs
  <2>3. Refs(p) \subseteq Requests /\ Refs(p)' \subseteq Requests
    BY Zenon DEF Refs
  <2>4. hostRef[p] = Cardinality(Refs(p)) + Cardinality({p} \cap backups)
    BY <1>2, Zenon DEF HostInv, HostRefsAreExact, Refs
  <2>5. IsFiniteSet(Refs(p)) /\ Cardinality(Refs(p)) \in Nat /\ Cardinality({p} \cap backups) \in {0, 1}
    BY RefsAre, OneOf, Zenon
  <2>6. Refs(p)' = Refs(p) \ {r}
    BY <2>1, <2>2, <2>3, Zenon
  <2>7. Cardinality(Refs(p) \ {r}) = IF r \in Refs(p) THEN Cardinality(Refs(p)) - 1 ELSE Cardinality(Refs(p))
    <3>1. CASE r \in Refs(p)
      <4>1. {r} \in SUBSET Refs(p) /\ Cardinality({r}) = 1
        BY <3>1, FewAre, Zenon
      <4> QED
        BY <2>5, <3>1, <4>1, SubsetIs, Zenon
    <3>2. CASE r \notin Refs(p)
      <4>1. Refs(p) \ {r} = Refs(p)
        BY <3>2, Zenon
      <4> QED
        BY <3>2, <4>1, Zenon
    <3> QED
      BY <3>1, <3>2, Zenon
  <2>8. CASE a = p
    BY <1>10, <2>2, <2>4, <2>5, <2>6, <2>7, <2>8
  <2>9. CASE a # p
    BY <1>10, <2>2, <2>4, <2>5, <2>6, <2>7, <2>9, Zenon
  <2> QED
    BY <2>8, <2>9, Zenon
<1>12. HostRefsAreExact'
  BY <1>3, <1>11, Zenon DEF HostRefsAreExact, Refs
<1> QED
  BY <1>5, <1>6, <1>7, <1>8, <1>10, <1>12, Zenon

\* release_aborted_request: the counted pages go to the release queue.
LEMMA AbortStep ==
  ASSUME SetFacts, StorageInv, NEW r \in Requests, ReleaseAbortedRequest(r)
  PROVE  StorageInv'
<1>0. PICK i : i = ongoing[r]
  BY Zenon
<1>1. /\ where[r] = "waiting" /\ where' = [where EXCEPT ![r] = "done"]
      /\ UNCHANGED <<tree, free, data, prefetchQ, buffer, io, revokeQ, backupVars>>
      /\ \/ i = 0 /\ UNCHANGED <<hostRef, opVars, releaseQ>>
         \/ /\ i # 0 /\ ops' = [ops EXCEPT ![i].terminated = TRUE]
            /\ hostRef' = ReleaseHost(hostRef, AnchorOf(ops[i]))
            /\ ongoing' = [ongoing EXCEPT ![r] = 0]
            /\ releaseQ' = releaseQ \o SubSeq(ops[i].pages, 1, ops[i].completed)
  BY <1>0, Zenon DEF ReleaseAbortedRequest, Slots
<1>2. CASE i = 0 /\ UNCHANGED <<hostRef, opVars, releaseQ>>
  BY <1>0, <1>1, <1>2, MoveStep, Zenon DEF hostVars, threadVars
<1>3. CASE /\ i # 0 /\ ops' = [ops EXCEPT ![i].terminated = TRUE]
           /\ hostRef' = ReleaseHost(hostRef, AnchorOf(ops[i]))
           /\ ongoing' = [ongoing EXCEPT ![r] = 0]
           /\ releaseQ' = releaseQ \o SubSeq(ops[i].pages, 1, ops[i].completed)
  <2>1. Popped(r, i)
    BY <1>1, <1>3, Zenon DEF Popped, backupVars
  <2>2. Entries' /\ Stages' /\ EntryData' /\ HostRefsAreExact' /\ BackupsAreOnce' /\ hostRef' \in [Paths -> Int]
    BY <1>0, <1>1, <1>3, <2>1, PoppedStep, Zenon
  <2>3. Types /\ Stages /\ Entries /\ DataInv /\ HostInv /\ Ownership
    BY Zenon DEF StorageInv
  <2>4. /\ i \in DOMAIN ops /\ ops[i].rid = r /\ ops' \in Seq(Operation) /\ DOMAIN ops' = DOMAIN ops
        /\ (\A j \in DOMAIN ops : ops'[j].base = ops[j].base)
        /\ ongoing' \in [Requests -> Nat] /\ ongoing'[r] = 0 /\ \A s \in Requests : s # r => ongoing'[s] = ongoing[s]
    BY <1>0, <1>3, <2>1, PoppedOps
  <2> DEFINE P == ops[i].pages c == ops[i].completed h == ops[i].held q == SubSeq(P, 1, c)
  <2>5. /\ c \in Nat /\ h \in Nat /\ c <= h /\ h <= Len(P) /\ P \in Seq(Pages) /\ IsInjective(P) /\ DOMAIN P = 1..Len(P)
        /\ Len(P) \in Nat
    BY <2>3, <2>4, OpIs, Zenon
  <2>6. /\ Hand(i) = {P[n] : n \in 1..h} /\ Hand(i)' = {P[n] : n \in (c + 1)..h}
        /\ \A j \in DOMAIN ops : j # i => Hand(j)' = Hand(j)
    <3>1. i = ongoing[r] /\ i # 0
      BY <1>0, <1>3, Zenon
    <3>2. /\ Hand(i) = {ops[i].pages[n] : n \in 1..ops[i].held}
          /\ Hand(i)' = {ops[i].pages[n] : n \in (ops[i].completed + 1)..ops[i].held}
          /\ \A j \in DOMAIN ops : j # i => Hand(j)' = Hand(j)
      <4> HIDE DEF P, c, h, q
      <4>1. Hand(i) = {ops[i].pages[n] : n \in 1..ops[i].held}
        BY <2>1, <3>1, PoppedHands
      <4>2. Hand(i)' = {ops[i].pages[n] : n \in (ops[i].completed + 1)..ops[i].held}
        BY <2>1, <3>1, PoppedHands
      <4>3. \A j \in DOMAIN ops : j # i => Hand(j)' = Hand(j)
        BY <2>1, <3>1, PoppedHands, Zenon
      <4> QED
        BY <4>1, <4>2, <4>3, Zenon
    <3> QED
      BY <3>2, Zenon
  <2>7. releaseQ' = releaseQ \o q
    BY <1>3, Zenon
  <2> HIDE DEF P, c, h
  <2>8. q \in Seq(Pages) /\ Range(q) = {P[n] : n \in 1..c} /\ IsInjective(q)
    <3>1. PICK a \in Nat \ {0} : a = 1
      OBVIOUS
    <3>2. c <= Len(P)
      BY <2>5
    <3>3. SubSeq(P, a, c) \in Seq(Pages) /\ Range(SubSeq(P, a, c)) = {P[n] : n \in a..c} /\ IsInjective(SubSeq(P, a, c))
      BY <2>5, <3>2, PartIs
    <3> QED
      BY <3>1, <3>3, Zenon
  <2> HIDE DEF q
  <2>9. Range(q) \subseteq Hand(i) /\ Hand(i)' \subseteq Hand(i) /\ Range(q) \cap Hand(i)' = {}
    <3>1. 1..c \subseteq 1..h /\ (c + 1)..h \subseteq 1..h
      BY <2>5
    <3>2. \A m \in 1..c, n \in (c + 1)..h : m # n /\ m \in DOMAIN P /\ n \in DOMAIN P
      BY <2>5
    <3>3. \A m \in 1..c, n \in (c + 1)..h : P[m] # P[n]
      BY <2>5, <3>2, Zenon DEF IsInjective
    <3>4. Range(q) \subseteq Hand(i) /\ Hand(i)' \subseteq Hand(i)
      BY <2>6, <2>8, <3>1, Zenon
    <3>5. ASSUME NEW x \in Range(q), x \in Hand(i)' PROVE FALSE
      <4>1. PICK m \in 1..c : x = P[m]
        BY <2>8, Zenon
      <4>2. PICK n \in (c + 1)..h : x = P[n]
        BY <2>6, <3>5, Zenon
      <4> QED
        BY <3>3, <4>1, <4>2, Zenon
    <3> QED
      BY <3>4, <3>5, Zenon
  <2> DEFINE F == Range(free) R == Range(releaseQ) T == Range(tree) R2 == Range(releaseQ') H == Hands H2 == Hands'
  <2>10. /\ i \in DOMAIN H /\ H[i] = Hand(i) /\ DOMAIN H2 = DOMAIN H /\ H2[i] = Hand(i)'
         /\ \A j \in DOMAIN H : j # i => H2[j] \subseteq H[j]
    BY <2>4, <2>6, Zenon DEF Hands
  <2>11. Apart(F, R, T, H) /\ releaseQ \in Seq(Pages) /\ IsInjective(releaseQ)
    BY <2>3, Zenon DEF Ownership, Types
  <2>12. Hand(i) \cap (F \cup R \cup T) = {} /\ F \cap R = {} /\ F \cap T = {} /\ R \cap T = {}
    BY <2>10, <2>11, Zenon DEF Apart
  <2>13. releaseQ' \in Seq(Pages) /\ R2 = R \cup Range(q) /\ IsInjective(releaseQ')
    <3>1. R \cap Range(q) = {}
      BY <2>9, <2>12, Zenon
    <3>2. releaseQ \o q \in Seq(Pages) /\ Range(releaseQ \o q) = R \cup Range(q) /\ IsInjective(releaseQ \o q)
      BY <2>8, <2>11, <3>1, JoinIs
    <3> QED
      BY <2>7, <3>2, Zenon
  <2>14. Ownership'
    <3> HIDE DEF F, R, T, R2, H, H2
    <3>1. /\ F \cup R2 \cup T \cup H2[i] \subseteq F \cup R \cup T \cup H[i]
          /\ F \cap R2 = {} /\ F \cap T = {} /\ R2 \cap T = {} /\ H2[i] \cap (F \cup R2 \cup T) = {}
      BY <2>9, <2>10, <2>12, <2>13, Zenon
    <3>2. Apart(F, R2, T, H2)
      BY <2>10, <2>11, <3>1, DealtOut
    <3> QED
      BY <1>1, <2>3, <2>13, <3>2, Zenon DEF Ownership, F, R2, T, H2
  <2>15. Types'
    <3>1. where' \in [Requests -> {"new", "waiting", "running", "done"}]
      BY <1>1, <2>3, Zenon DEF Types
    <3> QED
      BY <1>1, <2>2, <2>3, <2>4, <2>13, <3>1, Zenon DEF Types, backupVars
  <2>16. DataInv'
    BY <1>1, <2>2, <2>3, Zenon DEF DataInv, TreeHoldsItsData, StorageHoldsItsData, backupVars
  <2>17. TreeInv'
    <3>1. \A s \in Requests : ongoing'[s] # 0 => ongoing'[s] = ongoing[s] /\ ongoing[s] \in DOMAIN ops
      BY <2>3, <2>4, Zenon DEF Entries
    <3>2. ClosedIn(tree) /\ AnchorsIn(tree) /\ BackedIn(tree)
      BY <2>3, Zenon DEF HostInv, TreeInv
    <3>3. ClosedIn(tree)' /\ BackedIn(tree)'
      BY <1>1, <3>2, Zenon DEF ClosedIn, BackedIn, backupVars
    <3>4. AnchorsIn(tree)'
      BY <1>1, <2>4, <3>1, <3>2 DEF AnchorsIn
    <3> QED
      BY <3>3, <3>4, Zenon DEF TreeInv
  <2> QED
    BY <2>2, <2>14, <2>15, <2>16, <2>17, Zenon DEF StorageInv, HostInv
<1> QED
  BY <1>1, <1>2, <1>3, Zenon

\* check_prefetch_progress of an operation that may stop: the counted pages
\* go to the tree or back to the pool, the others stay with the operation.
LEMMA SettleStep ==
  ASSUME SetFacts, StorageInv, NEW r \in Requests, NEW i, i = ongoing[r], i # 0, Settle(r, i), Popped(r, i),
         NEW to \in {"waiting", "running"}, where' = [where EXCEPT ![r] = to], releaseQ' = releaseQ
  PROVE  StorageInv'
<1>b. /\ Hand(i) = {ops[i].pages[n] : n \in 1..ops[i].held}
      /\ Hand(i)' = {ops[i].pages[n] : n \in (ops[i].completed + 1)..ops[i].held}
      /\ \A j \in DOMAIN ops : j # i => Hand(j)' = Hand(j)
  <2>1. Hand(i) = {ops[i].pages[n] : n \in 1..ops[i].held}
    BY PoppedHands
  <2>2. Hand(i)' = {ops[i].pages[n] : n \in (ops[i].completed + 1)..ops[i].held}
    BY PoppedHands
  <2>3. \A j \in DOMAIN ops : j # i => Hand(j)' = Hand(j)
    BY PoppedHands
  <2> QED
    BY <2>1, <2>2, <2>3, Zenon
<1>2. UNCHANGED <<data, prefetchQ, buffer, io, revokeQ, storage, backups, backupQ, ackQ>>
  BY Zenon DEF Popped
<1> DEFINE o == ops[i] P == o.pages c == o.completed h == o.held b == o.base
<1>0. PICK m : m = IF Matched(tree, r) - b < c THEN Matched(tree, r) - b ELSE c
  BY Zenon
<1> DEFINE added == {PathAt(o, n) : n \in (m + 1)..c} q == SubSeq(P, 1, m)
<1>1. /\ ops' = [ops EXCEPT ![i].terminated = TRUE] /\ ongoing' = [ongoing EXCEPT ![r] = 0]
      /\ hostRef' = ReleaseHost(hostRef, AnchorOf(ops[i]))
      /\ tree' = [p \in DOMAIN tree \cup added |-> IF p \in added THEN P[Len(p) - b] ELSE tree[p]]
      /\ free' = free \o q
  BY <1>0, Zenon DEF Settle, Slots
<1>3. Entries' /\ Stages' /\ EntryData' /\ HostRefsAreExact' /\ BackupsAreOnce' /\ hostRef' \in [Paths -> Int]
  BY PoppedStep, Zenon
<1>4. Types /\ Stages /\ Entries /\ DataInv /\ HostInv /\ Ownership
  BY Zenon DEF StorageInv
<1>5. /\ i \in DOMAIN ops /\ o.rid = r /\ ops' \in Seq(Operation) /\ DOMAIN ops' = DOMAIN ops
      /\ (\A j \in DOMAIN ops : ops'[j].base = ops[j].base)
      /\ ongoing' \in [Requests -> Nat] /\ ongoing'[r] = 0 /\ \A s \in Requests : s # r => ongoing'[s] = ongoing[s]
  BY PoppedOps, Zenon
<1>6. /\ c \in Nat /\ h \in Nat /\ c <= h /\ h <= Len(P) /\ P \in Seq(Pages) /\ IsInjective(P) /\ DOMAIN P = 1..Len(P)
      /\ Len(P) \in Nat /\ b \in Nat /\ o.len \in Nat /\ b + o.len = Len(Key[r]) /\ Len(P) <= o.len
  BY <1>4, <1>5, OpIs, Zenon
<1>7. /\ Hand(i) = {P[n] : n \in 1..h} /\ Hand(i)' = {P[n] : n \in (c + 1)..h}
      /\ \A j \in DOMAIN ops : j # i => Hand(j)' = Hand(j)
  BY <1>b, Zenon
<1>8. \A n : PathAt(o, n) = Prefix(r, b + n)
  BY <1>5, Zenon DEF PathAt
<1>9. \A n \in 1..c : data[P[n]] = Prefix(r, b + n)
  BY <1>4, <1>8, Zenon DEF DataInv, EntryData
<1>10. ClosedIn(tree) /\ AnchorsIn(tree) /\ BackedIn(tree) /\ Len(Key[r]) \in Nat
  BY <1>4, KeyIs, Zenon DEF HostInv, TreeInv
<1>11. PICK M \in 0..Len(Key[r]) :
          M = Matched(tree, r) /\ \A n \in 1..Len(Key[r]) : Prefix(r, n) \in DOMAIN tree <=> n <= M
  BY <1>10, MatchedIs, Zenon
<1>12. b <= M
  <2>1. \A n \in 1..b : Prefix(r, n) \in DOMAIN tree
    BY <1>10, Zenon DEF AnchorsIn
  <2>2. b \in 1..b => Prefix(r, b) \in DOMAIN tree
    BY <2>1, Zenon
  <2> HIDE DEF b, o
  <2>3. b \in Nat /\ b <= Len(Key[r])
    BY <1>6, <1>10
  <2>4. CASE b = 0
    BY <1>11, <2>4
  <2>5. CASE b # 0
    BY <1>10, <1>11, <2>2, <2>3, <2>5
  <2> QED
    BY <2>4, <2>5, Zenon
<1>13. m \in Nat /\ m <= c /\ (m < c => m = M - b)
  BY <1>0, <1>6, <1>10, <1>11, <1>12
<1>14. added = {Prefix(r, b + n) : n \in (m + 1)..c}
  BY <1>8, Zenon
<1> HIDE DEF o, P, c, h, b, added
<1>15. ASSUME NEW n \in (m + 1)..c
       PROVE  /\ n \in 1..c /\ n \in 1..h /\ n \in DOMAIN P /\ b + n \in 0..Len(Key[r]) /\ b + n \in 1..Len(Key[r])
              /\ Prefix(r, b + n) \in Paths \ {<<>>} /\ Prefix(r, b + n) \notin DOMAIN tree
              /\ Len(Prefix(r, b + n)) - b = n
  <2>1. /\ n \in Nat /\ n \in 1..c /\ n \in 1..h /\ n \in DOMAIN P /\ b + n \in 0..Len(Key[r]) /\ b + n \in 1..Len(Key[r])
        /\ b + n # 0 /\ ~ (b + n <= M)
    BY <1>6, <1>10, <1>11, <1>12, <1>13
  <2>2. Prefix(r, b + n) \in Paths /\ Prefix(r, b + n) # <<>> /\ Len(Prefix(r, b + n)) = b + n
    BY <2>1, PrefixIs, Zenon
  <2>3. Prefix(r, b + n) \notin DOMAIN tree
    BY <1>11, <2>1, Zenon
  <2>4. (b + n) - b = n
    BY <1>6, <2>1
  <2> QED
    BY <2>1, <2>2, <2>3, <2>4, Zenon
<1>16. /\ DOMAIN tree' = DOMAIN tree \cup added /\ added \cap DOMAIN tree = {} /\ added \subseteq Paths \ {<<>>}
       /\ (\A p \in DOMAIN tree : tree'[p] = tree[p])
       /\ \A n \in (m + 1)..c : Prefix(r, b + n) \in DOMAIN tree' /\ tree'[Prefix(r, b + n)] = P[n]
  <2>1. added \cap DOMAIN tree = {} /\ added \subseteq Paths \ {<<>>}
    BY <1>14, <1>15, Zenon
  <2>2. DOMAIN tree' = DOMAIN tree \cup added
    BY <1>1, Zenon
  <2>3. \A p \in DOMAIN tree : tree'[p] = tree[p]
    BY <1>1, <2>1, Zenon
  <2>4. ASSUME NEW n \in (m + 1)..c PROVE Prefix(r, b + n) \in DOMAIN tree' /\ tree'[Prefix(r, b + n)] = P[n]
    <3>1. Prefix(r, b + n) \in added
      BY <1>14, Zenon
    <3>2. tree'[Prefix(r, b + n)] = P[Len(Prefix(r, b + n)) - b]
      BY <1>1, <3>1, Zenon
    <3> QED
      BY <1>15, <2>2, <3>1, <3>2, Zenon
  <2> QED
    BY <2>1, <2>2, <2>3, <2>4, Zenon
<1>17. \A p \in DOMAIN tree' : p \in DOMAIN tree \/ \E n \in (m + 1)..c : p = Prefix(r, b + n)
  BY <1>14, <1>16, Zenon
<1>18. \A n \in 1..h : P[n] \in Pages
  BY <1>6
<1>19. tree' \in [DOMAIN tree' -> Pages] /\ DOMAIN tree' \subseteq Paths \ {<<>>}
  <2>1. tree \in [DOMAIN tree -> Pages] /\ DOMAIN tree \subseteq Paths \ {<<>>}
    BY <1>4, Zenon DEF Types
  <2>2. ASSUME NEW p \in DOMAIN tree' PROVE tree'[p] \in Pages
    <3>1. CASE p \in DOMAIN tree
      BY <1>16, <2>1, <3>1, Zenon
    <3>2. CASE \E n \in (m + 1)..c : p = Prefix(r, b + n)
      BY <1>15, <1>16, <1>18, <3>2, Zenon
    <3> QED
      BY <1>17, <3>1, <3>2, Zenon
  <2>3. tree' = [p \in DOMAIN tree' |-> tree'[p]]
    BY <1>1, <1>16, Zenon
  <2> QED
    BY <1>16, <2>1, <2>2, <2>3, Zenon
<1>20. q \in Seq(Pages) /\ Range(q) = {P[n] : n \in 1..m} /\ IsInjective(q)
  <2>1. PICK a \in Nat \ {0} : a = 1
    OBVIOUS
  <2>2. m <= Len(P) /\ m \in Nat
    BY <1>6, <1>13
  <2>3. SubSeq(P, a, m) \in Seq(Pages) /\ Range(SubSeq(P, a, m)) = {P[n] : n \in a..m} /\ IsInjective(SubSeq(P, a, m))
    BY <1>6, <2>2, PartIs
  <2> QED
    BY <2>1, <2>3, Zenon
<1> HIDE DEF q
<1> DEFINE F == Range(free) R == Range(releaseQ) T == Range(tree) F2 == Range(free') T2 == Range(tree')
           A == {P[n] : n \in (m + 1)..c} H == Hands H2 == Hands'
<1>21. T2 = T \cup A
  <2>1. ASSUME NEW x \in T2 PROVE x \in T \cup A
    <3>1. PICK p \in DOMAIN tree' : x = tree'[p]
      BY <2>1, Zenon DEF Range
    <3>2. CASE p \in DOMAIN tree
      BY <1>16, <3>1, <3>2, Zenon DEF Range
    <3>3. CASE \E n \in (m + 1)..c : p = Prefix(r, b + n)
      BY <1>16, <3>1, <3>3, Zenon
    <3> QED
      BY <1>17, <3>2, <3>3, Zenon
  <2>2. ASSUME NEW x \in T PROVE x \in T2
    BY <1>16, <2>2, Zenon DEF Range
  <2>3. ASSUME NEW x \in A PROVE x \in T2
    BY <1>16, <2>3, Zenon DEF Range
  <2> QED
    BY <2>1, <2>2, <2>3, Zenon
<1>22. /\ Range(q) \subseteq Hand(i) /\ A \subseteq Hand(i) /\ Hand(i)' \subseteq Hand(i)
       /\ Range(q) \cap A = {} /\ Range(q) \cap Hand(i)' = {} /\ A \cap Hand(i)' = {}
  <2>1. 1..m \subseteq 1..h /\ (m + 1)..c \subseteq 1..h /\ (c + 1)..h \subseteq 1..h /\ 1..h \subseteq DOMAIN P
    BY <1>6, <1>13
  <2>2. \A j, k \in 1..h : P[j] = P[k] => j = k
    BY <1>6, <2>1, Zenon DEF IsInjective
  <2>3. (1..m) \cap ((m + 1)..c) = {} /\ (1..m) \cap ((c + 1)..h) = {} /\ ((m + 1)..c) \cap ((c + 1)..h) = {}
    BY <1>6, <1>13
  <2>4. Range(q) \subseteq Hand(i) /\ A \subseteq Hand(i) /\ Hand(i)' \subseteq Hand(i)
    BY <1>7, <1>20, <2>1, Zenon
  <2>5. ASSUME NEW X \in SUBSET (1..h), NEW Y \in SUBSET (1..h), X \cap Y = {}
        PROVE  {P[n] : n \in X} \cap {P[n] : n \in Y} = {}
    BY <2>2, <2>5
  <2>6. Range(q) \cap A = {}
    BY <1>20, <2>1, <2>3, <2>5, Zenon
  <2>7. Range(q) \cap Hand(i)' = {}
    BY <1>7, <1>20, <2>1, <2>3, <2>5, Zenon
  <2>8. A \cap Hand(i)' = {}
    BY <1>7, <2>1, <2>3, <2>5, Zenon
  <2> QED
    BY <2>4, <2>6, <2>7, <2>8, Zenon
<1>23. /\ i \in DOMAIN H /\ H[i] = Hand(i) /\ DOMAIN H2 = DOMAIN H /\ H2[i] = Hand(i)'
       /\ \A j \in DOMAIN H : j # i => H2[j] \subseteq H[j]
  BY <1>5, <1>7, Zenon DEF Hands
<1>24. Apart(F, R, T, H) /\ free \in Seq(Pages) /\ IsInjective(free) /\ IsInjective(tree)
  BY <1>4, Zenon DEF Ownership, Types
<1>25. Hand(i) \cap (F \cup R \cup T) = {} /\ F \cap R = {} /\ F \cap T = {} /\ R \cap T = {}
  BY <1>23, <1>24, Zenon DEF Apart
<1>26. free' \in Seq(Pages) /\ F2 = F \cup Range(q) /\ IsInjective(free')
  <2>1. F \cap Range(q) = {}
    BY <1>22, <1>25, Zenon
  <2>2. free \o q \in Seq(Pages) /\ Range(free \o q) = F \cup Range(q) /\ IsInjective(free \o q)
    BY <1>20, <1>24, <2>1, JoinIs
  <2> QED
    BY <1>1, <2>2, Zenon
<1>27. IsInjective(tree')
  <2>1. ASSUME NEW x \in DOMAIN tree', NEW y \in DOMAIN tree', tree'[x] = tree'[y] PROVE x = y
    <3>1. ASSUME NEW u \in DOMAIN tree, NEW n \in (m + 1)..c PROVE tree'[u] # tree'[Prefix(r, b + n)]
      <4>1. tree'[u] \in T /\ tree'[Prefix(r, b + n)] \in Hand(i)
        BY <1>16, <1>22, Zenon DEF Range
      <4> QED
        BY <1>25, <4>1, Zenon
    <3>2. CASE x \in DOMAIN tree /\ y \in DOMAIN tree
      BY <1>16, <1>24, <2>1, <3>2, Zenon DEF IsInjective
    <3>3. CASE x \in DOMAIN tree /\ \E n \in (m + 1)..c : y = Prefix(r, b + n)
      BY <2>1, <3>1, <3>3, Zenon
    <3>4. CASE y \in DOMAIN tree /\ \E n \in (m + 1)..c : x = Prefix(r, b + n)
      BY <2>1, <3>1, <3>4, Zenon
    <3>5. CASE (\E n \in (m + 1)..c : x = Prefix(r, b + n)) /\ \E n \in (m + 1)..c : y = Prefix(r, b + n)
      <4>1. PICK j \in (m + 1)..c, k \in (m + 1)..c : x = Prefix(r, b + j) /\ y = Prefix(r, b + k)
        BY <3>5, Zenon
      <4>2. P[j] = P[k] /\ j \in DOMAIN P /\ k \in DOMAIN P
        BY <1>15, <1>16, <2>1, <4>1, Zenon
      <4>3. j = k
        BY <1>6, <4>2, Zenon DEF IsInjective
      <4> QED
        BY <4>1, <4>3, Zenon
    <3> QED
      BY <1>17, <3>2, <3>3, <3>4, <3>5, Zenon
  <2> QED
    BY <2>1, Zenon DEF IsInjective
<1>28. Ownership'
  <2> HIDE DEF F, R, T, F2, T2, A, H, H2
  <2>1. /\ F2 \cup R \cup T2 \cup H2[i] \subseteq F \cup R \cup T \cup H[i]
        /\ F2 \cap R = {} /\ F2 \cap T2 = {} /\ R \cap T2 = {} /\ H2[i] \cap (F2 \cup R \cup T2) = {}
    BY <1>21, <1>22, <1>23, <1>25, <1>26
  <2>2. Apart(F2, R, T2, H2)
    BY <1>23, <1>24, <2>1, DealtOut
  <2> QED
    BY <1>4, <1>26, <1>27, <2>2, Zenon DEF Ownership, F2, R, T2, H2
<1>29. Types'
  <2>1. where' \in [Requests -> {"new", "waiting", "running", "done"}]
    BY <1>4, Zenon DEF Types
  <2> QED
    BY <1>2, <1>3, <1>4, <1>5, <1>19, <1>26, <2>1, Zenon DEF Types
<1>30. DataInv'
  <2>1. TreeHoldsItsData'
    <3>1. ASSUME NEW p \in DOMAIN tree' PROVE data[tree'[p]] = p
      <4>1. CASE p \in DOMAIN tree
        BY <1>4, <1>16, <4>1, Zenon DEF DataInv, TreeHoldsItsData
      <4>2. CASE \E n \in (m + 1)..c : p = Prefix(r, b + n)
        BY <1>9, <1>15, <1>16, <4>2, Zenon
      <4> QED
        BY <1>17, <4>1, <4>2, Zenon
    <3> QED
      BY <1>2, <3>1, Zenon DEF TreeHoldsItsData
  <2> QED
    BY <1>2, <1>3, <1>4, <2>1, Zenon DEF DataInv, StorageHoldsItsData
<1>31. TreeInv'
  <2>1. \A s \in Requests : ongoing'[s] # 0 => ongoing'[s] = ongoing[s] /\ ongoing[s] \in DOMAIN ops
    BY <1>4, <1>5, Zenon DEF Entries
  <2>2. AnchorsIn(tree)'
    BY <1>5, <1>10, <1>16, <2>1 DEF AnchorsIn
  <2>3. BackedIn(tree)'
    <3>1. \A k \in DOMAIN backupQ : backupQ[k].path \in DOMAIN tree
      BY <1>4, <1>10, Zenon DEF HostInv, BackupsAreOnce, BackedIn
    <3> QED
      BY <1>2, <1>10, <1>16, <3>1, Zenon DEF BackedIn
  <2>4. ASSUME NEW s \in Requests, NEW n \in 1..Len(Key[s]), NEW k \in 1..n, Prefix(s, n) \in DOMAIN tree'
        PROVE  Prefix(s, k) \in DOMAIN tree'
    <3>1. CASE Prefix(s, n) \in DOMAIN tree
      BY <1>10, <1>16, <3>1, Zenon DEF ClosedIn
    <3>2. CASE \E j \in (m + 1)..c : Prefix(s, n) = Prefix(r, b + j)
      <4>1. PICK j \in (m + 1)..c : Prefix(s, n) = Prefix(r, b + j)
        BY <3>2, Zenon
      <4>2. Len(Key[s]) \in Nat /\ b + j \in 0..Len(Key[r]) /\ b + j \in 1..Len(Key[r])
        BY <1>15, KeyIs, Zenon
      <4>3. n \in 0..Len(Key[s]) /\ k \in 0..n
        BY <4>2
      <4>4. n = b + j /\ \A l \in 0..n : Prefix(s, l) = Prefix(r, l)
        BY <4>1, <4>2, <4>3, SamePrefix
      <4>5. Prefix(s, k) = Prefix(r, k) /\ k \in 1..Len(Key[r])
        BY <1>10, <4>2, <4>3, <4>4
      <4>6. CASE k <= M
        BY <1>11, <1>16, <4>5, <4>6, Zenon
      <4>7. CASE ~ (k <= M)
        <5>1. k - b \in (m + 1)..c /\ b + (k - b) = k
          BY <1>6, <1>10, <1>11, <1>13, <4>3, <4>4, <4>7
        <5>2. Prefix(r, b + (k - b)) \in DOMAIN tree'
          BY <1>16, <5>1, Zenon
        <5> QED
          BY <4>5, <5>1, <5>2, Zenon
      <4> QED
        BY <4>6, <4>7, Zenon
    <3> QED
      BY <1>17, <2>4, <3>1, <3>2, Zenon
  <2>5. ClosedIn(tree)'
    BY <2>4, Zenon DEF ClosedIn
  <2> QED
    BY <2>2, <2>3, <2>5, Zenon DEF TreeInv
<1> QED
  BY <1>3, <1>28, <1>29, <1>30, <1>31, Zenon DEF StorageInv, HostInv

\* check_prefetch_progress, with or without an entry.
LEMMA CheckProgressStep ==
  ASSUME SetFacts, StorageInv, NEW r \in Requests, NEW to \in {"waiting", "running"}, CheckPrefetchProgress(r, to)
  PROVE  StorageInv'
<1>1. /\ where' = [where EXCEPT ![r] = to] /\ UNCHANGED <<data, threadVars, backupVars>>
      /\ \/ ongoing[r] = 0 /\ UNCHANGED <<tree, free, hostRef, opVars>>
         \/ ongoing[r] # 0 /\ Settle(r, ongoing[r])
  BY Zenon DEF CheckPrefetchProgress
<1>2. CASE ongoing[r] = 0 /\ UNCHANGED <<tree, free, hostRef, opVars>>
  BY <1>1, <1>2, MoveStep, Zenon DEF hostVars
<1>3. CASE ongoing[r] # 0 /\ Settle(r, ongoing[r])
  <2>1. Popped(r, ongoing[r])
    BY <1>1, <1>3, Zenon DEF Settle, Popped, threadVars, backupVars
  <2>2. releaseQ' = releaseQ
    BY <1>1, Zenon DEF threadVars
  <2> QED
    BY <1>1, <1>3, <2>1, <2>2, SettleStep, Zenon
<1> QED
  BY <1>1, <1>2, <1>3, Zenon

-----------------------------------------------------------------------------
(* Draining the control queues *)

\* drain_storage_control_queues: revokes, acknowledged backups and released
\* pages in one step.
LEMMA DrainStep ==
  ASSUME SetFacts, StorageInv, DrainQueues
  PROVE  StorageInv'
<1>1. /\ ongoing' = [r \in Requests |-> IF r \in Revoked THEN 0 ELSE ongoing[r]]
      /\ hostRef' = [p \in Paths |->
            hostRef[p] - Cardinality({r \in Revoked : AnchorOf(ops[ongoing[r]]) = p})
                       - Cardinality({p} \cap backups \cap Range(ackQ))]
      /\ backups' = backups \ Range(ackQ) /\ free' = free \o releaseQ
      /\ revokeQ' = <<>> /\ ackQ' = <<>> /\ releaseQ' = <<>>
      /\ UNCHANGED <<where, tree, data, ops, prefetchQ, buffer, io, storage, backupQ>>
  BY Zenon DEF DrainQueues
<1>2. Types /\ Entries /\ Stages /\ Ownership /\ DataInv /\ HostInv
  BY Zenon DEF StorageInv
<1>3. \A r \in Requests : ongoing'[r] = IF r \in Revoked THEN 0 ELSE ongoing[r]
  BY <1>1, Zenon
<1>4. \A r \in Requests : ongoing'[r] # 0 => ongoing'[r] = ongoing[r] /\ r \notin Revoked
  BY <1>3, Zenon
<1>5. Entries'
  BY <1>1, <1>2, <1>4, Zenon DEF Entries
<1>6. Stages'
  BY <1>1, <1>2, StagesStay, Zenon
<1>7. /\ free \in Seq(Pages) /\ releaseQ \in Seq(Pages) /\ IsInjective(free) /\ IsInjective(releaseQ) /\ IsInjective(tree)
      /\ Apart(Range(free), Range(releaseQ), Range(tree), Hands)
  BY <1>2, Zenon DEF Types, Ownership
<1>8. /\ Range(free) \cap Range(releaseQ) = {} /\ Range(free) \cap Range(tree) = {} /\ Range(releaseQ) \cap Range(tree) = {}
  BY <1>7, Zenon DEF Apart
<1>9. free' \in Seq(Pages) /\ Range(free') = Range(free) \cup Range(releaseQ) /\ IsInjective(free')
  BY <1>1, <1>7, <1>8, JoinIs
<1>10. releaseQ' \in Seq(Pages) /\ Range(releaseQ') = {} /\ IsInjective(releaseQ')
  BY <1>1 DEF Range, IsInjective
<1>11. ackQ' \in Seq(Paths) /\ Range(ackQ') = {} /\ revokeQ' \in Seq(Requests)
  BY <1>1 DEF Range
<1>12. Types'
  <2>1. ongoing' \in [Requests -> Nat]
    BY <1>1, <1>2, Zenon DEF Types
  <2>2. \A p \in Paths : hostRef'[p] \in Int
    <3>1. ASSUME NEW p \in Paths PROVE hostRef'[p] \in Int
      <4> DEFINE V == {r \in Revoked : AnchorOf(ops[ongoing[r]]) = p}
      <4>0. V \subseteq Requests
        <5>1. revokeQ \in Seq(Requests)
          BY <1>2, Zenon DEF Types
        <5>2. Range(revokeQ) \subseteq Requests
          BY <5>1 DEF Range
        <5> QED
          BY <5>2, Zenon DEF Revoked
      <4>1. IsFiniteSet(Requests)
        BY StorageAssumption, Zenon
      <4> HIDE DEF V
      <4>2a. Cardinality(V) \in Nat
        BY <4>0, <4>1, SubsetIs, Zenon
      <4>2. Cardinality({r \in Revoked : AnchorOf(ops[ongoing[r]]) = p}) \in Nat
        BY <4>2a, Zenon DEF V
      <4>3. {p} \cap backups \cap Range(ackQ) = {p} \cap (backups \cap Range(ackQ))
        BY Zenon
      <4>4. Cardinality({p} \cap backups \cap Range(ackQ)) \in Nat
        BY <4>3, OneOf
      <4>5. hostRef[p] \in Int
        BY <1>2, Zenon DEF Types
      <4> QED
        BY <1>1, <4>2, <4>4, <4>5
    <3> QED
      BY <3>1, Zenon
  <2>3. hostRef' \in [Paths -> Int]
    BY <1>1, <2>2, Zenon
  <2>4. backups' \in SUBSET Paths
    BY <1>1, <1>2, Zenon DEF Types
  <2> QED
    BY <1>1, <1>2, <1>9, <1>10, <1>11, <2>1, <2>3, <2>4, Zenon DEF Types
<1>13. ASSUME NEW j \in DOMAIN ops PROVE Hand(j)' \subseteq Hand(j)
  <2>1. ops[j].rid \in Requests /\ ops[j].completed \in Nat /\ ops[j].held \in Nat /\ j # 0
    BY <1>2, OpIs, Zenon
  <2>2. Counted(j)' = Counted(j) \/ (Counted(j) = 0 /\ Counted(j)' = ops[j].completed)
    BY <1>1, <1>3, <2>1, Zenon DEF Counted
  <2>3. Hand(j)' = {ops[j].pages[n] : n \in (Counted(j)' + 1)..ops[j].held}
    BY <1>1, Zenon DEF Hand
  <2>4. CASE Counted(j)' = Counted(j)
    BY <2>3, <2>4, Zenon DEF Hand
  <2>5. CASE Counted(j) = 0 /\ Counted(j)' = ops[j].completed
    <3>1. (ops[j].completed + 1)..ops[j].held \subseteq (0 + 1)..ops[j].held
      BY <2>1
    <3>2. Hand(j) = {ops[j].pages[n] : n \in (0 + 1)..ops[j].held}
      BY <2>5, Zenon DEF Hand
    <3>3. Hand(j)' = {ops[j].pages[n] : n \in (ops[j].completed + 1)..ops[j].held}
      BY <2>3, <2>5, Zenon
    <3> QED
      BY <3>1, <3>2, <3>3, Zenon
  <2> QED
    BY <2>2, <2>4, <2>5, Zenon
<1>14. Ownership'
  <2> DEFINE F == Range(free) R == Range(releaseQ) T == Range(tree) H == Hands
             F2 == Range(free') R2 == Range(releaseQ') H2 == Hands'
  <2>1. DOMAIN H2 = DOMAIN H /\ \A j \in DOMAIN H : H2[j] \subseteq H[j]
    BY <1>1, <1>13, Zenon DEF Hands
  <2>2. F2 = F \cup R /\ R2 = {} /\ F \cap T = {} /\ R \cap T = {} /\ Apart(F, R, T, H)
    BY <1>7, <1>8, <1>9, <1>10, Zenon
  <2> HIDE DEF F, R, T, H, F2, R2, H2
  <2>3. F2 \cup R2 \cup T \subseteq F \cup R \cup T /\ F2 \cap R2 = {} /\ F2 \cap T = {} /\ R2 \cap T = {}
    BY <2>2, Zenon
  <2>4. Apart(F2, R2, T, H2)
    BY <2>1, <2>2, <2>3, DealtBack
  <2> QED
    BY <1>1, <1>7, <1>9, <1>10, <2>4, Zenon DEF Ownership, F2, R2, T, H2
<1>15. DataInv'
  <2>1. EntryData'
    BY <1>1, <1>2, <1>4, Zenon DEF DataInv, EntryData, PathAt
  <2> QED
    BY <1>1, <1>2, <2>1, Zenon DEF DataInv, TreeHoldsItsData, StorageHoldsItsData
<1>16. Range(ackQ) \subseteq backups /\ BackupsAreOnce /\ HostRefsAreExact /\ TreeInv
  BY <1>2, Zenon DEF HostInv, BackupsAreOnce
<1>17. BackupsAreOnce'
  <2>1. Range(ackQ)' = {} /\ backups' = backups \ Range(ackQ) /\ backupQ' = backupQ
    BY <1>1, <1>11, Zenon
  <2> QED
    BY <1>16, <2>1, Zenon DEF BackupsAreOnce
<1>18. TreeInv'
  <2>1. ClosedIn(tree)'
    BY <1>1, <1>16, Zenon DEF TreeInv, ClosedIn
  <2>2. AnchorsIn(tree)'
    BY <1>1, <1>4, <1>16, Zenon DEF TreeInv, AnchorsIn
  <2>3. BackedIn(tree)'
    BY <1>1, <1>16, Zenon DEF TreeInv, BackedIn
  <2> QED
    BY <2>1, <2>2, <2>3, Zenon DEF TreeInv
<1>19. ASSUME NEW p \in Paths
       PROVE  hostRef'[p] = Cardinality(Refs(p)') + Cardinality({p} \cap backups')
  <2> DEFINE V == {r \in Revoked : AnchorOf(ops[ongoing[r]]) = p} A == Refs(p)
  <2>1. V \subseteq A
    BY <1>2 DEF Refs, Revoked, Types, Range
  <2>2. Refs(p)' = A \ V
    <3>1. ASSUME NEW r \in Requests PROVE r \in Refs(p)' <=> r \in A /\ r \notin V
      <4>1. CASE r \in Revoked
        <5>1. ongoing'[r] = 0
          BY <1>3, <4>1, Zenon
        <5>2. r \notin Refs(p)'
          BY <5>1, Zenon DEF Refs
        <5>3. r \in A => r \in V
          BY <4>1, Zenon DEF Refs
        <5> QED
          BY <5>2, <5>3, Zenon
      <4>2. CASE r \notin Revoked
        <5>1. ongoing'[r] = ongoing[r] /\ ops' = ops
          BY <1>1, <1>3, <4>2, Zenon
        <5>2. r \in Refs(p)' <=> r \in A
          BY <5>1, Zenon DEF Refs, AnchorOf
        <5> QED
          BY <4>2, <5>2, Zenon
      <4> QED
        BY <4>1, <4>2, Zenon
    <3>2. Refs(p)' \subseteq Requests /\ A \subseteq Requests
      BY Zenon DEF Refs
    <3> QED
      BY <3>1, <3>2, Zenon
  <2>3. IsFiniteSet(A) /\ Cardinality(A) \in Nat
    BY RefsAre, Zenon
  <2>4. hostRef[p] = Cardinality(A) + Cardinality({p} \cap backups)
    BY <1>16, Zenon DEF HostRefsAreExact, Refs
  <2>5. hostRef'[p] = hostRef[p] - Cardinality(V) - Cardinality({p} \cap backups \cap Range(ackQ))
    BY <1>1, Zenon
  <2>6. {p} \cap backups \cap Range(ackQ) = {p} \cap Range(ackQ)
    BY <1>16, Zenon
  <2> HIDE DEF V, A
  <2>7. IsFiniteSet(V)
    BY <2>1, <2>3, SubsetIs, Zenon
  <2>8. A \cap V = V
    BY <2>1, Zenon
  <2>9. Cardinality(A \ V) = Cardinality(A) - Cardinality(V)
    BY <2>3, <2>8, SubsetIs, Zenon
  <2>10. Cardinality(V) \in Nat
    BY <2>7, CardinalityIs, Zenon
  <2>11. /\ Cardinality({p} \cap backups) = (IF p \in backups THEN 1 ELSE 0)
         /\ Cardinality({p} \cap Range(ackQ)) = (IF p \in Range(ackQ) THEN 1 ELSE 0)
         /\ Cardinality({p} \cap (backups \ Range(ackQ))) = (IF p \in backups \ Range(ackQ) THEN 1 ELSE 0)
    BY OneOf, Zenon
  <2>12. Cardinality({p} \cap (backups \ Range(ackQ))) = Cardinality({p} \cap backups) - Cardinality({p} \cap Range(ackQ))
    <3>1. CASE p \in Range(ackQ)
      <4>1. p \in backups /\ p \notin backups \ Range(ackQ)
        BY <1>16, <3>1, Zenon
      <4> QED
        BY <2>11, <3>1, <4>1
    <3>2. CASE p \notin Range(ackQ)
      <4>1. p \in backups \ Range(ackQ) <=> p \in backups
        BY <3>2, Zenon
      <4> QED
        BY <2>11, <3>2, <4>1
    <3> QED
      BY <3>1, <3>2, Zenon
  <2>13. Cardinality({p} \cap backups) \in Nat /\ Cardinality({p} \cap Range(ackQ)) \in Nat
    BY <2>11
  <2>14. hostRef'[p] = Cardinality(A \ V) + Cardinality({p} \cap (backups \ Range(ackQ)))
    <3> DEFINE a == Cardinality(A) v == Cardinality(V) d == Cardinality(A \ V) b == Cardinality({p} \cap backups)
               e == Cardinality({p} \cap Range(ackQ)) f == Cardinality({p} \cap (backups \ Range(ackQ)))
    <3>1. /\ hostRef'[p] = hostRef[p] - v - e /\ hostRef[p] = a + b /\ d = a - v /\ f = b - e
          /\ a \in Nat /\ v \in Nat /\ b \in Nat /\ e \in Nat
      BY <2>3, <2>4, <2>5, <2>6, <2>9, <2>10, <2>12, <2>13, Zenon
    <3> HIDE DEF a, v, d, b, e, f
    <3>2. hostRef'[p] = d + f
      BY <3>1
    <3> QED
      BY <3>2, Zenon DEF d, f
  <2> QED
    BY <1>1, <2>2, <2>14, Zenon
<1>20. HostRefsAreExact'
  <2>1. \A p \in Paths : hostRef'[p] = Cardinality(Refs(p)') + Cardinality({p} \cap backups')
    BY <1>19, Zenon
  <2> QED
    BY <2>1, Zenon DEF HostRefsAreExact, Refs
<1> QED
  BY <1>5, <1>6, <1>12, <1>14, <1>15, <1>17, <1>18, <1>20, Zenon DEF StorageInv, HostInv

\* The invariant holds when the server starts, whatever the backend already
\* has.
LEMMA StorageStarts ==
  ASSUME SetFacts, Init
  PROVE  StorageInv
<1> USE DEF Init
<1>0. PICK r \in Requests : \E n \in 0..Len(Key[r]) : storage = [p \in {Prefix(r, i) : i \in 1..n} |-> p]
  BY Zenon
<1>1. PICK n \in 0..Len(Key[r]) : storage = [p \in {Prefix(r, i) : i \in 1..n} |-> p]
  BY <1>0, Zenon
<1>2. /\ tree = <<>> /\ DOMAIN tree = {} /\ ops = <<>> /\ DOMAIN ops = {} /\ DOMAIN prefetchQ = {} /\ DOMAIN buffer = {}
      /\ DOMAIN backupQ = {} /\ DOMAIN releaseQ = {} /\ DOMAIN ackQ = {} /\ io = IoIdle
      /\ \A s \in Requests : ongoing[s] = 0
  OBVIOUS
<1>3. <<>> \in Paths /\ \A i \in 1..n : Prefix(r, i) \in Paths
  <2>1. Len(Key[r]) \in Nat
    BY KeyIs, Zenon
  <2>2. 0 \in 0..Len(Key[r]) /\ \A i \in 1..n : i \in 0..Len(Key[r])
    BY <2>1
  <2>3. \A i \in 0..Len(Key[r]) : Prefix(r, i) \in Paths
    BY PrefixIs, Zenon
  <2>4. <<>> \in Paths
    <3>1. Prefix(r, 0) = <<>>
      BY DEF Prefix
    <3> QED
      BY <2>2, <2>3, <3>1, Zenon
  <2> QED
    BY <2>2, <2>3, <2>4, Zenon
<1>4. free \in Seq(Pages) /\ DOMAIN free = Pages /\ \A k \in Pages : free[k] = k
  BY StorageAssumption DEF Pages
<1>5. storage \in [DOMAIN storage -> Paths] /\ DOMAIN storage \subseteq Paths /\ StorageHoldsItsData
  <2> DEFINE D == {Prefix(r, i) : i \in 1..n}
  <2>1. D \subseteq Paths
    BY <1>3, Zenon
  <2>2. storage = [p \in D |-> p]
    BY <1>1, Zenon
  <2> HIDE DEF D
  <2> QED
    BY <2>1, <2>2, Zenon DEF StorageHoldsItsData
<1>6. Types
  <2>1. /\ where \in [Requests -> {"new", "waiting", "running", "done"}] /\ ongoing \in [Requests -> Nat]
        /\ data \in [Pages -> Paths] /\ hostRef \in [Paths -> Int]
    BY <1>3
  <2>2. tree \in [DOMAIN tree -> Pages] /\ DOMAIN tree \subseteq Paths \ {<<>>}
    BY <1>2
  <2>3. io \in [step : {"idle", "write", "count", "finish", "dead"}, op : Nat, next : Nat, got : Nat]
    BY <1>2 DEF IoIdle
  <2>4. /\ releaseQ \in Seq(Pages) /\ ops \in Seq(Operation) /\ prefetchQ \in Seq(Nat) /\ buffer \in Seq(Nat)
        /\ revokeQ \in Seq(Requests) /\ backupQ \in Seq([path : Paths, page : Pages]) /\ ackQ \in Seq(Paths)
        /\ backups \in SUBSET Paths
    OBVIOUS
  <2> QED
    BY <1>4, <1>5, <2>1, <2>2, <2>3, <2>4, Zenon DEF Types
<1>7. Entries
  BY <1>2, Zenon DEF Entries
<1>8. Stages
  BY <1>2 DEF Stages, QueueOf, IoIsSound, IsInjective, IoIdle
<1>9. Ownership
  <2>1. IsInjective(free) /\ IsInjective(releaseQ) /\ IsInjective(tree)
    BY <1>2, <1>4, Zenon DEF IsInjective
  <2>2. Range(releaseQ) = {} /\ Range(tree) = {} /\ DOMAIN Hands = {}
    BY <1>2, Zenon DEF Range, Hands
  <2> QED
    BY <2>1, <2>2, Zenon DEF Ownership, Apart
<1>10. DataInv
  BY <1>2, <1>5, Zenon DEF DataInv, TreeHoldsItsData, EntryData
<1>11. TreeInv
  BY <1>2, Zenon DEF TreeInv, ClosedIn, AnchorsIn, BackedIn
<1>12. BackupsAreOnce
  BY <1>2, Zenon DEF BackupsAreOnce, Range
<1>13. HostRefsAreExact
  <2>1. ASSUME NEW p \in Paths
        PROVE  hostRef[p] = Cardinality({s \in Requests : ongoing[s] # 0 /\ AnchorOf(ops[ongoing[s]]) = p})
                            + Cardinality({p} \cap backups)
    <3> DEFINE A == {s \in Requests : ongoing[s] # 0 /\ AnchorOf(ops[ongoing[s]]) = p} B == {p} \cap backups
    <3>1. A = {} /\ B = {}
      BY <1>2, Zenon
    <3>2. hostRef[p] = 0
      BY Zenon
    <3> HIDE DEF A, B
    <3>3. Cardinality(A) = 0 /\ Cardinality(B) = 0
      BY <3>1, FewAre, Zenon
    <3>4. hostRef[p] = Cardinality(A) + Cardinality(B)
      BY <3>2, <3>3
    <3> QED
      BY <3>4, Zenon DEF A, B
  <2> QED
    BY <2>1, Zenon DEF HostRefsAreExact
<1> QED
  BY <1>6, <1>7, <1>8, <1>9, <1>10, <1>11, <1>12, <1>13, Zenon DEF StorageInv, HostInv

-----------------------------------------------------------------------------
(* The results *)

\* Every step of every thread keeps the invariant.
LEMMA StorageSteps ==
  ASSUME SetFacts, StorageInv, [Next]_vars
  PROVE  StorageInv'
<1>1. CASE Scheduler
  <2>1. CASE DrainQueues
    BY <2>1, DrainStep, Zenon
  <2>2. CASE EndPass
    BY <2>2, EndPassStep, Zenon DEF EndPass
  <2>3. ASSUME NEW r \in Requests, AddRequestToQueue(r) PROVE StorageInv'
    BY <2>3, AddRequestStep, Zenon
  <2>4. ASSUME NEW r \in Requests, NEW to \in {"waiting", "running"}, CheckPrefetchProgress(r, to) PROVE StorageInv'
    BY <2>4, CheckProgressStep, Zenon
  <2>5. ASSUME NEW r \in Requests, ReleaseAbortedRequest(r) PROVE StorageInv'
    BY <2>5, AbortStep, Zenon
  <2>6. ASSUME NEW r \in Requests, WriteBackup(r) PROVE StorageInv'
    BY <2>6, WriteBackupStep, Zenon
  <2>7. ASSUME NEW r \in Requests, Finish(r) PROVE StorageInv'
    <3>1. where[r] = "running" /\ where' = [where EXCEPT ![r] = "done"]
          /\ UNCHANGED <<hostVars, opVars, threadVars, backupVars>>
      BY <2>7, Zenon DEF Finish
    <3>2. ongoing[r] = 0
      BY <3>1, Zenon DEF StorageInv, Entries
    <3> QED
      BY <3>1, <3>2, MoveStep, Zenon
  <2> QED
    BY <1>1, <2>1, <2>2, <2>3, <2>4, <2>5, <2>6, <2>7, Zenon DEF Scheduler
<1>2. CASE PrefetchThread
  BY <1>2, PrefetchThreadStep, Zenon
<1>3. CASE IoThread
  BY <1>3, IoTakeStep, IoWriteStep, IoIncrementStep, IoFinishStep, Zenon DEF IoThread
<1>4. CASE BackupThread
  BY <1>4, BackupThreadStep, Zenon
<1>5. CASE UNCHANGED vars
  BY <1>5, EndPassStep, Zenon DEF vars, reqVars
<1> QED
  BY <1>1, <1>2, <1>3, <1>4, <1>5, Zenon DEF Next

\* At most one of four owners, and that one once.
LEMMA OneOwner ==
  ASSUME SetFacts, StorageInv, NEW g \in Pages
  PROVE  Owners(g) <= 1
<1> DEFINE A == {n \in DOMAIN free : free[n] = g} B == {n \in DOMAIN releaseQ : releaseQ[n] = g}
           C == {p \in DOMAIN tree : tree[p] = g} D == {i \in DOMAIN ops : g \in OpPages(i)}
<1>1. Types /\ Stages /\ IsInjective(free) /\ IsInjective(releaseQ) /\ IsInjective(tree)
      /\ Apart(Range(free), Range(releaseQ), Range(tree), Hands)
  BY Zenon DEF StorageInv, Ownership
<1>2. ASSUME NEW i \in DOMAIN ops PROVE OpPages(i) \subseteq Hands[i]
  <2> DEFINE o == ops[i] c == ops[i].completed h == ops[i].held
  <2>1. Hands[i] = {o.pages[n] : n \in (Counted(i) + 1)..h}
    BY Zenon DEF Hands, Hand
  <2>2. c \in Nat /\ h \in Nat
    BY <1>1, OpIs, Zenon
  <2>3. PICK k \in Nat : k = 0
    BY Zenon
  <2>4. Range(Slots(o, k + 1, h)) = {o.pages[n] : n \in (k + 1)..h}
    BY <1>1, SlotsAre, Zenon DEF Slots
  <2>5. Range(Slots(o, c + 1, h)) = {o.pages[n] : n \in (c + 1)..h}
    BY <1>1, <2>2, SlotsAre, Zenon DEF Slots
  <2>6. CASE ongoing[o.rid] = i
    <3>1. OpPages(i) = Range(Slots(o, 1, h)) /\ Counted(i) = 0
      BY <2>6, Zenon DEF OpPages, Counted
    <3>2. 0 + 1 = 1
      OBVIOUS
    <3> QED
      BY <2>1, <2>3, <2>4, <3>1, <3>2, Zenon
  <2>7. CASE ongoing[o.rid] # i /\ o.stage # "over"
    <3>1. OpPages(i) = Range(Slots(o, c + 1, h)) /\ Counted(i) = c
      BY <2>7, Zenon DEF OpPages, Counted
    <3> QED
      BY <2>1, <2>5, <3>1, Zenon
  <2>8. CASE ongoing[o.rid] # i /\ o.stage = "over"
    <3>1. OpPages(i) = Range(<<>>)
      BY <2>8, Zenon DEF OpPages
    <3>2. Range(<<>>) = {}
      BY DEF Range
    <3> QED
      BY <3>1, <3>2, Zenon
  <2> QED
    BY <2>6, <2>7, <2>8, Zenon
<1>3. /\ \A x, y \in A : x = y
      /\ \A x, y \in B : x = y
      /\ \A x, y \in C : x = y
  BY <1>1, Zenon DEF IsInjective
<1>4. \A x \in D : x \in DOMAIN Hands /\ g \in Hands[x]
  BY <1>2, Zenon DEF Hands
<1>5. \A x, y \in D : x = y
  <2>1. \A x, y \in DOMAIN Hands : x # y => Hands[x] \cap Hands[y] = {}
    BY <1>1, Zenon DEF Apart
  <2> QED
    BY <1>4, <2>1, Zenon
<1>6. /\ (\A x \in A : g \in Range(free)) /\ (\A x \in B : g \in Range(releaseQ)) /\ (\A x \in C : g \in Range(tree))
  BY Zenon DEF Range
<1>7. /\ Range(free) \cap Range(releaseQ) = {} /\ Range(free) \cap Range(tree) = {} /\ Range(releaseQ) \cap Range(tree) = {}
      /\ \A i \in DOMAIN Hands : Hands[i] \cap (Range(free) \cup Range(releaseQ) \cup Range(tree)) = {}
  BY <1>1, Zenon DEF Apart
<1>8. (A # {} => B = {} /\ C = {} /\ D = {}) /\ (B # {} => C = {} /\ D = {}) /\ (C # {} => D = {})
  BY <1>4, <1>6, <1>7, Zenon
<1>9. Owners(g) = Cardinality(A) + Cardinality(B) + Cardinality(C) + Cardinality(D)
  BY Zenon DEF Owners
<1> HIDE DEF A, B, C, D
<1>10. ASSUME NEW S, \A x, y \in S : x = y
       PROVE  Cardinality(S) = IF S = {} THEN 0 ELSE 1
  <2>1. CASE S = {}
    BY <2>1, FewAre, Zenon
  <2>2. CASE S # {}
    <3>1. PICK x : x \in S
      BY <2>2, Zenon
    <3>2. S = {x}
      BY <1>10, <3>1, Zenon
    <3> QED
      BY <2>2, <3>2, FewAre, Zenon
  <2> QED
    BY <2>1, <2>2, Zenon
<1>11. Cardinality(A) = (IF A = {} THEN 0 ELSE 1) /\ Cardinality(B) = (IF B = {} THEN 0 ELSE 1)
       /\ Cardinality(C) = (IF C = {} THEN 0 ELSE 1) /\ Cardinality(D) = (IF D = {} THEN 0 ELSE 1)
  BY <1>3, <1>5, <1>10, Zenon
<1> QED
  BY <1>8, <1>9, <1>11

\* A set of numbers that has 0 and with each number the next has them all.
LEMMA NumberInduction ==
  ASSUME NEW S \in SUBSET Nat, 0 \in S, \A n \in S : n + 1 \in S
  PROVE  S = Nat
<1> DEFINE R == {s \in Nat \X Nat : s[1] < s[2]}
<1>1. IsWellFoundedOn(R, Nat)
  BY NatLessThanWellFounded, Zenon DEF OpToRel
<1>2. ASSUME Nat \ S # {} PROVE FALSE
  <2>1. PICK x \in Nat \ S : \A y \in Nat \ S : ~ (<<y, x>> \in R)
    <3> HIDE DEF R
    <3> QED
      BY <1>1, <1>2, WFMin, Zenon
  <2>2. \A y \in Nat \ S : ~ (y < x)
    BY <2>1, Zenon
  <2>3. x # 0 /\ x - 1 \in Nat /\ x - 1 < x /\ (x - 1) + 1 = x
    BY <2>1
  <2> QED
    BY <2>1, <2>2, <2>3, Zenon
<1> QED
  BY <1>2, Zenon

\* The facts of finite sets and numbers that the proofs take as hypotheses.
LEMMA SetFactsHold == SetFacts
<1>1. CardinalityFact
  BY FS_CardinalityType, Zenon DEF CardinalityFact, ExistsBijection
<1>2. SubsetFact
  BY FS_Subset, Zenon DEF SubsetFact
<1>3. DifferenceFact
  <2> SUFFICES ASSUME NEW S, NEW T, IsFiniteSet(S), T \subseteq S
               PROVE  Cardinality(S \ T) = Cardinality(S) - Cardinality(T)
    BY Zenon DEF DifferenceFact
  <2>1. S \cap T = T
    BY Zenon
  <2> QED
    BY <2>1, FS_Difference, Zenon
<1>4. ElementFact
  BY FS_AddElement, Zenon DEF ElementFact
<1>5. EmptyFact /\ SingleFact
  BY FS_EmptySet, FS_Singleton, Zenon DEF EmptyFact, SingleFact
<1>6. IntervalFact
  <2> SUFFICES ASSUME NEW n \in Nat PROVE IsFiniteSet(1..n) /\ Cardinality(1..n) = n
    BY Zenon DEF IntervalFact
  <2> QED
    BY FS_Interval
<1>7. InductionFact
  BY NumberInduction, Zenon DEF InductionFact
<1> QED
  BY <1>1, <1>2, <1>3, <1>4, <1>5, <1>6, <1>7, Zenon DEF SetFacts

\* The invariant behind the results below holds in every reachable state:
\* the queues and the operations agree about how far each prefetch is, every
\* host page has one owner, and the nodes a prefetch or a backup relies on
\* are counted and in the tree.
THEOREM StorageIsSound == Spec => []StorageInv
<1>1. Init => StorageInv
  BY SetFactsHold, StorageStarts, Zenon
<1>2. StorageInv /\ [Next]_vars => StorageInv'
  BY SetFactsHold, StorageSteps, Zenon
<1> QED
  BY <1>1, <1>2, PTL DEF Spec

\* No host page is ever in two hands, under any interleaving of
\* check_prefetch_progress, release_aborted_request, evict_host and the
\* trimming, filling and giving up of the storage threads.
THEOREM PagesAreNeverShared == Spec => []NoPageIsShared
<1>1. StorageInv => NoPageIsShared
  BY SetFactsHold, OneOwner, Zenon DEF NoPageIsShared
<1> QED
  BY <1>1, StorageIsSound, PTL

\* A page of the host tree always holds the KV of its own prefix, although
\* the I/O thread goes on filling the pages of an operation that
\* check_prefetch_progress has settled or an abort has dropped.
THEOREM TreeAlwaysHoldsItsData == Spec => []TreeHoldsItsData
<1>1. StorageInv => TreeHoldsItsData
  BY Zenon DEF StorageInv, DataInv
<1> QED
  BY <1>1, StorageIsSound, PTL

\* What the backend holds for a path is always that path's KV: the page a
\* queued backup reads stays in the tree, under protect_host, until then.
THEOREM StorageAlwaysHoldsItsData == Spec => []StorageHoldsItsData
<1>1. StorageInv => StorageHoldsItsData
  BY Zenon DEF StorageInv, DataInv
<1> QED
  BY <1>1, StorageIsSound, PTL

\* host_ref_counter of a node is always the number of prefetches and backups
\* that rely on it, so protect_host and release_host pair up on every path,
\* the revoked, the aborted and the acknowledged ones included.
THEOREM HostRefsAreAlwaysExact == Spec => []HostRefsAreExact
<1>1. StorageInv => HostRefsAreExact
  BY Zenon DEF StorageInv, HostInv
<1> QED
  BY <1>1, StorageIsSound, PTL

\* The node a prefetch will be inserted below, and all above it, are never
\* evicted by evict_host while the prefetch has its entry.
THEOREM AnchorsAlwaysStay == Spec => []AnchorsStay
<1>1. StorageInv => AnchorsStay
  BY Zenon DEF StorageInv, HostInv, TreeInv, AnchorsIn, AnchorsStay
<1> QED
  BY <1>1, StorageIsSound, PTL
=============================================================================
