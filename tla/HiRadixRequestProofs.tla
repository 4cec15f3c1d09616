------------------------ MODULE HiRadixRequestProofs ------------------------
(***************************************************************************)
(* The requests' side of the invariant.  Control is inductive: every       *)
(* handler works on a request in the phase it is meant for.  With it type  *)
(* correctness: Control and CacheInv give the types of the tree, the       *)
(* locks, the transfers and the requests; what remains are the counters,   *)
(* the leaf sets, the demotion marks and the handlers' local variables.    *)
(*                                                                         *)
(* Then the steps in which a request arrives, takes, moves and releases    *)
(* its lock and gets pages keep the invariant of the cache.                *)
(***************************************************************************)
EXTENDS HiRadixTreeProofs

-----------------------------------------------------------------------------
(* The control invariant.                                                  *)

\* An idle server satisfies the control invariant.
LEMMA ControlInit == Counting /\ Init => Control
BY PathsAssumption DEF Init, Control, ControlType, ReturnsHome, CurrentRequest,
   WantsAreRunning, RequestShape, At, Loops, Labels, NoWork

\* The part of a request the control invariant speaks of.
Requests == <<phase, work, fill, lastNode, prot>>

\* A step that leaves the requests alone only has to go to a sound place.
LEMMA ControlMove ==
  ASSUME Control, UNCHANGED Requests, ctl' \in Labels, ret' \in Labels,
         cur' \in Reqs \cup {None}, want' \subseteq Reqs,
         ReturnsHome', CurrentRequest',
         \A r \in want' : r \in want \/ (phase[r] = "decode" /\ fill[r] # Full(r)),
         want' # {} => \/ \E l \in {"decode", "alloc", "shrink", "recheck", "done"} :
                              At(l)'
                       \/ ctl' \in {"retract", "abort"}
  PROVE  Control'
<1>1. ControlType'
  BY Zenon DEF Control, ControlType, Requests
<1>2. RequestShape'
  BY Zenon DEF Control, RequestShape, Requests, Prompt, Full
<1>3. \A r \in want' : phase'[r] = "decode" /\ fill'[r] # Full(r)'
  BY Zenon DEF Control, WantsAreRunning, Requests, Full
<1>4. WantsAreRunning'
  BY <1>3, Zenon DEF WantsAreRunning
<1> QED
  BY <1>1, <1>2, <1>4, Zenon DEF Control

\* A handler that ends leaves no request behind.
LEMMA ControlHome ==
  ASSUME Control, UNCHANGED Requests, Home
  PROVE  Control'
<1>1. ctl' = "idle" /\ ret' = "idle" /\ cur' = None /\ want' = {}
  BY Zenon DEF Home
<1>2. ReturnsHome' /\ CurrentRequest'
  BY <1>1, Zenon DEF ReturnsHome, CurrentRequest, At, Loops
<1>3. ctl' \in Labels /\ ret' \in Labels
  BY <1>1, Zenon DEF Labels
<1> QED
  BY <1>1, <1>2, <1>3, ControlMove, Zenon

\* Steps of a handler that leave the requests, the request it is for and the
\* requests in want alone: it goes on, calls a loop, or the loop returns.
LEMMA ControlGoesOn ==
  ASSUME Control, UNCHANGED <<Requests, cur, want>>,
         \/ AddRefused /\ Added # {}
         \/ AddOneReq \/ LoadBack \/ AdmitRefused \/ StartBatch
         \/ WriteBackup \/ Evict \/ FreeDuplicates \/ DemoteTail \/ DrainPending
         \/ DecodeFits \/ Shrink \/ Recheck
  PROVE  Control'
<1>1. \/ ctl = "add" /\ ctl' \in {"stop", "admit"} /\ ret' = ret
      \/ ctl = "add" /\ ctl' \in {"load", "evict"} /\ ret' = "load"
      \/ ctl = "load" /\ ctl' = "admit" /\ ret' = ret
      \/ ctl = "admit" /\ ctl' = "stop" /\ ret' = ret
      \/ ctl \in {"form", "stop"} /\ ctl' \in {"extend", "evict"} /\ ret' = "extend"
      \/ ctl = "backup" /\ ctl' \in {"backup", ret} /\ ret' = ret
      \/ ctl = "evict" /\ ctl' = ret /\ ret' = ret
      \/ ctl = "cached" /\ ctl' \in {"relock", "backup"} /\ ret' = "relock"
      \/ ctl = "demote" /\ ctl' \in {"demote", "drain", ret} /\ ret' = ret
      \/ ctl = "drain" /\ ctl' \in {"drain", ret} /\ ret' = ret
      \/ ctl = "decode" /\ ctl' \in {"alloc", "evict"} /\ ret' = "alloc"
      \/ ctl = "shrink" /\ ctl' \in {"recheck", "evict"} /\ ret' = "recheck"
      \/ ctl = "recheck" /\ ctl' \in {"decode", "evict"} /\ ret' = "decode"
  <2>1. ASSUME AddRefused /\ Added # {}
        PROVE  ctl = "add" /\ ctl' \in {"stop", "admit"} /\ ret' = ret
    BY <2>1, Zenon DEF AddRefused, locals
  <2>2. ASSUME AddOneReq
        PROVE  \/ ctl = "add" /\ ctl' \in {"stop", "admit"} /\ ret' = ret
               \/ ctl = "add" /\ ctl' \in {"load", "evict"} /\ ret' = "load"
    BY <2>2, Zenon DEF AddOneReq, CallEvict
  <2>3. ASSUME LoadBack
        PROVE  ctl = "load" /\ ctl' = "admit" /\ ret' = ret
    BY <2>3, Zenon DEF LoadBack
  <2>4. ASSUME AdmitRefused
        PROVE  ctl = "admit" /\ ctl' = "stop" /\ ret' = ret
    BY <2>4, Zenon DEF AdmitRefused
  <2>5. ASSUME StartBatch
        PROVE  ctl \in {"form", "stop"} /\ ctl' \in {"extend", "evict"} /\ ret' = "extend"
    BY <2>5, Zenon DEF StartBatch, CallEvict
  <2>6. ASSUME WriteBackup
        PROVE  ctl = "backup" /\ ctl' \in {"backup", ret} /\ ret' = ret
    BY <2>6, Zenon DEF WriteBackup, Return
  <2>7. ASSUME Evict
        PROVE  ctl = "evict" /\ ctl' = ret /\ ret' = ret
    BY <2>7, Zenon DEF Evict
  <2>8. ASSUME FreeDuplicates
        PROVE  ctl = "cached" /\ ctl' \in {"relock", "backup"} /\ ret' = "relock"
    BY <2>8, Zenon DEF FreeDuplicates, CallBackup
  <2>9. ASSUME DemoteTail
        PROVE  ctl = "demote" /\ ctl' \in {"demote", "drain", ret} /\ ret' = ret
    BY <2>9, Zenon DEF DemoteTail, CallDrain
  <2>10. ASSUME DrainPending
        PROVE  ctl = "drain" /\ ctl' \in {"drain", ret} /\ ret' = ret
    BY <2>10, Zenon DEF DrainPending, Return
  <2>11. ASSUME DecodeFits
        PROVE  ctl = "decode" /\ ctl' \in {"alloc", "evict"} /\ ret' = "alloc"
    BY <2>11, Zenon DEF DecodeFits, CallEvict
  <2>12. ASSUME Shrink
        PROVE  ctl = "shrink" /\ ctl' \in {"recheck", "evict"} /\ ret' = "recheck"
    BY <2>12, Zenon DEF Shrink, CallEvict
  <2>13. ASSUME Recheck
        PROVE  ctl = "recheck" /\ ctl' \in {"decode", "evict"} /\ ret' = "decode"
    BY <2>13, Zenon DEF Recheck, CallEvict
  <2> QED
    BY <2>1, <2>2, <2>3, <2>4, <2>5, <2>6, <2>7,
       <2>8, <2>9, <2>10, <2>11, <2>12, <2>13, Zenon
<1>2. ctl' \in Labels /\ ret' \in Labels
  BY <1>1 DEF Control, ControlType, Labels
<1>3. ReturnsHome'
  BY <1>1, Zenon DEF Control, ReturnsHome
<1>4. CurrentRequest'
  BY <1>1, Zenon DEF Control, ReturnsHome, CurrentRequest, At, Loops, Requests
<1>5. want' # {} => \/ \E l \in {"decode", "alloc", "shrink", "recheck", "done"} :
                           At(l)'
                    \/ ctl' \in {"retract", "abort"}
  BY <1>1, Zenon DEF Control, ReturnsHome, WantsAreRunning, At, Loops
<1>6. cur' \in Reqs \cup {None} /\ want' \subseteq Reqs /\ UNCHANGED Requests
      /\ want' = want
  BY Zenon DEF Control, ControlType
<1> QED
  BY <1>2, <1>3, <1>4, <1>5, <1>6, ControlMove, Zenon

\* insert() is called for one request and backs up nodes before it returns.
LEMMA InsertMoves ==
  ASSUME NEW r, NEW label, Insert(r, label)
  PROVE  /\ ctl' \in {label, "backup"} /\ ret' = label
         /\ cur' = r /\ want' = want
<1>1. cur' = r /\ want' = want /\ CallBackup(Unbacked(nodes', Prompt(r)), label)
  BY Zenon DEF Insert
<1> QED
  BY <1>1, Zenon DEF CallBackup

\* Steps that start a handler, or give it another request.
LEMMA ControlStarts ==
  ASSUME Control, UNCHANGED Requests,
         \/ \E r \in Reqs : MatchPrefix(r) \/ CacheUnfinished(r) \/ Finish(r)
         \/ LoadingCheck \/ OnIdle \/ RetractDecode
         \/ \E S \in SUBSET {r \in Running : fill[r] # Full(r)} : CheckDecodeMem(S)
  PROVE  Control'
<1>1. \/ /\ ctl \in {"idle", "form"} /\ ctl' \in {"add", "backup"} /\ ret' = "add"
         /\ cur' \in Reqs /\ phase[cur'] = "waiting" /\ want' = want
      \/ /\ ctl = "idle" /\ ctl' \in {"cached", "backup"} /\ ret' = "cached"
         /\ cur' \in Reqs /\ phase[cur'] = "prefill" /\ want' = want
      \/ /\ ctl = "idle" /\ ctl' \in {"finish", "backup"} /\ ret' = "finish"
         /\ cur' \in Reqs /\ phase[cur'] \in {"prefill", "decode"} /\ want' = want
      \/ /\ ctl \in {"idle", "loaded"} /\ ctl' \in {"loaded", "drain"}
         /\ ret' = "loaded" /\ UNCHANGED <<cur, want>>
      \/ /\ ctl = "idle" /\ ctl' \in {"done", "drain"} /\ ret' = "done"
         /\ UNCHANGED <<cur, want>>
      \/ /\ ctl = "decode" /\ ctl' \in {"abort", "retract"} /\ ret' = ret
         /\ cur' \in Reqs /\ phase[cur'] = "decode" /\ want' = want \ {cur'}
      \/ /\ ctl = "idle" /\ ctl' \in {"decode", "evict"} /\ ret' = "decode"
         /\ cur' = cur /\ want' \subseteq {r \in Running : fill[r] # Full(r)}
  <2>1. ASSUME NEW r \in Reqs, MatchPrefix(r)
        PROVE  /\ ctl \in {"idle", "form"} /\ ctl' \in {"add", "backup"} /\ ret' = "add"
               /\ cur' \in Reqs /\ phase[cur'] = "waiting" /\ want' = want
    BY <2>1, Zenon DEF MatchPrefix, CallBackup
  <2>2. ASSUME NEW r \in Reqs, CacheUnfinished(r)
        PROVE  /\ ctl = "idle" /\ ctl' \in {"cached", "backup"} /\ ret' = "cached"
               /\ cur' \in Reqs /\ phase[cur'] = "prefill" /\ want' = want
    BY <2>2, InsertMoves, Zenon DEF CacheUnfinished, Idle
  <2>3. ASSUME NEW r \in Reqs, Finish(r)
        PROVE  /\ ctl = "idle" /\ ctl' \in {"finish", "backup"} /\ ret' = "finish"
               /\ cur' \in Reqs /\ phase[cur'] \in {"prefill", "decode"} /\ want' = want
    BY <2>3, InsertMoves, Zenon DEF Finish, Idle
  <2>4. ASSUME LoadingCheck
        PROVE  /\ ctl \in {"idle", "loaded"} /\ ctl' \in {"loaded", "drain"}
               /\ ret' = "loaded" /\ UNCHANGED <<cur, want>>
    BY <2>4, Zenon DEF LoadingCheck, CallDrain
  <2>5. ASSUME OnIdle
        PROVE  /\ ctl = "idle" /\ ctl' \in {"done", "drain"} /\ ret' = "done"
               /\ UNCHANGED <<cur, want>>
    BY <2>5, Zenon DEF OnIdle, CallDrain, Idle
  <2>6. ASSUME RetractDecode
        PROVE  /\ ctl = "decode" /\ ctl' \in {"abort", "retract"} /\ ret' = ret
               /\ cur' \in Reqs /\ phase[cur'] = "decode" /\ want' = want \ {cur'}
    BY <2>6, Zenon DEF RetractDecode, Running
  <2>7. ASSUME NEW S \in SUBSET {r \in Running : fill[r] # Full(r)}, CheckDecodeMem(S)
        PROVE  /\ ctl = "idle" /\ ctl' \in {"decode", "evict"} /\ ret' = "decode"
               /\ cur' = cur /\ want' \subseteq {r \in Running : fill[r] # Full(r)}
    BY <2>7, Zenon DEF CheckDecodeMem, CallEvict, Idle
  <2> QED
    BY <2>1, <2>2, <2>3, <2>4, <2>5, <2>6, <2>7, Zenon
<1>2. /\ ctl' \in Labels /\ ret' \in Labels
      /\ cur' \in Reqs \cup {None} /\ want' \subseteq Reqs
  BY <1>1, Zenon DEF Control, ControlType, Labels, Running
<1>3. ReturnsHome'
  BY <1>1, Zenon DEF Control, ReturnsHome
<1>4. CurrentRequest'
  BY <1>1, Zenon DEF Control, CurrentRequest, At, Loops, Requests
<1>5. want' # {} => \/ \E l \in {"decode", "alloc", "shrink", "recheck", "done"} :
                           At(l)'
                    \/ ctl' \in {"retract", "abort"}
  BY <1>1, Zenon DEF Control, WantsAreRunning, At, Loops
<1>6. \A r \in want' : r \in want \/ (phase[r] = "decode" /\ fill[r] # Full(r))
  BY <1>1, Zenon DEF Running
<1> QED
  BY <1>2, <1>3, <1>4, <1>5, <1>6, ControlMove, Zenon

\* What RequestShape says of one request.
Shaped(r) ==
    /\ phase[r] # "out" =>
          /\ work[r] \in Work
          /\ Prompt(r) \in Anc[fill[r]] /\ fill[r] \in Anc[Full(r)]
    /\ prot[r] = lastNode[r]
    /\ lastNode[r] \in Anc[fill[r]] \cup {Root}
    /\ phase[r] \in {"out", "waiting"} => lastNode[r] = Root

\* A step that changes one request c, outside want, at no label.
LEMMA ControlOne ==
  ASSUME Control, NEW c \in Reqs, c \notin want, ControlType', Shaped(c)',
         want' = want, ReturnsHome', CurrentRequest',
         \A r \in Reqs \ {c} :
            /\ phase'[r] = phase[r] /\ work'[r] = work[r] /\ fill'[r] = fill[r]
            /\ lastNode'[r] = lastNode[r] /\ prot'[r] = prot[r],
         want # {} => \/ \E l \in {"decode", "alloc", "shrink", "recheck", "done"} :
                              At(l)'
                      \/ ctl' \in {"retract", "abort"}
  PROVE  Control'
<1>1. RequestShape'
  <2>1. ASSUME NEW r \in Reqs, r # c
        PROVE  Shaped(r)'
    BY <2>1, Zenon DEF Control, RequestShape, Shaped, Prompt, Full
  <2>2. \A r \in Reqs : Shaped(r)'
    BY <2>1, Zenon
  <2> QED
    BY <2>2, Zenon DEF RequestShape, Shaped
<1>2. \A r \in want' : phase'[r] = "decode" /\ fill'[r] # Full(r)'
  BY Zenon DEF Control, ControlType, WantsAreRunning, Full
<1>3. WantsAreRunning'
  BY <1>2, Zenon DEF WantsAreRunning
<1> QED
  BY <1>1, <1>3, Zenon DEF Control

\* A request that is not in the cache is shaped, before and after its life.
LEMMA ControlArrives ==
  ASSUME Control, NEW r \in Reqs,
         AbortWaiting(r) \/ \E w \in Work : Arrive(r, w)
  PROVE  Control'
<1>1. ControlType /\ RequestShape /\ ctl = "idle" /\ r \notin want
      /\ UNCHANGED <<lastNode, prot, ctl, ret, cur, want>>
      /\ phase[r] \in {"out", "waiting"}
  BY Zenon DEF Control, WantsAreRunning, Arrive, AbortWaiting, locals, Idle
<1>2. PICK ph, w, f :
         /\ phase' = [phase EXCEPT ![r] = ph] /\ work' = [work EXCEPT ![r] = w]
         /\ fill' = [fill EXCEPT ![r] = f]
         /\ \/ ph = "out" /\ w = NoWork /\ f = Root
            \/ ph = "waiting" /\ w \in Work /\ f = w[1]
  BY Zenon DEF Arrive, AbortWaiting, Leave
<1>3. w \in Work => /\ w \in Paths \X Paths /\ w[1] \in Paths /\ w[2] \in Paths
                    /\ w[1] \in Anc[w[2]] /\ w[1] \in Anc[w[1]]
  BY PathsAssumption, RequestsAssumption, Zenon
<1>4. ControlType'
  BY <1>1, <1>2, <1>3, Zenon DEF ControlType
<1>5. Shaped(r)'
  <2>1. lastNode[r] = Root /\ prot[r] = Root
    BY <1>1, Zenon DEF RequestShape
  <2>2. phase'[r] = ph /\ work'[r] = w /\ fill'[r] = f
        /\ lastNode'[r] = Root /\ prot'[r] = Root
    BY <1>1, <1>2, <2>1, Zenon DEF ControlType
  <2> QED
    BY <1>2, <1>3, <2>2, Zenon DEF Shaped, Prompt, Full
<1>6. ReturnsHome' /\ CurrentRequest'
  BY <1>1, Zenon DEF ReturnsHome, CurrentRequest, At, Loops
<1>7. want = {}
  BY <1>1, Zenon DEF Control, WantsAreRunning, At, Loops
<1>8. \A s \in Reqs \ {r} :
         /\ phase'[s] = phase[s] /\ work'[s] = work[s] /\ fill'[s] = fill[s]
         /\ lastNode'[s] = lastNode[s] /\ prot'[s] = prot[s]
  BY <1>1, <1>2, Zenon DEF ControlType
<1> QED
  BY <1>1, <1>4, <1>5, <1>6, <1>7, <1>8, ControlOne, Zenon

\* A request in the batch, in its prefill or released keeps its shape.
LEMMA ControlHolds ==
  ASSUME Control, Admit \/ Relock
  PROVE  Control'
<1>1. /\ ControlType /\ cur \in Reqs /\ Shaped(cur)
      /\ phase[cur] \in {"waiting", "prefill"} /\ want = {}
  BY Zenon DEF Control, CurrentRequest, WantsAreRunning, RequestShape, Shaped, Admit, Relock,
     At, Loops
<1>0. PICK c \in Reqs : c = cur
  BY <1>1, Zenon
<1>2. PICK ph, n :
         /\ phase' = [phase EXCEPT ![c] = ph]
         /\ lastNode' = [lastNode EXCEPT ![c] = n]
         /\ prot' = [prot EXCEPT ![c] = n]
         /\ ph \in {"added", "decode"}
         /\ n \in Anc[fill[c]] \cup {Root}
         /\ UNCHANGED <<work, fill>>
         /\ want' = want /\ ctl' \in {"form", "stop", "idle"}
         /\ ret' \in {ret, "idle"} /\ cur' \in {cur, None}
  <2>1. CASE Admit
    <3>1. DevMatched(fill[c]) \in Anc[fill[c]] \cup {Root}
      BY <1>0, <1>1, DevMatchedOf, Zenon DEF ControlType
    <3> QED
      BY <1>0, <2>1, <3>1, Zenon DEF Admit, locals
  <2>2. CASE Relock
    <3>1. Prompt(c) \in Anc[fill[c]]
      BY <1>0, <1>1, Zenon DEF Shaped
    <3> QED
      BY <1>0, <1>1, <2>2, <3>1, Zenon DEF Relock, Home
  <2> QED
    BY <2>1, <2>2, Zenon
<1>3. n \in Paths \cup {Root} /\ fill[c] \in Paths \cup {Root}
  BY <1>1, <1>2, AncType, Zenon DEF ControlType
<1>4. ControlType'
  <2>1. phase' \in [Reqs -> {"out", "waiting", "added", "prefill", "decode"}]
    BY <1>1, <1>2, Zenon DEF ControlType
  <2>2. /\ lastNode' \in [Reqs -> Paths \cup {Root}]
        /\ prot' \in [Reqs -> Paths \cup {Root}]
    BY <1>1, <1>2, <1>3, Zenon DEF ControlType
  <2>3. /\ work' \in [Reqs -> Work \cup {NoWork}] /\ fill' \in [Reqs -> Paths \cup {Root}]
        /\ cur' \in Reqs \cup {None} /\ want' \subseteq Reqs
    BY <1>1, <1>2, Zenon DEF ControlType
  <2>4. ctl' \in Labels /\ ret' \in Labels
    BY <1>1, <1>2, Zenon DEF ControlType, Labels
  <2> QED
    BY <2>1, <2>2, <2>3, <2>4, Zenon DEF ControlType
<1>5. Shaped(c)'
  <2>1. phase'[c] = ph /\ lastNode'[c] = n /\ prot'[c] = n
        /\ work'[c] = work[c] /\ fill'[c] = fill[c]
    BY <1>1, <1>2, Zenon DEF ControlType
  <2> QED
    BY <1>0, <1>1, <1>2, <2>1, Zenon DEF Shaped, Prompt, Full
<1>6. ReturnsHome' /\ CurrentRequest'
  BY <1>2, Zenon DEF ReturnsHome, CurrentRequest, At, Loops
<1>7. \A s \in Reqs \ {c} :
         /\ phase'[s] = phase[s] /\ work'[s] = work[s] /\ fill'[s] = fill[s]
         /\ lastNode'[s] = lastNode[s] /\ prot'[s] = prot[s]
  BY <1>1, <1>2, Zenon DEF ControlType
<1> QED
  BY <1>0, <1>1, <1>2, <1>4, <1>5, <1>6, <1>7, ControlOne, Zenon

\* A request that gives up its pages holds no prefix any more.
LEMMA ControlReleases ==
  ASSUME Control, ReleaseFinished \/ ReleaseRetracted
  PROVE  Control'
<1>1. /\ ControlType /\ cur \in Reqs /\ Shaped(cur) /\ cur \notin want
      /\ phase[cur] \in {"prefill", "decode"} /\ (want # {} => ctl # "finish")
  BY Zenon DEF Control, CurrentRequest, WantsAreRunning, RequestShape, Shaped,
     ReleaseFinished, ReleaseRetracted, At, Loops
<1>2. PICK ph, w, f :
         /\ phase' = [phase EXCEPT ![cur] = ph] /\ work' = [work EXCEPT ![cur] = w]
         /\ fill' = [fill EXCEPT ![cur] = f]
         /\ lastNode' = [lastNode EXCEPT ![cur] = Root]
         /\ prot' = [prot EXCEPT ![cur] = Root]
         /\ \/ ph = "out" /\ w = NoWork /\ f = Root
            \/ ph = "waiting" /\ w = work[cur] /\ f = fill[cur]
         /\ ctl' = "demote" /\ ret' \in {"done", "shrink"} /\ UNCHANGED <<cur, want>>
  <2>1. PICK dup, ph : /\ Release(dup, ph) /\ ph \in {"out", "waiting"}
                       /\ ret' \in {"done", "shrink"} /\ want' = want
    BY Zenon DEF ReleaseFinished, ReleaseRetracted
  <2>2. /\ phase' = [phase EXCEPT ![cur] = ph]
        /\ IF ph = "out" THEN Leave(cur) ELSE UNCHANGED <<work, fill>>
        /\ lastNode' = [lastNode EXCEPT ![cur] = Root]
        /\ prot' = [prot EXCEPT ![cur] = Root]
        /\ ctl' = "demote" /\ cur' = cur
    BY <2>1, Zenon DEF Release
  <2>3. CASE ph = "out"
    BY <2>1, <2>2, <2>3, Zenon DEF Leave
  <2>4. CASE ph = "waiting"
    <3>1. work' = [work EXCEPT ![cur] = work[cur]] /\ fill' = [fill EXCEPT ![cur] = fill[cur]]
      BY <1>1, <2>2, <2>4, Zenon DEF ControlType
    <3> QED
      BY <2>1, <2>2, <2>4, <3>1, Zenon
  <2> QED
    BY <2>1, <2>3, <2>4, Zenon
<1>3. ControlType'
  BY <1>1, <1>2, Zenon DEF ControlType, Labels
<1>4. Shaped(cur)'
  <2>1. phase'[cur] = ph /\ work'[cur] = w /\ fill'[cur] = f
        /\ lastNode'[cur] = Root /\ prot'[cur] = Root
    BY <1>1, <1>2, Zenon DEF ControlType
  <2> QED
    BY <1>1, <1>2, <2>1, Zenon DEF Shaped, Prompt, Full
<1>5. ReturnsHome' /\ CurrentRequest'
  BY <1>2, Zenon DEF ReturnsHome, CurrentRequest, At, Loops
<1>6. \A s \in Reqs \ {cur} :
         /\ phase'[s] = phase[s] /\ work'[s] = work[s] /\ fill'[s] = fill[s]
         /\ lastNode'[s] = lastNode[s] /\ prot'[s] = prot[s]
  BY <1>1, <1>2, Zenon DEF ControlType
<1>7. \E l \in {"decode", "alloc", "shrink", "recheck", "done"} : At(l)'
  BY <1>2, Zenon DEF At, Loops
<1> QED
  BY <1>1, <1>2, <1>3, <1>4, <1>5, <1>6, <1>7, ControlOne, Zenon

\* The batch moves on to its prefill.
LEMMA ControlExtends ==
  ASSUME Control, PrepareForExtend
  PROVE  Control'
<1>1. ControlType /\ RequestShape /\ UNCHANGED <<work, fill, lastNode, prot>>
      /\ phase' = [r \in Reqs |-> IF r \in Added THEN "prefill" ELSE phase[r]]
      /\ ctl' = "idle" /\ ret' = "idle" /\ cur' = None /\ want' = {}
  BY Zenon DEF Control, PrepareForExtend, Home
<1>2. ControlType'
  BY <1>1, Zenon DEF ControlType, Labels
<1>3. ReturnsHome' /\ CurrentRequest' /\ WantsAreRunning'
  BY <1>1, Zenon DEF ReturnsHome, CurrentRequest, WantsAreRunning, At, Loops
<1>4. RequestShape'
  BY <1>1, Zenon DEF RequestShape, Added, Prompt, Full
<1> QED
  BY <1>2, <1>3, <1>4, Zenon DEF Control

\* Every running request that starts a page has one more full page.
LEMMA ControlDecodes ==
  ASSUME Control, AllocForDecode
  PROVE  Control'
<1>1. /\ ControlType /\ RequestShape /\ UNCHANGED <<phase, work, lastNode, prot>>
      /\ fill' = [r \in Reqs |-> IF r \in want THEN Next1(r) ELSE fill[r]]
      /\ ctl' = "idle" /\ ret' = "idle" /\ cur' = None /\ want' = {}
  BY Zenon DEF Control, AllocForDecode, Home
<1>2. ASSUME NEW r \in want
      PROVE  /\ r \in Reqs /\ phase[r] = "decode" /\ fill[r] # Full(r)
             /\ work[r] \in Work /\ Full(r) \in Paths /\ fill[r] \in Anc[Full(r)]
  <2>1. r \in Reqs /\ phase[r] = "decode" /\ fill[r] # Full(r)
    BY <1>2, Zenon DEF Control, ControlType, WantsAreRunning
  <2>2. work[r] \in Work /\ fill[r] \in Anc[Full(r)]
    BY <1>1, <2>1, Zenon DEF RequestShape
  <2> QED
    BY <2>1, <2>2, RequestsAssumption, Zenon DEF Full
<1>3. ASSUME NEW r \in want
      PROVE  /\ Next1(r) \in Anc[Full(r)] /\ Next1(r) \in Paths
             /\ Anc[fill[r]] \subseteq Anc[Next1(r)]
  <2>1. Next1(r) \in Anc[Full(r)] \ Anc[fill[r]] /\ fill[r] \in Anc[Next1(r)]
    BY <1>2, Next1Of, Zenon
  <2> QED
    BY <1>2, <2>1, PathsAssumption, Zenon
<1>4. ControlType'
  BY <1>1, <1>3, Zenon DEF ControlType, Labels
<1>5. RequestShape'
  <2>1. ASSUME NEW r \in Reqs
        PROVE  Shaped(r)'
    <3>1. Shaped(r)
      BY <1>1, Zenon DEF RequestShape, Shaped
    <3>2. CASE r \in want
      BY <1>1, <1>2, <1>3, <3>1, <3>2, Zenon DEF Shaped, Prompt, Full
    <3>3. CASE r \notin want
      BY <1>1, <3>1, <3>3, Zenon DEF Shaped, Prompt, Full
    <3> QED
      BY <3>2, <3>3, Zenon
  <2> QED
    BY <2>1, Zenon DEF RequestShape, Shaped
<1>6. ReturnsHome' /\ CurrentRequest' /\ WantsAreRunning'
  BY <1>1, Zenon DEF ReturnsHome, CurrentRequest, WantsAreRunning, At, Loops
<1> QED
  BY <1>4, <1>5, <1>6, Zenon DEF Control

\* Every handler step keeps the control invariant.
LEMMA ControlStep == Control /\ [Next]_vars => Control'
<1> SUFFICES ASSUME Control, [Next]_vars
             PROVE  Control'
  BY Zenon
<1>1. ASSUME NEW r \in Reqs, AbortWaiting(r) \/ \E w \in Work : Arrive(r, w)
      PROVE  Control'
  BY <1>1, ControlArrives, Zenon
<1>2. ASSUME \/ \E r \in Reqs : MatchPrefix(r) \/ CacheUnfinished(r) \/ Finish(r)
             \/ LoadingCheck \/ OnIdle \/ RetractDecode
             \/ \E S \in SUBSET {r \in Running : fill[r] # Full(r)} : CheckDecodeMem(S)
      PROVE  Control'
  <2>1. UNCHANGED Requests
    BY <1>2, Zenon DEF MatchPrefix, CacheUnfinished, Finish, Insert, LoadingCheck,
       OnIdle, RetractDecode, CheckDecodeMem, reqs, Requests
  <2> QED
    BY <1>2, <2>1, ControlStarts, Zenon
<1>3. CASE \/ AddRefused /\ Added # {}
           \/ AddOneReq \/ LoadBack \/ AdmitRefused \/ StartBatch
           \/ WriteBackup \/ Evict \/ FreeDuplicates \/ DemoteTail \/ DrainPending
           \/ DecodeFits \/ Shrink \/ Recheck
  <2>1. UNCHANGED <<Requests, cur, want>>
    BY <1>3, Zenon DEF AddRefused, AddOneReq, LoadBack, AdmitRefused, StartBatch,
       WriteBackup, Evict, FreeDuplicates, DemoteTail, DrainPending, DecodeFits,
       Shrink, Recheck, reqs, locals, Requests
  <2> QED
    BY <1>3, <2>1, ControlGoesOn, Zenon
<1>4. CASE (AddRefused /\ Added = {}) \/ LoadingCheckDone \/ HandlerDone
  <2>1. UNCHANGED Requests /\ Home
    BY <1>4, Zenon DEF AddRefused, LoadingCheckDone, HandlerDone, reqs, Requests
  <2> QED
    BY <2>1, ControlHome, Zenon
<1>5. CASE Admit \/ Relock
  BY <1>5, ControlHolds, Zenon
<1>6. CASE ReleaseFinished \/ ReleaseRetracted
  BY <1>6, ControlReleases, Zenon
<1>7. CASE PrepareForExtend \/ AllocForDecode
  BY <1>7, ControlExtends, ControlDecodes, Zenon
<1>8. CASE WritingCheck \/ UNCHANGED vars
  <2>1. UNCHANGED <<Requests, ctl, ret, cur, want>>
    BY <1>8, Zenon DEF WritingCheck, vars, reqs, locals, Requests
  <2>2. ReturnsHome' /\ CurrentRequest'
    BY <2>1, Zenon DEF Control, ReturnsHome, CurrentRequest, At, Requests
  <2> QED
    BY <2>1, <2>2, ControlMove, Zenon DEF Control, ControlType, WantsAreRunning, At
<1> QED
  BY <1>1, <1>2, <1>3, <1>4, <1>5, <1>6, <1>7, <1>8, Zenon DEF Next

-----------------------------------------------------------------------------
(* No load-back is left behind.                                            *)

\* No load-back is queued outside the formation of a batch, and no other
\* handler continues it.
LEMMA QueueElsewhere ==
  ASSUME QueueIsForming, loadQueue' = loadQueue, ctl' # "form",
         ctl \notin {"admit", "form", "stop"}, ~ At("add"), ~ At("load")
  PROVE  QueueIsForming'
BY Zenon DEF QueueIsForming

\* Every handler step keeps load-backs queued only while a batch is formed.
LEMMA QueueStep == Control /\ QueueIsForming /\ [Next]_vars => QueueIsForming'
<1> SUFFICES ASSUME Control, QueueIsForming, [Next]_vars
             PROVE  QueueIsForming'
  BY Zenon
<1>1. ControlType /\ ReturnsHome
  BY Zenon DEF Control
<1>2. LoadBack \/ StartBatch \/ loadQueue' = loadQueue
  BY Zenon DEF Next, Arrive, MatchPrefix, CacheUnfinished, Finish, Insert,
     AbortWaiting, AddRefused, AddOneReq, Admit, AdmitRefused, PrepareForExtend,
     WriteBackup, Evict, FreeDuplicates, Relock, ReleaseFinished, Release, DemoteTail,
     DrainPending, WritingCheck, LoadingCheck, LoadingCheckDone, OnIdle, HandlerDone,
     CheckDecodeMem, DecodeFits, AllocForDecode, RetractDecode, ReleaseRetracted,
     Shrink, Recheck, dma, vars
<1>3. CASE LoadBack
  BY <1>3, Zenon DEF LoadBack, QueueIsForming
<1>4. CASE StartBatch
  BY <1>4, Zenon DEF StartBatch, CallEvict, QueueIsForming
<1>5. CASE Admit
  <2>1. cur \in Reqs /\ phase'[cur] = "added" /\ ctl' \in {"form", "stop"}
    BY <1>1, <1>5, Zenon DEF Control, CurrentRequest, Admit, ControlType
  <2> QED
    BY <2>1, Zenon DEF QueueIsForming, Added
<1>6. ASSUME NEW r \in Reqs, MatchPrefix(r)
      PROVE  QueueIsForming'
  <2>1. /\ ctl \in {"idle", "form"} /\ phase' = phase /\ loadQueue' = loadQueue
        /\ ctl' \in {"add", "backup"} /\ ret' = "add"
    BY <1>6, Zenon DEF MatchPrefix, CallBackup, reqs, dma
  <2> QED
    BY <2>1, Zenon DEF QueueIsForming, Added, At, Loops
<1>7. CASE AddRefused \/ AddOneReq \/ AdmitRefused
  <2>1. /\ phase' = phase /\ loadQueue' = loadQueue
        /\ ctl \in {"add", "admit"} /\ ctl' # "form"
        /\ ctl' = "idle" => Added = {} /\ ctl = "add"
        /\ ctl = "admit" => ctl' = "stop"
        /\ ctl' \in {"idle", "stop", "admit"} \/ At("load")'
    BY <1>7, Zenon DEF AddRefused, AddOneReq, AdmitRefused, CallEvict, Home, reqs, dma, At,
       Loops
  <2>2. Added' = Added
    BY <2>1, Zenon DEF Added
  <2> QED
    BY <2>1, <2>2, Zenon DEF QueueIsForming, At, Loops
<1>8. CASE WriteBackup \/ Evict
  <2>1. /\ phase' = phase /\ loadQueue' = loadQueue /\ ret' = ret
        /\ ctl \in {"backup", "evict"} /\ ctl' \in {ctl, ret} /\ ret # "form"
    BY <1>1, <1>8, Zenon DEF WriteBackup, Evict, Return, ReturnsHome, dma
  <2>2. Added' = Added
    BY <2>1, Zenon DEF Added
  <2> QED
    BY <2>1, <2>2, Zenon DEF QueueIsForming, At, Loops
<1>9. CASE \/ FreeDuplicates \/ Relock \/ PrepareForExtend \/ ReleaseFinished
           \/ ReleaseRetracted \/ LoadingCheckDone \/ HandlerDone \/ AllocForDecode
  <2>1. /\ ctl \in {"cached", "relock", "extend", "finish", "retract", "abort",
                    "loaded", "done", "alloc"}
        /\ ctl' \in {"relock", "backup", "idle", "demote"}
    BY <1>9, Zenon DEF FreeDuplicates, Relock, PrepareForExtend, ReleaseFinished,
       ReleaseRetracted, LoadingCheckDone, HandlerDone, AllocForDecode, Release,
       CallBackup, Home
  <2> QED
    BY <1>2, <1>3, <1>4, <2>1, QueueElsewhere, Zenon DEF At, Loops
<1>10. CASE \/ DemoteTail \/ DrainPending
            \/ DecodeFits \/ RetractDecode \/ Shrink \/ Recheck
  <2>1. \/ ctl \in {"demote", "drain"} /\ ctl' \in {ret, "demote", "drain"}
        \/ /\ ctl \in {"decode", "shrink", "recheck"}
           /\ ctl' \in {"alloc", "evict", "retract", "abort", "recheck", "decode"}
    BY <1>10, Zenon DEF DemoteTail, DrainPending, DecodeFits, RetractDecode, Shrink,
       Recheck, CallDrain, CallEvict, Return
  <2>2. ctl \in {"demote", "drain"} => ret \in {"done", "shrink", "loaded"}
    BY <1>1, Zenon DEF ReturnsHome
  <2> QED
    BY <1>2, <1>3, <1>4, <2>1, <2>2, QueueElsewhere, Zenon DEF At, Loops
<1>11. ASSUME \/ \E r \in Reqs : \/ CacheUnfinished(r) \/ Finish(r) \/ AbortWaiting(r)
                                 \/ \E w \in Work : Arrive(r, w)
              \/ WritingCheck \/ LoadingCheck \/ OnIdle
              \/ \E S : CheckDecodeMem(S)
       PROVE  QueueIsForming'
  <2>1. /\ ctl \in {"idle", "loaded"}
        /\ ctl' \in {ctl, "cached", "finish", "backup", "loaded", "done", "drain",
                     "decode", "evict"}
    BY <1>11, InsertMoves, Zenon DEF CacheUnfinished, Finish, AbortWaiting, Arrive,
       WritingCheck, LoadingCheck, OnIdle, CheckDecodeMem, CallDrain, CallEvict, Idle
  <2> QED
    BY <1>2, <1>3, <1>4, <2>1, QueueElsewhere, Zenon DEF At, Loops
<1>12. CASE UNCHANGED vars
  BY <1>12, Zenon DEF vars, dma, reqs, QueueIsForming, At, Added
<1> QED
  BY <1>3, <1>4, <1>5, <1>6, <1>7, <1>8, <1>9, <1>10, <1>11, <1>12, Zenon DEF Next

-----------------------------------------------------------------------------
(* Type correctness.                                                       *)

\* The leaf sets hold nodes of the new tree.
LEMMA LeafTypes ==
  ASSUME nodes' \subseteq Paths, leaves \subseteq Paths, hostLeaves \subseteq Paths,
         NEW T
  PROVE  /\ UpdateLeaves(T) => leaves' \subseteq Paths
         /\ UpdateHostLeaves(T) => hostLeaves' \subseteq Paths
<1>1. UpdateLeaves(T) => leaves' \subseteq leaves \cup nodes'
  BY Zenon DEF UpdateLeaves, IsLeaf, Bare, Kids, Parent
<1>2. UpdateHostLeaves(T) => hostLeaves' \subseteq hostLeaves \cup nodes'
  BY Zenon DEF UpdateHostLeaves, IsHostLeaf, Kids, Parent
<1> QED
  BY <1>1, <1>2, Zenon

\* The sizes stay integers when locks change.
LEMMA SizeTypes ==
  ASSUME Counting, evictableSize \in Int, protectedSize \in Int
  PROVE  \A Inc, Dec, gain : gain \in Int /\ ChangeLocks(Inc, Dec, gain) =>
            evictableSize' \in Int /\ protectedSize' \in Int
<1> SUFFICES ASSUME NEW Inc, NEW Dec, NEW gain \in Int, ChangeLocks(Inc, Dec, gain)
             PROVE  evictableSize' \in Int /\ protectedSize' \in Int
  BY Zenon
<1> DEFINE l == [p \in Paths |-> lockRef[p] + (IF p \in Inc THEN 1 ELSE 0)
                                         - (IF p \in Dec THEN 1 ELSE 0)]
           A == {p \in Paths : lockRef[p] > 0 /\ l[p] = 0}
           B == {p \in Paths : lockRef[p] = 0 /\ l[p] > 0}
<1>1. /\ protectedSize' = protectedSize - (Cardinality(A) - Cardinality(B))
      /\ evictableSize' = evictableSize + (Cardinality(A) - Cardinality(B)) + gain
  BY Zenon DEF ChangeLocks
<1>2. A \in SUBSET Paths /\ B \in SUBSET Paths
  BY Zenon
<1> HIDE DEF A, B
<1>3. Cardinality(A) \in Nat /\ Cardinality(B) \in Nat
  BY <1>2, CardType, Zenon
<1> QED
  BY <1>1, <1>3

\* Segments are finite sets of pages.
LEMMA SegTypes ==
  ASSUME Counting, nodes \subseteq Paths
  PROVE  /\ \A n \in nodes : Cardinality(Seg(n)) \in Nat
         /\ \A N \in SUBSET nodes : Cardinality(Pages(N)) \in Nat
<1>1. \A n \in nodes : Seg(n) \in SUBSET Paths
  BY PathsAssumption, Zenon DEF Seg
<1>2. \A N \in SUBSET nodes : Pages(N) \in SUBSET Paths
  BY <1>1, Zenon DEF Pages
<1> QED
  BY <1>1, <1>2, CardType, Zenon

\* Deleting nodes keeps the load-back lists lists of sets of nodes.
LEMMA ForgetTypes ==
  ASSUME NEW D, loadBack \in [Reqs -> Seq(SUBSET Paths)], Forget(D)
  PROVE  loadBack' \in [Reqs -> Seq(SUBSET Paths)]
<1>1. loadBack' = [r \in Reqs |-> [i \in DOMAIN loadBack[r] |-> loadBack[r][i] \ D]]
  BY Zenon DEF Forget
<1>2. ASSUME NEW s \in Seq(SUBSET Paths)
      PROVE  [i \in DOMAIN s |-> s[i] \ D] \in Seq(SUBSET Paths)
  <2>1. Len(s) \in Nat /\ DOMAIN s = 1..Len(s) /\ \A i \in 1..Len(s) : s[i] \in SUBSET Paths
    OBVIOUS
  <2>2. [i \in 1..Len(s) |-> s[i] \ D] \in Seq(SUBSET Paths)
    BY <2>1
  <2> QED
    BY <2>1, <2>2, Zenon
<1>3. \A r \in Reqs : [i \in DOMAIN loadBack[r] |-> loadBack[r][i] \ D] \in Seq(SUBSET Paths)
  BY <1>2, Zenon
<1> QED
  BY <1>1, <1>3, Zenon

\* Sets of requests and the pages they need are finite.
LEMMA NeedTypes ==
  ASSUME Control
  PROVE  /\ Cardinality(want) \in Nat /\ Cardinality(Running) \in Nat
         /\ Cardinality(Added) \in Nat /\ Cardinality(Extend(Added)) \in Nat
         /\ \A S \in SUBSET Reqs : Cardinality(S) \in Nat
<1>1. \A S \in SUBSET Reqs : Cardinality(S) \in Nat
  BY CardType, ControlCounts, Zenon
<1>2. want \in SUBSET Reqs /\ Running \in SUBSET Reqs /\ Added \in SUBSET Reqs
  BY Zenon DEF Control, ControlType, Running, Added
<1>4. Extend(Added) \in SUBSET Slots
  BY <1>2, Zenon DEF Extend, Slots
<1>5. Cardinality(Extend(Added)) \in Nat
  BY <1>4, Zenon DEF Control, Counting, Counted
<1> QED
  BY <1>1, <1>2, <1>5, Zenon

\* Steps that change neither the tree nor the marks: only the number of pages
\* to evict, the nodes to visit and the load-back list of a new request.
LEMMA TypesQuiet ==
  ASSUME Control, CacheInv, CacheInv', Types,
         \/ AddRefused \/ AddOneReq \/ AdmitRefused \/ OnIdle \/ HandlerDone
         \/ (\E S \in SUBSET Reqs : CheckDecodeMem(S)) \/ DecodeFits \/ RetractDecode
         \/ Shrink \/ Recheck \/ StartBatch \/ PrepareForExtend \/ AllocForDecode
         \/ LoadingCheckDone \/ FreeDuplicates \/ UNCHANGED vars
         \/ (\E r \in Reqs, w \in Work : Arrive(r, w))
         \/ (\E r \in Reqs : AbortWaiting(r))
  PROVE  Types'
<1>1. UNCHANGED <<leaves, hostLeaves, marks, hostFree, evictableSize, protectedSize>>
  BY Zenon DEF AddRefused, AddOneReq, AdmitRefused, OnIdle, HandlerDone, CheckDecodeMem,
     DecodeFits, RetractDecode, Shrink, Recheck, StartBatch, PrepareForExtend,
     AllocForDecode, LoadingCheckDone, FreeDuplicates, vars, Arrive, AbortWaiting,
     pools, marks
<1>2. todo' \subseteq Paths
  <2>1. Unbacked(nodes, Prompt(cur)) \subseteq Paths
    BY Zenon DEF Unbacked, CacheInv, TreeInv
  <2>2. todo' \in {todo, {}, pending, Unbacked(nodes, Prompt(cur))}
    BY Zenon DEF AddRefused, AddOneReq, AdmitRefused, OnIdle, HandlerDone, CheckDecodeMem,
     DecodeFits, RetractDecode, Shrink, Recheck, StartBatch, PrepareForExtend,
     AllocForDecode, LoadingCheckDone, FreeDuplicates, vars, Arrive, AbortWaiting,
     locals, CallDrain, CallBackup, Home
  <2> QED
    BY <2>1, <2>2, Zenon DEF Types, MarkTypes
<1>3. need' \in Nat
  <2>1. CASE AddOneReq
    <3>1. cur \in Reqs /\ fill[cur] \in Paths \cup {Root}
      BY <2>1, Zenon DEF AddOneReq, Control, ControlType, CurrentRequest, At
    <3>2. Matched(fill[cur]) \in Paths \cup {Root}
      BY <3>1, TreeTypes, Zenon DEF CacheInv, TreeInv
    <3>3. HostHit(cur) \in SUBSET Paths
      BY <3>2, AncType, Zenon DEF HostHit
    <3>4. Cardinality(HostHit(cur)) \in Nat
      BY <3>3, CardType, ControlCounts, Zenon
    <3> QED
      BY <2>1, <3>4, Zenon DEF AddOneReq, CallEvict, Types, CounterTypes
  <2>2. CASE \E S \in SUBSET Reqs : CheckDecodeMem(S)
    BY <2>2, NeedTypes, Zenon DEF CheckDecodeMem, CallEvict
  <2>3. CASE StartBatch
    <3>1. PICK over \in 1..Cardinality(Added) :
              need' = Cardinality(Extend(Added)) + Cardinality(Added) + over
      BY <2>3, Zenon DEF StartBatch, CallEvict
    <3> QED
      BY <3>1, NeedTypes
  <2>4. CASE DecodeFits \/ Shrink \/ Recheck
    <3>1. Cardinality(want) \in Nat /\ Cardinality(Running) \in Nat
          /\ RetractPages(Cardinality(Running)) \in Nat
      BY NeedTypes DEF RetractPages
    <3> QED
      BY <2>4, <3>1, Zenon DEF DecodeFits, Shrink, Recheck, CallEvict
  <2>5. CASE \/ AddRefused \/ AdmitRefused \/ OnIdle \/ HandlerDone \/ RetractDecode
             \/ PrepareForExtend \/ AllocForDecode \/ LoadingCheckDone
             \/ FreeDuplicates \/ UNCHANGED vars
             \/ (\E r \in Reqs, w \in Work : Arrive(r, w))
             \/ (\E r \in Reqs : AbortWaiting(r))
    <3>1. need' \in {need, 0}
      BY <2>5, Zenon DEF AddRefused, AdmitRefused, OnIdle, HandlerDone, RetractDecode,
         PrepareForExtend, AllocForDecode, LoadingCheckDone, FreeDuplicates, vars,
         Arrive, AbortWaiting, locals, Home
    <3> QED
      BY <3>1 DEF Types, CounterTypes
  <2> QED
    BY <2>1, <2>2, <2>3, <2>4, <2>5, Zenon
<1>4. loadBack' = loadBack \/ \E r \in Reqs : loadBack' = [loadBack EXCEPT ![r] = <<>>]
  BY Zenon DEF AddRefused, AddOneReq, AdmitRefused, OnIdle, HandlerDone, CheckDecodeMem,
     DecodeFits, RetractDecode, Shrink, Recheck, StartBatch, PrepareForExtend,
     AllocForDecode, LoadingCheckDone, FreeDuplicates, vars, Arrive, AbortWaiting, reqs
<1>5. tailQueue' \in {tailQueue, {}} /\ prefixLen' \in {prefixLen, Root}
  BY Zenon DEF AddRefused, AddOneReq, AdmitRefused, OnIdle, HandlerDone, CheckDecodeMem,
     DecodeFits, RetractDecode, Shrink, Recheck, StartBatch, PrepareForExtend,
     AllocForDecode, LoadingCheckDone, FreeDuplicates, vars, Arrive, AbortWaiting,
     locals, Home
<1>6. ListTypes'
  <2>1. loadBack' \in [Reqs -> Seq(SUBSET Paths)]
    <3>1. loadBack \in [Reqs -> Seq(SUBSET Paths)] /\ <<>> \in Seq(SUBSET Paths)
      BY DEF Types, ListTypes
    <3> QED
      BY <1>4, <3>1, Zenon
  <2> QED
    BY <1>5, <2>1, Zenon DEF Types, ListTypes
<1> QED
  BY <1>1, <1>2, <1>3, <1>6, Zenon DEF Types, MarkTypes, CounterTypes, marks

\* match_prefix and insert(): the nodes to back up and to mark are nodes.
LEMMA TypesInsert ==
  ASSUME Control, CacheInv, CacheInv', Types, NEW r \in Reqs,
         \/ MatchPrefix(r)
         \/ phase[r] # "out" /\ \E label \in {"cached", "finish"} : Insert(r, label)
  PROVE  Types'
<1>1. nodes \subseteq Paths /\ nodes' \subseteq Paths
  BY Zenon DEF CacheInv, TreeInv
<1>2. MarkTypes /\ CounterTypes /\ ListTypes
  BY Zenon DEF Types
<1>3. CASE MatchPrefix(r)
  <2>1. /\ todo' = Unbacked(nodes', fill[r])
        /\ UNCHANGED <<pools, marks, loadBack, tailQueue, prefixLen, need>>
    BY <1>3, Zenon DEF MatchPrefix, CallBackup, reqs
  <2>2. todo' \subseteq Paths
    BY <1>1, <2>1, Zenon DEF Unbacked
  <2> QED
    BY <1>2, <2>1, <2>2, Zenon DEF Types, MarkTypes, CounterTypes, ListTypes, pools, marks
<1>4. ASSUME phase[r] # "out", NEW label \in {"cached", "finish"}, Insert(r, label)
      PROVE  Types'
  <2> DEFINE key == Prompt(r)
             m == Matched(key)
             d == DevMatched(key)
             refilled == {n \in nodes' : n \in Anc[m] \ Anc[d]}
             fresh == {key} \ {m}
  <2>1. key \in Paths
    <3>1. key \in Anc[fill[r]] /\ fill[r] \in Paths \cup {Root}
      BY <1>4, Zenon DEF Control, ControlType, RequestShape
    <3> QED
      BY <3>1, AncType, Zenon
  <2>2. d \in Paths \cup {Root}
    BY <1>1, <2>1, TreeTypes, Zenon
  <2>3. /\ prefixLen' = d
        /\ evictableSize' = evictableSize + Cardinality(Anc[key] \ Anc[d])
        /\ pending' = pending \cup (refilled \cap backed)
        /\ demoteAfterWrite' = demoteAfterWrite \cup (refilled \ backed) \cup fresh
        /\ todo' = Unbacked(nodes', key)
        /\ UNCHANGED <<hostFree, protectedSize, writeDemote, loadBack, tailQueue, need>>
    BY <1>4, Zenon DEF Insert, CallBackup, reqs
  <2>4. leaves' \subseteq Paths /\ hostLeaves' \subseteq Paths
    <3>1. /\ UpdateLeaves(refilled \cup fresh \cup {Parent(n)' : n \in refilled \cup fresh})
          /\ UpdateHostLeaves(refilled)
      BY <1>4, Zenon DEF Insert
    <3> HIDE DEF refilled, fresh
    <3>2. PICK T, U : UpdateLeaves(T) /\ UpdateHostLeaves(U)
      BY <3>1, Zenon
    <3> QED
      BY <1>1, <1>2, <3>2, LeafTypes, Zenon DEF MarkTypes
  <2>5. Cardinality(Anc[key] \ Anc[d]) \in Nat
    <3>1. Anc[key] \ Anc[d] \in SUBSET Paths
      BY <2>1, AncType, Zenon
    <3> QED
      BY <3>1, CardType, ControlCounts, Zenon
  <2>6. refilled \subseteq Paths /\ fresh \subseteq Paths /\ todo' \subseteq Paths
    BY <1>1, <2>1, <2>3, Zenon DEF Unbacked
  <2> HIDE DEF refilled, fresh, key, d, m
  <2>7. MarkTypes'
    <3>1. pending' \subseteq Paths /\ demoteAfterWrite' \subseteq Paths
      BY <1>2, <2>3, <2>6, Zenon DEF MarkTypes
    <3>2. writeDemote' \subseteq Paths
      BY <1>2, <2>3, Zenon DEF MarkTypes
    <3> QED
      BY <2>4, <2>6, <3>1, <3>2, Zenon DEF MarkTypes
  <2>8. CounterTypes'
    <3>1. UNCHANGED hostFree /\ UNCHANGED protectedSize /\ UNCHANGED need
      BY <2>3, Zenon
    <3>2. evictableSize' \in Int
      <4>1. evictableSize' = evictableSize + Cardinality(Anc[key] \ Anc[d])
        BY <2>3, Zenon
      <4>2. evictableSize \in Int
        BY <1>2, Zenon DEF CounterTypes
      <4>3. PICK c : c = Cardinality(Anc[key] \ Anc[d]) /\ c \in Nat
        BY <2>5, Zenon
      <4>4. evictableSize' = evictableSize + c
        BY <4>1, <4>3, Zenon
      <4> QED
        BY <4>2, <4>3, <4>4
    <3> QED
      BY <1>2, <3>1, <3>2, Zenon DEF CounterTypes
  <2>9. ListTypes'
    BY <1>2, <2>2, <2>3, Zenon DEF ListTypes
  <2> QED
    BY <2>7, <2>8, <2>9, Zenon DEF Types
<1> QED
  BY <1>3, <1>4, Zenon

\* Locks taken, moved and released.
LEMMA TypesLocks ==
  ASSUME Control, CacheInv, CacheInv', Types,
         Admit \/ Relock \/ ReleaseFinished \/ ReleaseRetracted \/ LoadingCheck
  PROVE  Types'
<1>1. nodes \subseteq Paths /\ nodes' \subseteq Paths
  BY Zenon DEF CacheInv, TreeInv
<1>2. MarkTypes /\ CounterTypes /\ ListTypes
  BY Zenon DEF Types
<1>3. PICK Inc, Dec : ChangeLocks(Inc, Dec, 0)
  BY Zenon DEF Admit, Relock, ReleaseFinished, ReleaseRetracted, LoadingCheck, Release, Unlock
<1>4. PICK T : UpdateLeaves(T)
  BY Zenon DEF Admit, Relock, ReleaseFinished, ReleaseRetracted, LoadingCheck, Release, Unlock
<1>5. PICK U : UpdateHostLeaves(U)
  BY Zenon DEF Admit, Relock, ReleaseFinished, ReleaseRetracted, LoadingCheck, Release, Unlock
<1>6. leaves' \subseteq Paths /\ hostLeaves' \subseteq Paths
  BY <1>1, <1>2, <1>4, <1>5, LeafTypes, Zenon DEF MarkTypes
<1>7. evictableSize' \in Int /\ protectedSize' \in Int
  BY <1>2, <1>3, SizeTypes DEF CounterTypes, Control
<1>8. /\ todo' \in {todo, {}, pending} /\ need' \in {need, 0}
      /\ prefixLen' \in {prefixLen, Root} /\ hostFree' = hostFree
      /\ UNCHANGED <<demoteAfterWrite, writeDemote, pending>>
  BY Zenon DEF Admit, Relock, ReleaseFinished, ReleaseRetracted, LoadingCheck, Release, Unlock,
     CallDrain, Home, marks, locals
<1>9. tailQueue' \in {tailQueue, {}, LoadBackTail(cur)}
  BY Zenon DEF Admit, Relock, ReleaseFinished, ReleaseRetracted, LoadingCheck, Release,
     Home, locals
<1>10. ASSUME ReleaseFinished \/ ReleaseRetracted
       PROVE  LoadBackTail(cur) \subseteq Nat \X Paths
  <2>1. cur \in Reqs
    BY <1>10, Zenon DEF ReleaseFinished, ReleaseRetracted, Control, CurrentRequest, At
  <2>2. PICK list \in Seq(SUBSET Paths) : list = loadBack[cur]
    BY <1>2, <2>1, Zenon DEF ListTypes
  <2>3. LoadBackTail(cur) \subseteq (DOMAIN loadBack[cur]) \X nodes
    BY Zenon DEF LoadBackTail
  <2>4. DOMAIN list \subseteq Nat
    OBVIOUS
  <2> QED
    BY <1>1, <2>2, <2>3, <2>4, Zenon
<1>11. Admit \/ Relock \/ LoadingCheck => tailQueue' \in {tailQueue, {}}
  BY Zenon DEF Admit, Relock, LoadingCheck, Home, locals
<1>12. loadBack' = loadBack \/ loadBack' = [loadBack EXCEPT ![cur] = <<>>]
  BY Zenon DEF Admit, Relock, ReleaseFinished, ReleaseRetracted, LoadingCheck, Release, reqs
<1>13. ListTypes'
  <2>1. loadBack \in [Reqs -> Seq(SUBSET Paths)] /\ <<>> \in Seq(SUBSET Paths)
    BY <1>2 DEF ListTypes
  <2>2. loadBack' \in [Reqs -> Seq(SUBSET Paths)]
    BY <1>12, <2>1, Zenon
  <2> QED
    BY <1>2, <1>8, <1>9, <1>10, <1>11, <2>2, Zenon DEF ListTypes
<1> QED
  BY <1>2, <1>6, <1>7, <1>8, <1>13 DEF Types, MarkTypes, CounterTypes

\* load_back.
LEMMA TypesLoadBack ==
  ASSUME Control, CacheInv, CacheInv', Types, LoadBack
  PROVE  Types'
<1> DEFINE hit == HostHit(cur)
<1>1. nodes \subseteq Paths /\ nodes' \subseteq Paths
  BY Zenon DEF CacheInv, TreeInv
<1>2. MarkTypes /\ CounterTypes /\ ListTypes
  BY Zenon DEF Types
<1>3. UNCHANGED <<demoteAfterWrite, writeDemote, pending, todo, tailQueue, prefixLen,
                  need>>
  BY Zenon DEF LoadBack, marks, locals
<1>4. cur \in Reqs /\ fill[cur] \in Paths \cup {Root}
  BY Zenon DEF LoadBack, Control, ControlType, CurrentRequest, At
<1>5. hit \in SUBSET Paths
  BY <1>1, <1>4, TreeTypes, AncType, Zenon DEF HostHit
<1>6. \/ UNCHANGED <<pools, loadBack>>
      \/ /\ \E Inc, Dec : ChangeLocks(Inc, Dec, Cardinality(hit))
         /\ \E T : UpdateLeaves(T)
         /\ \E U : UpdateHostLeaves(U)
         /\ hostFree' = hostFree
         /\ loadBack' = [loadBack EXCEPT ![cur] = Append(@, hit \cap nodes)]
  BY Zenon DEF LoadBack
<1>7. CASE UNCHANGED <<pools, loadBack>>
  BY <1>2, <1>3, <1>7, Zenon DEF Types, MarkTypes, CounterTypes, ListTypes, pools
<1>8. CASE ~ UNCHANGED <<pools, loadBack>>
  <2> HIDE DEF hit
  <2>1. PICK g : g = Cardinality(hit)
    BY Zenon
  <2>2. PICK Inc, Dec : ChangeLocks(Inc, Dec, g)
    BY <1>6, <1>8, <2>1, Zenon
  <2>3. PICK T : UpdateLeaves(T)
    BY <1>6, <1>8, Zenon
  <2>4. PICK U : UpdateHostLeaves(U)
    BY <1>6, <1>8, Zenon
  <2>5. g \in Int
    BY <1>5, <2>1, CardType, ControlCounts
  <2>6. evictableSize' \in Int /\ protectedSize' \in Int
    BY <1>2, <2>2, <2>5, SizeTypes, Zenon DEF CounterTypes, Control
  <2>7. leaves' \subseteq Paths /\ hostLeaves' \subseteq Paths
    BY <1>1, <1>2, <2>3, <2>4, LeafTypes, Zenon DEF MarkTypes
  <2>8. loadBack' \in [Reqs -> Seq(SUBSET Paths)]
    <3>1. /\ loadBack \in [Reqs -> Seq(SUBSET Paths)]
          /\ loadBack' = [loadBack EXCEPT ![cur] = Append(loadBack[cur], hit \cap nodes)]
      BY <1>2, <1>6, <1>8, Zenon DEF ListTypes
    <3>2. Append(loadBack[cur], hit \cap nodes) \in Seq(SUBSET Paths)
      BY <1>4, <1>5, <3>1
    <3> QED
      BY <3>1, <3>2, Zenon
  <2> QED
    BY <1>2, <1>3, <1>6, <1>8, <2>6, <2>7, <2>8
       DEF Types, MarkTypes, CounterTypes, ListTypes
<1> QED
  BY <1>7, <1>8, Zenon

\* evict().
LEMMA TypesEvict ==
  ASSUME Control, CacheInv, CacheInv', Types, Evict
  PROVE  Types'
<1>1. nodes \subseteq Paths /\ nodes' \subseteq Paths
  BY Zenon DEF CacheInv, TreeInv
<1>2. MarkTypes /\ CounterTypes /\ ListTypes
  BY Zenon DEF Types
<1>3. PICK E \in SUBSET nodes :
          /\ evictableSize' = evictableSize - Cardinality(Pages(E))
          /\ Forget(E \ backed)
          /\ pending' = pending \ (E \ backed)
          /\ demoteAfterWrite' = demoteAfterWrite \ (E \ backed)
          /\ UpdateLeaves(E \cup {Parent(n) : n \in E})
          /\ UpdateHostLeaves(E)
  BY Zenon DEF Evict, EvictSets, Evictable
<1>4. PICK T, D : UpdateLeaves(T) /\ Forget(D)
  BY <1>3, Zenon
<1>5. leaves' \subseteq Paths /\ hostLeaves' \subseteq Paths
  BY <1>1, <1>2, <1>3, <1>4, LeafTypes, Zenon DEF MarkTypes
<1>6. Cardinality(Pages(E)) \in Nat
  BY <1>1, SegTypes, ControlCounts, Zenon
<1>7. loadBack' \in [Reqs -> Seq(SUBSET Paths)]
  BY <1>2, <1>4, ForgetTypes, Zenon DEF ListTypes
<1>8. UNCHANGED <<hostFree, protectedSize, writeDemote, todo, tailQueue, prefixLen, need>>
  BY Zenon DEF Evict, locals
<1>9. MarkTypes'
  BY <1>2, <1>3, <1>5, <1>8, Zenon DEF MarkTypes
<1>10. CounterTypes'
  <2>1. PICK c : c = Cardinality(Pages(E)) /\ c \in Nat
    BY <1>6, Zenon
  <2>2. evictableSize' = evictableSize - c
    BY <1>3, <2>1, Zenon
  <2> QED
    BY <1>2, <1>8, <2>1, <2>2 DEF CounterTypes
<1>11. ListTypes'
  BY <1>2, <1>7, <1>8, Zenon DEF ListTypes
<1> QED
  BY <1>9, <1>10, <1>11, Zenon DEF Types

\* write_backup: it takes host pages only when there are enough.
LEMMA TypesBackup ==
  ASSUME Control, CacheInv, CacheInv', Types, WriteBackup
  PROVE  Types'
<1>1. nodes \subseteq Paths /\ nodes' \subseteq Paths
  BY Zenon DEF CacheInv, TreeInv
<1>2. MarkTypes /\ CounterTypes /\ ListTypes
  BY Zenon DEF Types
<1>3. PICK n \in todo, H \in SUBSET nodes :
          /\ Forget(H)
          /\ pending' = pending \ H
          /\ \/ hostFree' = hostFree + Cardinality(Pages(H))
             \/ /\ hostFree' = (hostFree + Cardinality(Pages(H))) - Cardinality(Seg(n))
                /\ hostFree + Cardinality(Pages(H)) >= Cardinality(Seg(n))
          /\ \E Inc : ChangeLocks(Inc, {}, 0)
          /\ writeDemote' \subseteq writeDemote \cup {n}
          /\ demoteAfterWrite' \subseteq demoteAfterWrite
          /\ \E T : UpdateLeaves(T)
          /\ \E U : UpdateHostLeaves(U)
          /\ todo' = todo \ {n}
  <2>1. PICK n \in todo :
          LET size == Cardinality(Seg(n))
              ready == Parent(n) \in backed \cup {Root}
          IN
          /\ \E H \in IF ready /\ hostFree < size THEN HostEvictSets(size) ELSE {{}} :
               LET room == hostFree + Cardinality(Pages(H))
                   ok == ready /\ room >= size
               IN
               /\ Forget(H)
               /\ pending' = pending \ H
               /\ hostFree' = IF ok THEN room - size ELSE room
               /\ ChangeLocks(IF ok THEN Anc[n] ELSE {}, {}, 0)
               /\ IF ok /\ n \in demoteAfterWrite
                  THEN /\ writeDemote' = writeDemote \cup {n}
                       /\ demoteAfterWrite' = demoteAfterWrite \ {n}
                  ELSE UNCHANGED <<writeDemote, demoteAfterWrite>>
               /\ UpdateLeaves(IF ok THEN Anc[n] \cap nodes ELSE {})
               /\ UpdateHostLeaves(H \cup {Parent(h) : h \in H}
                                     \cup (IF ok THEN Anc[n] \cap nodes ELSE {}))
          /\ todo' = todo \ {n}
    BY ZenonT(90) DEF WriteBackup
  <2>2. \A k : HostEvictSets(k) \subseteq SUBSET nodes
    BY Zenon DEF HostEvictSets, HostEvictable
  <2> DEFINE size == Cardinality(Seg(n))
             ready == Parent(n) \in backed \cup {Root}
  <2>3. PICK H \in IF ready /\ hostFree < size THEN HostEvictSets(size) ELSE {{}} :
          LET room == hostFree + Cardinality(Pages(H))
              ok == ready /\ room >= size
          IN
          /\ Forget(H)
          /\ pending' = pending \ H
          /\ hostFree' = IF ok THEN room - size ELSE room
          /\ ChangeLocks(IF ok THEN Anc[n] ELSE {}, {}, 0)
          /\ IF ok /\ n \in demoteAfterWrite
             THEN /\ writeDemote' = writeDemote \cup {n}
                  /\ demoteAfterWrite' = demoteAfterWrite \ {n}
             ELSE UNCHANGED <<writeDemote, demoteAfterWrite>>
          /\ UpdateLeaves(IF ok THEN Anc[n] \cap nodes ELSE {})
          /\ UpdateHostLeaves(H \cup {Parent(h) : h \in H}
                                \cup (IF ok THEN Anc[n] \cap nodes ELSE {}))
    BY <2>1, Zenon
  <2>4. H \in SUBSET nodes
    BY <2>2, <2>3, Zenon
  <2>5. /\ \/ hostFree' = hostFree + Cardinality(Pages(H))
           \/ /\ hostFree' = (hostFree + Cardinality(Pages(H))) - Cardinality(Seg(n))
              /\ hostFree + Cardinality(Pages(H)) >= Cardinality(Seg(n))
        /\ writeDemote' \subseteq writeDemote \cup {n}
        /\ demoteAfterWrite' \subseteq demoteAfterWrite
    <3> DEFINE room == hostFree + Cardinality(Pages(H))
               ok == ready /\ room >= size
    <3>1. /\ hostFree' = IF ok THEN room - size ELSE room
          /\ IF ok /\ n \in demoteAfterWrite
             THEN /\ writeDemote' = writeDemote \cup {n}
                  /\ demoteAfterWrite' = demoteAfterWrite \ {n}
             ELSE UNCHANGED <<writeDemote, demoteAfterWrite>>
      BY <2>3, Zenon
    <3>2. ok => room >= size
      BY Zenon
    <3> HIDE DEF ok
    <3>3. \/ hostFree' = room
          \/ hostFree' = room - size /\ room >= size
      BY <3>1, <3>2, Zenon
    <3>4. writeDemote' \subseteq writeDemote \cup {n} /\ demoteAfterWrite' \subseteq demoteAfterWrite
      BY <3>1, Zenon
    <3> QED
      BY <3>3, <3>4, Zenon
  <2>6. /\ Forget(H) /\ pending' = pending \ H /\ todo' = todo \ {n}
        /\ \E Inc : ChangeLocks(Inc, {}, 0)
        /\ \E T : UpdateLeaves(T)
        /\ \E U : UpdateHostLeaves(U)
    BY <2>1, <2>3, Zenon
  <2> QED
    BY <2>4, <2>5, <2>6, Zenon
<1>4. PICK Inc, T, U : ChangeLocks(Inc, {}, 0) /\ UpdateLeaves(T) /\ UpdateHostLeaves(U)
  BY <1>3, Zenon
<1>5. leaves' \subseteq Paths /\ hostLeaves' \subseteq Paths
  BY <1>1, <1>2, <1>4, LeafTypes, Zenon DEF MarkTypes
<1>6. evictableSize' \in Int /\ protectedSize' \in Int
  BY <1>2, <1>4, SizeTypes DEF CounterTypes, Control
<1>7. hostFree' \in Nat
  <2>1. n \in nodes
    BY Zenon DEF CacheInv, LoopInv, WriteBackup
  <2>2. Cardinality(Pages(H)) \in Nat /\ Cardinality(Seg(n)) \in Nat
    BY <1>1, <2>1, SegTypes, ControlCounts, Zenon
  <2> QED
    BY <1>2, <1>3, <2>2 DEF CounterTypes
<1>8. loadBack' \in [Reqs -> Seq(SUBSET Paths)]
  BY <1>2, <1>3, ForgetTypes, Zenon DEF ListTypes
<1>9. UNCHANGED <<tailQueue, prefixLen, need>>
  BY Zenon DEF WriteBackup
<1> QED
  BY <1>2, <1>3, <1>5, <1>6, <1>7, <1>8, <1>9
     DEF Types, MarkTypes, CounterTypes, ListTypes

\* Demotions, tried by a handler or by writing_check.
LEMMA TypesDemote ==
  ASSUME Control, CacheInv, CacheInv', Types, DemoteTail \/ DrainPending \/ WritingCheck
  PROVE  Types'
<1>1. nodes \subseteq Paths /\ nodes' \subseteq Paths
  BY Zenon DEF CacheInv, TreeInv
<1>2. MarkTypes /\ CounterTypes /\ ListTypes
  BY Zenon DEF Types
<1>3. /\ demoteAfterWrite' = demoteAfterWrite /\ writeDemote' \subseteq writeDemote
      /\ todo' \in {todo, pending} \/ todo' \subseteq todo
      /\ tailQueue' \subseteq tailQueue
      /\ UNCHANGED <<loadBack, prefixLen, need>>
  BY Zenon DEF DemoteTail, DrainPending, WritingCheck, CallDrain, reqs, locals
<1>4. \/ UNCHANGED <<pools, pending>>
      \/ \E n, D : TryDemote(n, D)
      \/ \E D : Unlock(D) /\ UNCHANGED pending
  BY Zenon DEF DemoteTail, DrainPending, WritingCheck
<1> DEFINE Sound == /\ pending' \subseteq Paths /\ hostFree' \in Nat
                    /\ evictableSize' \in Int /\ protectedSize' \in Int
                    /\ leaves' \subseteq Paths /\ hostLeaves' \subseteq Paths
<1>5. Sound
  <2>1. CASE UNCHANGED <<pools, pending>>
    BY <1>2, <2>1, Zenon DEF MarkTypes, CounterTypes, pools
  <2>2. ASSUME NEW D, Unlock(D), UNCHANGED pending
        PROVE  Sound
    <3>1. PICK I, g : ChangeLocks(I, D, g) /\ g = 0
      BY <2>2, Zenon DEF Unlock
    <3>2. PICK T : UpdateLeaves(T) /\ UpdateHostLeaves(T)
      BY <2>2, Zenon DEF Unlock
    <3>3. evictableSize' \in Int /\ protectedSize' \in Int
      BY <1>2, <3>1, SizeTypes DEF CounterTypes, Control
    <3>4. leaves' \subseteq Paths /\ hostLeaves' \subseteq Paths
      BY <1>1, <1>2, <3>2, LeafTypes, Zenon DEF MarkTypes
    <3> QED
      BY <1>2, <2>2, <3>3, <3>4, Zenon DEF MarkTypes, CounterTypes, Unlock
  <2>3. ASSUME NEW n, NEW D, TryDemote(n, D)
        PROVE  Sound
    <3>1. pending' \subseteq pending \cup nodes /\ hostFree' = hostFree
      BY <2>3, Zenon DEF TryDemote, Demotable
    <3>2. PICK N \in SUBSET nodes : ChangeLocks({}, D, 0 - Cardinality(Pages(N)))
      <4>1. CASE Demotable(n) /\ ~ lockRef[n] > (IF n \in D THEN 1 ELSE 0) /\ Bare(n)
        <5>1. {n} \in SUBSET nodes /\ Pages({n}) = Seg(n)
          BY <4>1, Zenon DEF Demotable, Pages
        <5>2. ChangeLocks({}, D, 0 - Cardinality(Seg(n)))
          BY <2>3, <4>1, Zenon DEF TryDemote
        <5> QED
          BY <5>1, <5>2, Zenon
      <4>2. CASE ~ (Demotable(n) /\ ~ lockRef[n] > (IF n \in D THEN 1 ELSE 0) /\ Bare(n))
        <5>1. {} \in SUBSET nodes /\ Pages({}) = {}
          BY Zenon DEF Pages
        <5>2. ChangeLocks({}, D, 0 - Cardinality({}))
          BY <2>3, <4>2, Zenon DEF TryDemote
        <5> QED
          BY <5>1, <5>2, Zenon
      <4> QED
        BY <4>1, <4>2, Zenon
    <3>3. PICK g \in Int : ChangeLocks({}, D, g)
      <4>1. Cardinality(Pages(N)) \in Nat
        BY <1>1, SegTypes, ControlCounts, Zenon
      <4> QED
        BY <3>2, <4>1
    <3>4. PICK T, U : UpdateLeaves(T) /\ UpdateHostLeaves(U)
      BY <2>3, Zenon DEF TryDemote
    <3>5. evictableSize' \in Int /\ protectedSize' \in Int
      BY <1>2, <3>3, SizeTypes, Zenon DEF CounterTypes, Control
    <3>6. leaves' \subseteq Paths /\ hostLeaves' \subseteq Paths
      BY <1>1, <1>2, <3>4, LeafTypes, Zenon DEF MarkTypes
    <3> QED
      BY <1>1, <1>2, <3>1, <3>5, <3>6, Zenon DEF MarkTypes, CounterTypes
  <2> HIDE DEF Sound
  <2> QED
    BY <1>4, <2>1, <2>2, <2>3, Zenon
<1> QED
  BY <1>2, <1>3, <1>5, Zenon DEF Types, MarkTypes, CounterTypes, ListTypes

\* Every step keeps the types.
LEMMA TypesStep ==
  ASSUME Control, CacheInv, CacheInv', Types, [Next]_vars
  PROVE  Types'
<1>2. ASSUME NEW r \in Reqs, MatchPrefix(r) \/ CacheUnfinished(r) \/ Finish(r)
      PROVE  Types'
  <2>1. \/ MatchPrefix(r)
        \/ phase[r] # "out" /\ \E label \in {"cached", "finish"} : Insert(r, label)
    BY <1>2, Zenon DEF CacheUnfinished, Finish
  <2> QED
    BY <2>1, TypesInsert, Zenon
<1>3. CASE Admit \/ Relock \/ ReleaseFinished \/ ReleaseRetracted \/ LoadingCheck
  BY <1>3, TypesLocks, Zenon
<1>4. CASE LoadBack \/ Evict \/ WriteBackup
  BY <1>4, TypesLoadBack, TypesEvict, TypesBackup, Zenon
<1>5. CASE DemoteTail \/ DrainPending \/ WritingCheck
  BY <1>5, TypesDemote, Zenon
<1>6. CASE \/ AddRefused \/ AddOneReq \/ AdmitRefused \/ OnIdle \/ HandlerDone
           \/ (\E S \in SUBSET {r \in Running : fill[r] # Full(r)} : CheckDecodeMem(S))
           \/ DecodeFits \/ RetractDecode
           \/ Shrink \/ Recheck \/ StartBatch \/ PrepareForExtend \/ AllocForDecode
           \/ LoadingCheckDone \/ FreeDuplicates \/ UNCHANGED vars
           \/ (\E r \in Reqs, w \in Work : Arrive(r, w))
           \/ (\E r \in Reqs : AbortWaiting(r))
  <2>1. {r \in Running : fill[r] # Full(r)} \subseteq Reqs
    BY Zenon DEF Running
  <2> QED
    BY <1>6, <2>1, TypesQuiet, Zenon
<1> QED
  BY <1>2, <1>3, <1>4, <1>5, <1>6, Zenon DEF Next

-----------------------------------------------------------------------------
(* Steps that change control only.                                         *)

\* A request arrives or is aborted while it waits.
LEMMA ArriveStep ==
  ASSUME Control, CacheInv, NEW r \in Reqs, NEW w \in Work,
         Arrive(r, w) \/ AbortWaiting(r)
  PROVE  CacheInv' /\ Stays
<1>1. \A s \in Reqs : \/ phase'[s] = phase[s] /\ fill'[s] = fill[s]
                      \/ phase'[s] \in {"out", "waiting"}
  BY Zenon DEF Arrive, AbortWaiting, Leave, Control, ControlType
<1>2. TreeInv' /\ LockInv' /\ TableInv' /\ Stays
  BY <1>1, QuietStep, Zenon DEF Arrive, AbortWaiting, pools
<1>3. LoopInv'
  BY Zenon DEF LoopInv, Arrive, AbortWaiting, Idle, At, Loops, CacheInv
<1> QED
  BY <1>2, <1>3, Zenon DEF CacheInv

\* Steps that call evict() or drain, return home, or pass to the next label.
LEMMA ControlOnlyStep ==
  ASSUME Control, CacheInv,
         \/ AddRefused \/ AddOneReq \/ AdmitRefused \/ OnIdle \/ HandlerDone
         \/ (\E S : CheckDecodeMem(S)) \/ DecodeFits \/ RetractDecode
         \/ Shrink \/ Recheck
  PROVE  CacheInv' /\ Stays
<1>1. UNCHANGED <<tree, free, kv, tail, lastNode, prot, dma, phase, fill, work>>
  BY Zenon DEF AddRefused, AddOneReq, AdmitRefused, OnIdle, HandlerDone, CheckDecodeMem,
     DecodeFits, RetractDecode, Shrink, Recheck, pools, reqs
<1>2. TreeInv' /\ LockInv' /\ TableInv' /\ Stays
  BY <1>1, QuietStep, Zenon
<1>3. /\ nodes' = nodes /\ dev' = dev /\ backed' = backed /\ loads' = loads
      /\ Matched(fill[cur])' = Deepest(Anc[fill'[cur']] \cap Tree')
      /\ Tree' = Tree
  BY <1>1, Zenon DEF tree, dma, Matched, Tree
<1>4. LoopInv'
  <2>1. CASE AddOneReq
    <3>1. /\ ctl = "add" /\ cur' = cur
          /\ \/ ctl' = "admit"
             \/ ctl' \in {"load", "evict"} /\ ret' = "load" /\ HostHit(cur) # {}
      BY <2>1, Zenon DEF AddOneReq, CallEvict
    <3>2. Matched(fill[cur])' = Matched(fill[cur])
      BY <1>1, <1>3, <3>1, Zenon DEF Matched
    <3>3. HostHit(cur)' = HostHit(cur)
      BY <1>1, <3>1, <3>2, Zenon DEF HostHit, DevMatched, OnDevice, tree
    <3> QED
      BY <1>3, <3>1, <3>2, <3>3, Zenon DEF LoopInv, At, Loops, CacheInv
  <2>2. CASE ~ AddOneReq
    <3>1. \/ ctl' \in {"idle", "stop", "retract", "abort", "decode", "alloc",
                       "recheck", "done"}
          \/ ctl' \in {"evict", "drain"}
                /\ ret' \in {"decode", "alloc", "recheck", "done"}
      BY <2>2, Zenon DEF AddRefused, AdmitRefused, OnIdle, HandlerDone, CheckDecodeMem,
         DecodeFits, RetractDecode, Shrink, Recheck, CallEvict, CallDrain, Home
    <3> QED
      BY <3>1, Zenon DEF LoopInv, At, Loops
  <2> QED
    BY <2>1, <2>2, Zenon
<1> QED
  BY <1>2, <1>4, Zenon DEF CacheInv

-----------------------------------------------------------------------------
(* Requests take, move and release their lock.                             *)

\* A request's lock moves from one node to another, and lock_ref stays exact.
LEMMA MoveLocks ==
  ASSUME Control, TreeInv, LockInv, NEW r \in Reqs, NEW d \in Paths \cup {Root},
         d # Root => d \in nodes /\ dev[d] # None,
         lastNode' = [lastNode EXCEPT ![r] = d],
         UNCHANGED <<nodes, dev, backed, dma>>,
         lockRef' \in [Paths -> Int],
         \A p \in Paths : lockRef'[p] = lockRef[p] + (IF p \in Anc[d] THEN 1 ELSE 0)
                                     - (IF p \in Anc[lastNode[r]] THEN 1 ELSE 0)
  PROVE  LockInv'
<1>1. Writing' = Writing /\ Loading' = Loading
  BY Zenon DEF Writing, Loading, dma
<1>2. lastNode \in [Reqs -> Paths \cup {Root}] /\ lockRef \in [Paths -> Int]
      /\ Writing \in SUBSET Paths /\ Loading \in SUBSET Paths
  BY Zenon DEF Control, ControlType, LockInv, TreeInv
<1>3. ASSUME NEW p \in Paths
      PROVE  lockRef'[p] = LockCount(p, lastNode', Writing', Loading')
  <2>1. \A s \in Reqs \ {r} : lastNode'[s] = lastNode[s]
    BY <1>2, Zenon
  <2>2. LockCount(p, lastNode', Writing, Loading)
        = LockCount(p, lastNode, Writing, Loading)
            + (IF p \in Anc[lastNode'[r]] THEN 1 ELSE 0)
            - (IF p \in Anc[lastNode[r]] THEN 1 ELSE 0)
    <3> DEFINE g == lastNode'  W == Writing  L == Loading
    <3>1. /\ W \in SUBSET Paths /\ L \in SUBSET Paths
          /\ g \in [Reqs -> Paths \cup {Root}] /\ lastNode \in [Reqs -> Paths \cup {Root}]
          /\ \A s \in Reqs \ {r} : g[s] = lastNode[s]
      BY <1>2, <2>1, Zenon
    <3> HIDE DEF g, W, L
    <3>2. LockCount(p, g, W, L) = LockCount(p, lastNode, W, L)
            + (IF p \in Anc[g[r]] THEN 1 ELSE 0) - (IF p \in Anc[lastNode[r]] THEN 1 ELSE 0)
      <4>1. Counting
        BY ControlCounts, Zenon
      <4>2. PICK f : f = lastNode
        BY Zenon
      <4>3. f \in [Reqs -> Paths \cup {Root}] /\ \A s \in Reqs \ {r} : g[s] = f[s]
        BY <3>1, <4>2, Zenon
      <4>4. LockCount(p, g, W, L) = LockCount(p, f, W, L)
              + (IF p \in Anc[g[r]] THEN 1 ELSE 0) - (IF p \in Anc[f[r]] THEN 1 ELSE 0)
        BY <3>1, <4>1, <4>3, CountMove
      <4> QED
        BY <4>2, <4>4, Zenon
    <3> QED
      BY <3>2, Zenon DEF g, W, L
  <2>3. lastNode'[r] = d
    BY <1>2, Zenon
  <2>4. lockRef[p] = LockCount(p, lastNode, Writing, Loading)
    BY Zenon DEF LockInv
  <2> QED
    BY <1>1, <2>2, <2>3, <2>4, Zenon
<1>4. TransfersAreDistinct'
  BY Zenon DEF LockInv, TransfersAreDistinct, dma
<1>5. \A s \in Reqs : lastNode'[s] # Root =>
          lastNode'[s] \in nodes' /\ dev'[lastNode'[s]] # None
  BY <1>2, Zenon DEF LockInv
<1> QED
  BY <1>1, <1>3, <1>4, <1>5, Zenon DEF LockInv, dma

\* add_one_req locks the device prefix and copies its pages into the table.
LEMMA AdmitStep ==
  ASSUME Control, Control', CacheInv, Admit
  PROVE  CacheInv' /\ Stays
<1> DEFINE d == DevMatched(fill[cur])
<1>1. TreeInv /\ LockInv /\ TableInv /\ LoopInv
  BY Zenon DEF CacheInv
<1>2. /\ ctl = "admit" /\ ctl' \in {"form", "stop"}
      /\ phase' = [phase EXCEPT ![cur] = "added"]
      /\ lastNode' = [lastNode EXCEPT ![cur] = d]
      /\ prot' = [prot EXCEPT ![cur] = d]
      /\ kv' = [kv EXCEPT ![cur] =
                   [p \in Paths |-> IF p \in Anc[d] THEN dev[p] ELSE None]]
      /\ lockRef' = [p \in Paths |-> lockRef[p] + (IF p \in Anc[d] THEN 1 ELSE 0)
                                             - (IF p \in {} THEN 1 ELSE 0)]
      /\ UNCHANGED <<nodes, dev, backed, free, dma, fill, tail>>
  BY Zenon DEF Admit, ChangeLocks
<1>3. cur \in Reqs /\ fill[cur] \in Paths \cup {Root} /\ lastNode[cur] = Root
      /\ Matched(fill[cur]) \in nodes \cup {Root}
  BY <1>1, <1>2, Zenon DEF Control, ControlType, CurrentRequest, RequestShape, LoopInv, At
<1>4. d \in Paths \cup {Root} /\ (d # Root => d \in nodes /\ dev[d] # None)
  BY <1>1, <1>3, MatchFacts, AncType, Zenon
<1> HIDE DEF d
<1>5. LockInv'
  <2>1. Anc[lastNode[cur]] = {}
    BY <1>3, PathsAssumption, Zenon
  <2>2. /\ lockRef' \in [Paths -> Int]
        /\ \A p \in Paths : lockRef'[p] = lockRef[p] + (IF p \in Anc[d] THEN 1 ELSE 0)
                                - (IF p \in Anc[lastNode[cur]] THEN 1 ELSE 0)
    <3>1. lockRef \in [Paths -> Int]
      BY <1>1, Zenon DEF LockInv
    <3> QED
      BY <1>2, <2>1, <3>1, SMTT(90)
  <2> QED
    BY <1>1, <1>2, <1>3, <1>4, <2>2, MoveLocks, Zenon
<1>6. TreeInv' /\ Stays
  BY <1>1, <1>2, TreeSame, Zenon
<1>7. TableInv'
  <2>1. kv' \in [Reqs -> [Paths -> DevPages \cup {None}]]
    BY <1>1, <1>2, <1>3, Zenon DEF TableInv, TreeInv
  <2>2. Anc[d] \subseteq Paths
    BY <1>4, AncType, Zenon
  <2>3. /\ \A r \in Reqs \ {cur} : /\ kv'[r] = kv[r] /\ phase'[r] = phase[r]
                                    /\ prot'[r] = prot[r]
        /\ phase'[cur] = "added" /\ prot'[cur] = d
        /\ \A p \in Anc[d] : kv'[cur][p] = dev[p]
    BY <1>1, <1>2, <1>3, <2>2, Zenon DEF TableInv, Control, ControlType
  <2>4. ASSUME NEW r \in Reqs, Holding(r)'
        PROVE  \A p \in Anc[prot'[r]] : kv'[r][p] = dev'[p]
    <3>1. CASE r = cur
      BY <1>2, <2>3, <3>1, Zenon
    <3>2. CASE r # cur
      <4>1. Holding(r) /\ kv'[r] = kv[r] /\ prot'[r] = prot[r]
        BY <2>3, <2>4, <3>2, Zenon DEF Holding
      <4>2. \A p \in Anc[prot[r]] : kv[r][p] = dev[p]
        BY <1>1, <4>1, Zenon DEF TableInv
      <4> QED
        BY <1>2, <4>1, <4>2, Zenon
    <3> QED
      BY <3>1, <3>2, Zenon
  <2>5. ASSUME NEW r \in Reqs, phase'[r] \in {"prefill", "decode"}
        PROVE  tail'[r] # None /\ \A p \in Anc[fill'[r]] : kv'[r][p] # None
    BY <1>1, <1>2, <2>3, <2>5, Zenon DEF TableInv
  <2> QED
    BY <1>1, <1>2, <2>1, <2>4, <2>5, Zenon DEF TableInv
<1>8. LoopInv'
  BY <1>2, Zenon DEF LoopInv, At, Loops
<1> QED
  BY <1>5, <1>6, <1>7, <1>8, Zenon DEF CacheInv

\* cache_unfinished_req moves the lock to the end of the prompt and the table
\* to the tree's pages.
LEMMA RelockStep ==
  ASSUME Control, Control', CacheInv, Relock
  PROVE  CacheInv' /\ Stays
<1> DEFINE key == Prompt(cur)
<1>1. TreeInv /\ LockInv /\ TableInv /\ LoopInv
  BY Zenon DEF CacheInv
<1>2. /\ ctl = "relock" /\ ctl' = "idle"
      /\ phase' = [phase EXCEPT ![cur] = "decode"]
      /\ lastNode' = [lastNode EXCEPT ![cur] = key]
      /\ prot' = [prot EXCEPT ![cur] = key]
      /\ kv' = [kv EXCEPT ![cur] = TreeRow(cur)]
      /\ lockRef' = [p \in Paths |-> lockRef[p] + (IF p \in Anc[key] THEN 1 ELSE 0)
                             - (IF p \in Anc[lastNode[cur]] THEN 1 ELSE 0)]
      /\ UNCHANGED <<nodes, dev, backed, free, dma, fill, tail>>
  BY Zenon DEF Relock, ChangeLocks, Home
<1>3. cur \in Reqs /\ phase[cur] = "prefill"
      /\ key \in nodes /\ dev[key] # None /\ key \in Paths
  BY <1>1, <1>2, Zenon DEF Control, CurrentRequest, LoopInv, At, TreeInv
<1> HIDE DEF key
<1>4. LockInv'
  <2>1. /\ lockRef' \in [Paths -> Int]
        /\ \A p \in Paths : lockRef'[p] = lockRef[p] + (IF p \in Anc[key] THEN 1 ELSE 0)
                                - (IF p \in Anc[lastNode[cur]] THEN 1 ELSE 0)
    <3>1. lockRef \in [Paths -> Int]
      BY <1>1, Zenon DEF LockInv
    <3>2. lockRef' = [p \in Paths |-> lockRef[p] + (IF p \in Anc[key] THEN 1 ELSE 0)
                             - (IF p \in Anc[lastNode[cur]] THEN 1 ELSE 0)]
      BY <1>2, Zenon
    <3> QED
      BY <3>1, <3>2, SMTT(90)
  <2> QED
    BY <1>1, <1>2, <1>3, <2>1, MoveLocks, Zenon
<1>5. TreeInv' /\ Stays
  BY <1>1, <1>2, TreeSame, Zenon
<1>6. TableInv'
  <2>1. \A p \in Anc[key] : p \in Paths /\ dev[p] # None
    BY <1>1, <1>3, TierFacts, AncType, Zenon
  <2>2. \A p \in Anc[prot[cur]] : kv[cur][p] = dev[p]
    BY <1>1, <1>3, Zenon DEF TableInv, Holding
  <2>3. TreeRow(cur) = [p \in Paths |-> IF p \in Anc[key] \ Anc[prot[cur]]
                                        THEN dev[p] ELSE kv[cur][p]]
    BY Zenon DEF TreeRow, key
  <2>4. TreeRow(cur) \in [Paths -> DevPages \cup {None}]
    <3>1. kv[cur] \in [Paths -> DevPages \cup {None}]
      BY <1>1, <1>3, Zenon DEF TableInv
    <3>2. dev \in [Paths -> DevPages \cup {None}]
      BY <1>1, Zenon DEF TreeInv
    <3> QED
      BY <2>3, <3>1, <3>2, Zenon
  <2>5. \A p \in Anc[key] : TreeRow(cur)[p] = dev[p]
    BY <2>1, <2>2, <2>3, Zenon
  <2>6. \A p \in Anc[fill[cur]] : TreeRow(cur)[p] # None
    <3>1. Anc[fill[cur]] \subseteq Paths
      BY <1>3, AncType, Zenon DEF Control, ControlType
    <3> QED
      BY <1>1, <1>3, <2>1, <2>3, <3>1 DEF TableInv
  <2> HIDE DEF TreeRow
  <2>7. /\ \A r \in Reqs \ {cur} : /\ kv'[r] = kv[r] /\ phase'[r] = phase[r]
                                    /\ prot'[r] = prot[r]
        /\ kv'[cur] = TreeRow(cur) /\ phase'[cur] = "decode" /\ prot'[cur] = key
    BY <1>1, <1>2, <1>3, Zenon DEF TableInv, Control, ControlType
  <2>8. kv' \in [Reqs -> [Paths -> DevPages \cup {None}]]
    BY <1>1, <1>2, <1>3, <2>4, Zenon DEF TableInv
  <2>9. ASSUME NEW r \in Reqs, Holding(r)'
        PROVE  \A p \in Anc[prot'[r]] : kv'[r][p] = dev'[p]
    <3>1. CASE r = cur
      <4>1. kv'[r] = TreeRow(cur) /\ prot'[r] = key
        BY <2>7, <3>1, Zenon
      <4>2. dev' = dev
        BY <1>2, Zenon
      <4> QED
        BY <2>5, <4>1, <4>2, Zenon
    <3>2. CASE r # cur
      <4>1. Holding(r) /\ kv'[r] = kv[r] /\ prot'[r] = prot[r]
        BY <2>7, <2>9, <3>2, Zenon DEF Holding
      <4>2. \A p \in Anc[prot[r]] : kv[r][p] = dev[p]
        BY <1>1, <4>1, Zenon DEF TableInv
      <4> QED
        BY <1>2, <4>1, <4>2, Zenon
    <3> QED
      BY <3>1, <3>2, Zenon
  <2>10. ASSUME NEW r \in Reqs, phase'[r] \in {"prefill", "decode"}
         PROVE  tail'[r] # None /\ \A p \in Anc[fill'[r]] : kv'[r][p] # None
    BY <1>1, <1>2, <1>3, <2>6, <2>7, <2>10, Zenon DEF TableInv
  <2> QED
    BY <1>1, <1>2, <2>8, <2>9, <2>10, Zenon DEF TableInv
<1>7. LoopInv'
  BY <1>2, Zenon DEF LoopInv, At, Loops
<1> QED
  BY <1>4, <1>5, <1>6, <1>7, Zenon DEF CacheInv

\* cache_finished_req and release_req give up the lock and the request's pages.
LEMMA ReleaseStep ==
  ASSUME Control, Control', CacheInv, cur \in Reqs,
         phase[cur] \in {"prefill", "decode"}, NEW dup \in SUBSET Anc[fill[cur]],
         NEW newPhase \in {"out", "waiting"}, Release(dup, newPhase),
         ret' \in {"done", "shrink"}
  PROVE  CacheInv' /\ Stays
<1>1. TreeInv /\ LockInv /\ TableInv
  BY Zenon DEF CacheInv
<1>2. /\ ctl' = "demote"
      /\ phase' = [phase EXCEPT ![cur] = newPhase]
      /\ fill' \in {fill, [fill EXCEPT ![cur] = Root]}
      /\ lastNode' = [lastNode EXCEPT ![cur] = Root]
      /\ prot' = [prot EXCEPT ![cur] = Root]
      /\ kv' = [kv EXCEPT ![cur] = [p \in Paths |-> None]]
      /\ tail' = [tail EXCEPT ![cur] = None]
      /\ lockRef' = [p \in Paths |-> lockRef[p] + (IF p \in {} THEN 1 ELSE 0)
                             - (IF p \in Anc[lastNode[cur]] THEN 1 ELSE 0)]
      /\ UNCHANGED <<nodes, dev, backed, dma>>
  BY Zenon DEF Release, ChangeLocks, Leave
<1>3. free' = free \cup OwnCopies(dup)
                \cup {kv[cur][p] : p \in Anc[fill[cur]] \ Anc[Prompt(cur)]}
                \cup {tail[cur]}
  BY Zenon DEF Release
<1>4. free' \subseteq DevPages
  <2>1. OwnCopies(dup) \subseteq DevPages /\ tail[cur] \in DevPages
    BY OwnCopiesType, Zenon
  <2>2. {kv[cur][p] : p \in Anc[fill[cur]] \ Anc[Prompt(cur)]} \subseteq DevPages
    BY OwnCopiesType, Zenon
  <2> QED
    BY <1>1, <1>3, <2>1, <2>2, Zenon DEF TableInv
<1>5. LockInv'
  <2>1. Anc[Root] = {} /\ Root \in Paths \cup {Root}
    BY PathsAssumption, Zenon
  <2>2. /\ lockRef' \in [Paths -> Int]
        /\ \A p \in Paths : lockRef'[p] = lockRef[p] + (IF p \in Anc[Root] THEN 1 ELSE 0)
                                - (IF p \in Anc[lastNode[cur]] THEN 1 ELSE 0)
    <3>1. lockRef \in [Paths -> Int]
      BY <1>1, Zenon DEF LockInv
    <3>2. lockRef' = [p \in Paths |-> lockRef[p] + (IF p \in {} THEN 1 ELSE 0)
                             - (IF p \in Anc[lastNode[cur]] THEN 1 ELSE 0)]
      BY <1>2, Zenon
    <3> QED
      BY <2>1, <3>1, <3>2
  <2> QED
    BY <1>1, <1>2, <2>1, <2>2, MoveLocks, Zenon
<1>6. TreeInv' /\ Stays
  BY <1>1, <1>2, TreeSame, Zenon
<1>7. TableInv'
  <2>1. /\ \A r \in Reqs \ {cur} : /\ kv'[r] = kv[r] /\ phase'[r] = phase[r]
                                    /\ prot'[r] = prot[r] /\ tail'[r] = tail[r]
                                    /\ fill'[r] = fill[r]
        /\ phase'[cur] = newPhase
    <3>1. /\ DOMAIN kv = Reqs /\ DOMAIN phase = Reqs /\ DOMAIN prot = Reqs
          /\ DOMAIN tail = Reqs /\ DOMAIN fill = Reqs
      BY <1>1, Zenon DEF TableInv, Control, ControlType
    <3>2. \A r \in Reqs \ {cur} : kv'[r] = kv[r] /\ phase'[r] = phase[r] /\ prot'[r] = prot[r]
      BY <1>2, <3>1, Zenon
    <3>3. \A r \in Reqs \ {cur} : tail'[r] = tail[r] /\ fill'[r] = fill[r]
      BY <1>2, <3>1, Zenon
    <3>4. phase'[cur] = newPhase
      BY <1>2, <3>1, Zenon
    <3> QED
      BY <3>2, <3>3, <3>4, Zenon
  <2>2. /\ kv' \in [Reqs -> [Paths -> DevPages \cup {None}]]
        /\ tail' \in [Reqs -> DevPages \cup {None}]
    BY <1>1, <1>2, Zenon DEF TableInv
  <2>3. ASSUME NEW r \in Reqs, Holding(r)'
        PROVE  \A p \in Anc[prot'[r]] : kv'[r][p] = dev'[p]
    <3>1. CASE r = cur
      <4>1. newPhase \notin {"added", "prefill", "decode"}
        BY Zenon
      <4> QED
        BY <2>1, <2>3, <3>1, <4>1, Zenon DEF Holding
    <3>2. CASE r # cur
      <4>1. Holding(r) => \A p \in Anc[prot[r]] : kv[r][p] = dev[p]
        BY <1>1, Zenon DEF TableInv
      <4>2. kv'[r] = kv[r] /\ phase'[r] = phase[r] /\ prot'[r] = prot[r] /\ dev' = dev
        BY <1>2, <2>1, <3>2, Zenon
      <4> QED
        BY <2>3, <4>1, <4>2, Zenon DEF Holding
    <3> QED
      BY <3>1, <3>2, Zenon
  <2>4. ASSUME NEW r \in Reqs, phase'[r] \in {"prefill", "decode"}
        PROVE  tail'[r] # None /\ \A p \in Anc[fill'[r]] : kv'[r][p] # None
    <3>1. r # cur
      <4>1. newPhase \notin {"prefill", "decode"}
        BY Zenon
      <4> QED
        BY <2>1, <2>4, <4>1, Zenon
    <3>2. phase[r] \in {"prefill", "decode"} =>
              tail[r] # None /\ \A p \in Anc[fill[r]] : kv[r][p] # None
      BY <1>1, Zenon DEF TableInv
    <3>3. kv'[r] = kv[r] /\ phase'[r] = phase[r] /\ tail'[r] = tail[r] /\ fill'[r] = fill[r]
      BY <2>1, <3>1, Zenon
    <3> QED
      BY <2>4, <3>2, <3>3, Zenon
  <2> QED
    BY <1>4, <2>2, <2>3, <2>4, Zenon DEF TableInv
<1>8. LoopInv'
  BY <1>2, Zenon DEF LoopInv, At, Loops
<1> QED
  BY <1>5, <1>6, <1>7, <1>8, Zenon DEF CacheInv

-----------------------------------------------------------------------------
(* Pages for prompts and for decode steps.                                 *)

\* alloc_extend() gives pages only past the protected prefix, and one to every
\* page of the prompt past it.
LEMMA PrepareForExtendStep ==
  ASSUME Control, Control', CacheInv, PrepareForExtend
  PROVE  CacheInv' /\ Stays
<1> DEFINE slots == Extend(Added) \cup (Added \X {Root})
           page == Alloc(slots)
<1>1. TreeInv /\ LockInv /\ TableInv
  BY Zenon DEF CacheInv
<1>2. /\ Cardinality(free) >= Cardinality(slots)
      /\ kv' = [r \in Reqs |-> [p \in Paths |->
                  IF <<r, p>> \in slots THEN page[<<r, p>>] ELSE kv[r][p]]]
      /\ tail' = [r \in Reqs |-> IF r \in Added THEN page[<<r, Root>>] ELSE tail[r]]
      /\ free' = free \ {page[s] : s \in slots}
      /\ phase' = [r \in Reqs |-> IF r \in Added THEN "prefill" ELSE phase[r]]
      /\ ctl' = "idle"
      /\ UNCHANGED <<nodes, dev, backed, lockRef, dma, fill, lastNode, prot>>
  BY Zenon DEF PrepareForExtend, Home, tree
<1>3. Counted(slots)
  <2>1. slots \in SUBSET Slots
    BY Zenon DEF Extend, Added, Slots
  <2> HIDE DEF slots
  <2> QED
    BY <2>1, Zenon DEF Control, Counting
<1>4. /\ \A r \in Added : <<r, Root>> \in slots
      /\ \A r \in Reqs, p \in Paths : <<r, p>> \in slots <=>
            r \in Added /\ p \in Anc[fill[r]] \ Anc[prot[r]]
  BY PathsAssumption, Zenon DEF Extend, Added
<1> HIDE DEF slots
<1>5. page \in [slots -> free]
  <2>1. Cardinality(free) \in Nat /\ Cardinality(slots) \in Nat
    BY <1>1, <1>3, CardType, Zenon DEF TableInv, Control, Counted
  <2> QED
    BY <1>1, <1>2, <1>3, <2>1, AllocType, Zenon DEF TableInv
<1> HIDE DEF page
<1>6. TreeInv' /\ LockInv' /\ Stays
  BY <1>1, <1>2, TreeSame, LockSame, Zenon
<1>7. TableInv'
  <2>1. free' \subseteq DevPages /\ free \subseteq DevPages
    BY <1>1, <1>2, Zenon DEF TableInv
  <2>2. kv' \in [Reqs -> [Paths -> DevPages \cup {None}]]
    BY <1>1, <1>2, <1>5, <2>1, SMTT(30) DEF TableInv
  <2>3. tail' \in [Reqs -> DevPages \cup {None}]
    BY <1>1, <1>2, <1>4, <1>5, <2>1, Zenon DEF TableInv
  <2>4. ASSUME NEW r \in Reqs, Holding(r)', NEW p \in Anc[prot[r]]
        PROVE  kv'[r][p] = dev[p]
    <3>1. Holding(r)
      BY <1>2, <2>4, Zenon DEF Holding, Added
    <3>2. p \in Paths
      BY AncType, Zenon DEF Control, ControlType
    <3>3. kv[r][p] = dev[p]
      BY <1>1, <2>4, <3>1, Zenon DEF TableInv
    <3> QED
      BY <1>2, <1>4, <2>4, <3>2, <3>3, Zenon
  <2>5. ASSUME NEW r \in Reqs, phase'[r] \in {"prefill", "decode"}
        PROVE  tail'[r] # None /\ \A p \in Anc[fill[r]] : kv'[r][p] # None
    <3>1. CASE r \in Added
      <4>1. tail'[r] \in free
        BY <1>2, <1>4, <1>5, <3>1, Zenon
      <4>2. ASSUME NEW p \in Anc[fill[r]]
            PROVE  kv'[r][p] # None
        <5>1. p \in Paths
          BY AncType, Zenon DEF Control, ControlType
        <5>2. CASE p \in Anc[prot[r]]
          <6>1. kv'[r][p] = dev[p]
            BY <1>2, <2>4, <3>1, <5>2, Zenon DEF Holding
          <6>2. prot[r] \in nodes /\ dev[prot[r]] # None
            BY <1>1, <5>2, PathsAssumption, Zenon DEF LockInv, Control, RequestShape
          <6>3. dev[p] # None
            BY <1>1, <5>1, <5>2, <6>2, TierFacts, Zenon DEF TreeInv
          <6> QED
            BY <6>1, <6>3, Zenon
        <5>3. CASE p \notin Anc[prot[r]]
          <6>1. <<r, p>> \in slots
            BY <1>4, <3>1, <4>2, <5>1, <5>3, Zenon
          <6>2. kv'[r][p] \in free
            BY <1>2, <1>5, <5>1, <6>1, Zenon
          <6> QED
            BY <2>1, <6>2, PoolsAssumption, Zenon
        <5> QED
          BY <5>2, <5>3, Zenon
      <4> QED
        BY <2>1, <4>1, <4>2, PoolsAssumption, Zenon
    <3>2. CASE r \notin Added
      <4>1. phase[r] \in {"prefill", "decode"} /\ tail'[r] = tail[r]
        BY <1>2, <2>5, <3>2, Zenon
      <4>2. \A p \in Anc[fill[r]] : kv'[r][p] = kv[r][p]
        <5>1. Anc[fill[r]] \subseteq Paths
          BY AncType, Zenon DEF Control, ControlType
        <5> QED
          BY <1>2, <1>4, <3>2, <5>1, Zenon
      <4> QED
        BY <1>1, <4>1, <4>2, Zenon DEF TableInv
    <3> QED
      BY <3>1, <3>2, Zenon
  <2>6. prot' = prot /\ dev' = dev /\ fill' = fill
    BY <1>2, Zenon
  <2>7. \A r \in Reqs : Holding(r)' => \A p \in Anc[prot'[r]] : kv'[r][p] = dev'[p]
    BY <2>4, <2>6, Zenon
  <2>8. \A r \in Reqs : phase'[r] \in {"prefill", "decode"} =>
            tail'[r] # None /\ \A p \in Anc[fill'[r]] : kv'[r][p] # None
    BY <2>5, <2>6, Zenon
  <2> QED
    BY <2>1, <2>2, <2>3, <2>7, <2>8, Zenon DEF TableInv
<1>8. LoopInv'
  BY <1>2, Zenon DEF LoopInv, At, Loops
<1> QED
  BY <1>6, <1>7, <1>8, Zenon DEF CacheInv

\* A decode step that starts a page turns the tail page into a full one.
LEMMA AllocForDecodeStep ==
  ASSUME Control, Control', CacheInv, AllocForDecode
  PROVE  CacheInv' /\ Stays
<1> DEFINE page == Alloc(want)
<1>1. TreeInv /\ LockInv /\ TableInv
  BY Zenon DEF CacheInv
<1>2. /\ Cardinality(free) >= Cardinality(want)
      /\ free' = free \ {page[r] : r \in want}
      /\ kv' = [r \in Reqs |-> IF r \in want
                    THEN [kv[r] EXCEPT ![Next1(r)] = tail[r]] ELSE kv[r]]
      /\ tail' = [r \in Reqs |-> IF r \in want THEN page[r] ELSE tail[r]]
      /\ fill' = [r \in Reqs |-> IF r \in want THEN Next1(r) ELSE fill[r]]
      /\ ctl' = "idle"
      /\ UNCHANGED <<nodes, dev, backed, lockRef, dma, phase, lastNode, prot>>
  BY Zenon DEF AllocForDecode, Home, tree
<1>3. want \in SUBSET Reqs /\ Counted(want)
  BY Zenon DEF Control, ControlType, Counting
<1>4. page \in [want -> free]
  <2>1. Cardinality(free) \in Nat /\ Cardinality(want) \in Nat
    BY <1>1, <1>3, CardType, Zenon DEF TableInv, Control
  <2> QED
    BY <1>1, <1>2, <1>3, <2>1, AllocType, Zenon DEF TableInv
<1> HIDE DEF page
<1>5. ASSUME NEW r \in want
      PROVE  /\ phase[r] = "decode" /\ Next1(r) \in Paths \ Anc[fill[r]]
             /\ Anc[Next1(r)] \subseteq Anc[fill[r]] \cup {Next1(r)}
             /\ Anc[prot[r]] \subseteq Anc[fill[r]]
  <2>1. phase[r] = "decode" /\ fill[r] # Full(r) /\ r \in Reqs
    BY <1>3, Zenon DEF Control, WantsAreRunning
  <2>2. work[r] \in Work /\ fill[r] \in Anc[Full(r)] /\ prot[r] \in Anc[fill[r]] \cup {Root}
    BY <2>1, Zenon DEF Control, RequestShape
  <2>3. Full(r) \in Paths
    BY <2>2, RequestsAssumption, Zenon DEF Full
  <2>4. /\ Next1(r) \in Anc[Full(r)] \ Anc[fill[r]]
        /\ Anc[Next1(r)] \subseteq Anc[fill[r]] \cup {Next1(r)}
    BY <2>1, <2>2, <2>3, Next1Of, Zenon
  <2>5. Next1(r) \in Paths /\ fill[r] \in Paths
    BY <2>2, <2>3, <2>4, PathsAssumption, Zenon
  <2> QED
    <3>1. Anc[prot[r]] \subseteq Anc[fill[r]]
      BY <2>2, <2>5, PathsAssumption, Zenon
    <3> QED
      BY <2>1, <2>4, <2>5, <3>1, Zenon
<1>6. TreeInv' /\ LockInv' /\ Stays
  BY <1>1, <1>2, TreeSame, LockSame, Zenon
<1>7. TableInv'
  <2>1. free' \subseteq DevPages /\ free \subseteq DevPages
    BY <1>1, <1>2, Zenon DEF TableInv
  <2>2. kv' \in [Reqs -> [Paths -> DevPages \cup {None}]]
    <3>1. \A r \in want : [kv[r] EXCEPT ![Next1(r)] = tail[r]]
                             \in [Paths -> DevPages \cup {None}]
      BY <1>1, <1>3, Zenon DEF TableInv
    <3> QED
      BY <1>1, <1>2, <3>1, Zenon DEF TableInv
  <2>3. tail' \in [Reqs -> DevPages \cup {None}]
    BY <1>1, <1>2, <1>4, <2>1, Zenon DEF TableInv
  <2>4. ASSUME NEW r \in want
        PROVE  /\ \A p \in Anc[prot[r]] : kv'[r][p] = kv[r][p]
               /\ tail'[r] # None
               /\ \A p \in Anc[fill'[r]] : kv'[r][p] # None
    <3>1. /\ r \in Reqs /\ kv[r] \in [Paths -> DevPages \cup {None}]
          /\ tail[r] # None /\ \A p \in Anc[fill[r]] : kv[r][p] # None
      BY <1>1, <1>3, <1>5, Zenon DEF TableInv
    <3>2. /\ kv'[r] = [kv[r] EXCEPT ![Next1(r)] = tail[r]]
          /\ tail'[r] = page[r] /\ fill'[r] = Next1(r)
      BY <1>2, <3>1, Zenon
    <3>3. Anc[fill[r]] \subseteq Paths
      BY <3>1, AncType, Zenon DEF Control, ControlType
    <3>4. kv'[r][Next1(r)] = tail[r] /\ \A p \in Anc[fill[r]] : kv'[r][p] = kv[r][p]
      BY <1>5, <3>1, <3>2, <3>3, SMTT(30)
    <3>5. tail'[r] \in DevPages
      BY <1>4, <2>1, <3>2, Zenon
    <3> QED
      BY <1>5, <3>1, <3>2, <3>4, <3>5, PoolsAssumption, Zenon
  <2>5. \A r \in Reqs \ want :
            kv'[r] = kv[r] /\ tail'[r] = tail[r] /\ fill'[r] = fill[r]
    BY <1>2, Zenon
  <2>6. prot' = prot /\ dev' = dev /\ phase' = phase
    BY <1>2, Zenon
  <2>7. \A r \in Reqs : Holding(r)' => \A p \in Anc[prot'[r]] : kv'[r][p] = dev'[p]
    <3>1. \A r \in Reqs : \A p \in Anc[prot[r]] : kv'[r][p] = kv[r][p]
      BY <2>4, <2>5, Zenon
    <3> QED
      BY <1>1, <2>6, <3>1, SMTT(30) DEF TableInv, Holding
  <2>8. \A r \in Reqs : phase'[r] \in {"prefill", "decode"} =>
            tail'[r] # None /\ \A p \in Anc[fill'[r]] : kv'[r][p] # None
    <3>1. \A r \in Reqs : phase[r] \in {"prefill", "decode"} =>
              tail[r] # None /\ \A p \in Anc[fill[r]] : kv[r][p] # None
      BY <1>1, Zenon DEF TableInv
    <3>2. \A r \in Reqs : r \in want \/ r \in Reqs \ want
      BY Zenon
    <3> QED
      BY <2>4, <2>5, <2>6, <3>1, <3>2, SMTT(30)
  <2> QED
    BY <2>1, <2>2, <2>3, <2>7, <2>8, Zenon DEF TableInv
<1>8. LoopInv'
  BY <1>2, Zenon DEF LoopInv, At, Loops
<1> QED
  BY <1>6, <1>7, <1>8, Zenon DEF CacheInv
=============================================================================
