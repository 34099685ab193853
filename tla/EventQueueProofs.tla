-------------------------- MODULE EventQueueProofs --------------------------
(***************************************************************************)
(* Proofs about the unexpected event queue for any set of contexts, any    *)
(* queue, batch and fragment sizes: the types, the accounting of prepared  *)
(* slots, that the BUG_ON of commit and cancel never fires, that no        *)
(* delivery is polled twice and that a release is never refused.           *)
(***************************************************************************)
EXTENDS EventQueue, FiniteSetTheorems, FunctionTheorems, TLAPS

\* Outside prepare and commit a context holds no recvq slot; from a successful
\* prepare to the last commit it holds at least one.
GrantsFollowPC ==
  \A p \in Procs :
    /\ pc[p] \in {"idle", "notify_check", "notify_full"} => Grant(p) = {}
    /\ pc[p] \in {"prepare_check", "fill"} => Grant(p) # {}

QInv ==
  /\ QTypeOK
  /\ IsFiniteSet(granted)
  /\ SlotsAccounted
  /\ GrantsFollowPC

\* What a context holds, read from the set of grants.
LEMMA GrantElement ==
  ASSUME NEW p, NEW r, granted \subseteq Procs \X Int
  PROVE  r \in Grant(p) <=> <<p, r>> \in granted
<1>1. ASSUME r \in Grant(p) PROVE <<p, r>> \in granted
  <2>1. PICK g \in granted : g[1] = p /\ g[2] = r BY <1>1 DEF Grant
  <2>2. g = <<g[1], g[2]>> BY <2>1
  <2> QED BY <2>1, <2>2
<1>2. ASSUME <<p, r>> \in granted PROVE r \in Grant(p)
  BY <1>2 DEF Grant
<1> QED BY <1>1, <1>2

\* Pairing recvq indexes with one context does not change their number.
LEMMA PairsWithContext ==
  ASSUME NEW p, NEW R, IsFiniteSet(R)
  PROVE  IsFiniteSet({p} \X R) /\ Cardinality({p} \X R) = Cardinality(R)
<1>1. IsFiniteSet({p}) /\ Cardinality({p}) = 1
  BY FS_Singleton
<1>2. IsFiniteSet({p} \X R) /\ Cardinality({p} \X R) = Cardinality({p}) * Cardinality(R)
  BY <1>1, FS_Product
<1>3. Cardinality(R) \in Nat
  BY FS_CardinalityType
<1> QED BY <1>1, <1>2, <1>3

\* The pairs of one context are as many as the slots it holds.
LEMMA PairsOfContext ==
  ASSUME NEW p, granted \subseteq Procs \X Int, IsFiniteSet(granted)
  PROVE  /\ {p} \X Grant(p) \subseteq granted
         /\ IsFiniteSet(Grant(p))
         /\ Cardinality({p} \X Grant(p)) = Cardinality(Grant(p))
<1>1. {p} \X Grant(p) \subseteq granted
  BY GrantElement
<1>2. IsFiniteSet(Grant(p))
  <2> DEFINE own == {h \in granted : h[1] = p}
             second == [h \in own |-> h[2]]
  <2>1. IsFiniteSet(own) BY FS_Subset
  <2>2. second \in [own -> Grant(p)] /\ \A r \in Grant(p) : \E h \in own : second[h] = r
    BY DEF Grant
  <2>3. second \in Surjection(own, Grant(p)) BY <2>2, Fun_IsSurj
  <2> QED BY <2>1, <2>3, FS_Surjection
<1> QED BY <1>1, <1>2, PairsWithContext, Zenon

LEMMA QInitInv == QInit => QInv
<1> SUFFICES ASSUME QInit PROVE QInv
  OBVIOUS
<1> USE QueueSizes DEF QueueSizes
<1>1. QTypeOK
  <2>1. unexp_eventq \in [0..NR-1 -> [id : 0..IDMAX, type : Types, recvq : Int, index : Int]]
    BY DEF QInit, Types, NoRecvq
  <2>2. evt \in [Procs -> [type : Types, recvq : Int]]
    BY DEF QInit, Types, NoRecvq
  <2>3. cancelling \in [Procs -> BOOLEAN] /\ aborted \in BOOLEAN
    BY Zenon DEF QInit
  <2>4. pc \in [Procs -> PCs] /\ index \in [Procs -> Int] /\ granted \subseteq Procs \X Int
    BY DEF QInit, PCs
  <2> QED BY <2>1, <2>2, <2>3, <2>4 DEF QInit, QTypeOK
<1>2. IsFiniteSet(granted) /\ Cardinality(granted) = 0
  BY FS_EmptySet DEF QInit
<1>3. SlotsAccounted
  BY <1>2 DEF QInit, SlotsAccounted
<1>4. GrantsFollowPC
  BY DEF QInit, GrantsFollowPC, Grant
<1> QED BY <1>1, <1>2, <1>3, <1>4 DEF QInv

\* Types: only a rollback needs more, that a context holds finitely many slots.
LEMMA QTypeStep == QTypeOK /\ IsFiniteSet(granted) /\ [QNext]_qvars => QTypeOK'
<1> SUFFICES ASSUME QTypeOK, IsFiniteSet(granted), [QNext]_qvars PROVE QTypeOK'
  OBVIOUS
<1> USE QueueSizes DEF QueueSizes, QTypeOK, driverVars, procVars, libVars
<1>1. ASSUME NEW p \in Procs, NotifyTake(p) PROVE QTypeOK'
  <2>1. nextfree' \in Int /\ nextreserved' \in Int
    BY <1>1 DEF NotifyTake
  <2>2. pc' \in [Procs -> PCs]
    BY <1>1 DEF NotifyTake, PCs
  <2>3. index' \in [Procs -> Int]
    BY <1>1 DEF NotifyTake
  <2>4. evt' \in [Procs -> [type : Types, recvq : Int]]
    BY <1>1 DEF NotifyTake, Types, NoRecvq
  <2> QED BY <1>1, <2>1, <2>2, <2>3, <2>4, Zenon DEF NotifyTake
<1>2. ASSUME NEW p \in Procs, NotifyCheck(p) PROVE QTypeOK'
  <2>1. pc' \in [Procs -> PCs]
    BY <1>2 DEF NotifyCheck, PCs
  <2> QED BY <1>2, <2>1 DEF NotifyCheck
<1>3. ASSUME NEW p \in Procs, NotifyRollback(p) PROVE QTypeOK'
  <2>1. nextfree' \in Int /\ nextreserved' \in Int
    BY <1>3 DEF NotifyRollback
  <2>2. pc' \in [Procs -> PCs]
    BY <1>3 DEF NotifyRollback, PCs
  <2> QED BY <1>3, <2>1, <2>2, Zenon DEF NotifyRollback
<1>4. ASSUME NEW p \in Procs, NEW nr \in 1..FRAGS, PrepareTake(p, nr) PROVE QTypeOK'
  <2>1. {p} \X (next_recvq .. next_recvq + nr - 1) \subseteq Procs \X Int
    OBVIOUS
  <2>2. granted' \subseteq Procs \X Int
    BY <1>4, <2>1 DEF PrepareTake
  <2>3. nextfree' \in Int /\ next_recvq' \in Int
    BY <1>4 DEF PrepareTake
  <2>4. pc' \in [Procs -> PCs]
    BY <1>4 DEF PrepareTake, PCs
  <2> QED BY <1>4, <2>2, <2>3, <2>4, Zenon DEF PrepareTake
<1>5. ASSUME NEW p \in Procs, PrepareCheck(p) PROVE QTypeOK'
  BY <1>5, Zenon DEF PrepareCheck, PCs
<1>6. ASSUME NEW p \in Procs, PrepareRollback(p), IsFiniteSet(granted) PROVE QTypeOK'
  <2>1. Cardinality(Grant(p)) \in Nat
    BY <1>6, PairsOfContext, FS_CardinalityType, Zenon
  <2>2. granted' \subseteq Procs \X Int
    BY <1>6 DEF PrepareRollback
  <2>3. nextfree' \in Int /\ next_recvq' \in Int
    <3>1. /\ nextfree' = nextfree - Cardinality(Grant(p))
          /\ next_recvq' = next_recvq - Cardinality(Grant(p))
      BY <1>6, Zenon DEF PrepareRollback
    <3>2. PICK n \in Nat : n = Cardinality(Grant(p)) BY <2>1
    <3>3. nextfree' = nextfree - n /\ next_recvq' = next_recvq - n
      BY <3>1, <3>2, Zenon
    <3> QED BY <3>3
  <2>4. pc' \in [Procs -> PCs]
    BY <1>6 DEF PrepareRollback, PCs
  <2> QED BY <1>6, <2>2, <2>3, <2>4, Zenon DEF PrepareRollback
<1>7. ASSUME NEW p \in Procs, CommitTake(p) PROVE QTypeOK'
  <2>1. PICK r \in Grant(p) :
           /\ evt' = [evt EXCEPT ![p] =
                        [type |-> IF cancelling[p] THEN "IGNORE" ELSE "EVENT", recvq |-> r]]
           /\ granted' = granted \ {<<p, r>>}
    BY <1>7, Zenon DEF CommitTake
  <2>2. <<p, r>> \in granted
    BY <2>1, GrantElement
  <2>3. evt' \in [Procs -> [type : Types, recvq : Int]]
    <3>1. r \in Int BY <2>2
    <3> QED BY <2>1, <3>1 DEF Types
  <2>4. granted' \subseteq Procs \X Int
    BY <2>1
  <2>5. nextreserved' \in Int
    BY <1>7 DEF CommitTake
  <2>6. index' \in [Procs -> Int]
    BY <1>7 DEF CommitTake
  <2>7. pc' \in [Procs -> PCs]
    BY <1>7 DEF CommitTake, PCs
  <2> QED BY <1>7, <2>3, <2>4, <2>5, <2>6, <2>7, Zenon DEF CommitTake
<1>8. ASSUME NEW p \in Procs, Store(p) PROVE QTypeOK'
  <2>1. [id |-> 0, type |-> evt[p].type, recvq |-> evt[p].recvq, index |-> index[p]]
          \in [id : 0..IDMAX, type : Types, recvq : Int, index : Int]
    OBVIOUS
  <2>2. unexp_eventq' \in [0..NR-1 -> [id : 0..IDMAX, type : Types, recvq : Int, index : Int]]
    BY <1>8, <2>1, Zenon DEF Store
  <2>3. pc' \in [Procs -> PCs]
    BY <1>8 DEF Store, PCs
  <2> QED BY <1>8, <2>2, <2>3, Zenon DEF Store
<1>9. ASSUME NEW p \in Procs, Publish(p) PROVE QTypeOK'
  <2>1. Id(index[p]) \in 0..IDMAX
    <3>1. index[p] \in Int
      OBVIOUS
    <3> HIDE DEF QTypeOK
    <3> QED BY <3>1, SMTT(20) DEF Id
  <2>2. unexp_eventq' \in [0..NR-1 -> [id : 0..IDMAX, type : Types, recvq : Int, index : Int]]
    <3>1. unexp_eventq \in [0..NR-1 -> [id : 0..IDMAX, type : Types, recvq : Int, index : Int]]
      OBVIOUS
    <3>2. unexp_eventq' = [unexp_eventq EXCEPT ![Slot(index[p])].id = Id(index[p])]
      BY <1>9 DEF Publish
    <3> HIDE DEF QTypeOK
    <3>3. ASSUME NEW s \in 0..NR-1
          PROVE  unexp_eventq'[s] \in [id : 0..IDMAX, type : Types, recvq : Int, index : Int]
      <4>1. unexp_eventq[s] \in [id : 0..IDMAX, type : Types, recvq : Int, index : Int]
        BY <3>1
      <4>2. \/ unexp_eventq'[s] = unexp_eventq[s]
            \/ unexp_eventq'[s] = [unexp_eventq[s] EXCEPT !.id = Id(index[p])]
        BY <3>1, <3>2
      <4> QED BY <2>1, <4>1, <4>2
    <3> QED BY <3>1, <3>2, <3>3, Zenon
  <2>3. pc' \in [Procs -> PCs]
    BY <1>9 DEF Publish, Resume, PCs
  <2> QED BY <1>9, <2>2, <2>3, Zenon DEF Publish
<1>10. ASSUME NEW p \in Procs, Wake(p) PROVE QTypeOK'
  <2>1. pc' \in [Procs -> PCs]
    BY <1>10 DEF Wake, Resume, PCs
  <2> QED BY <1>10, <2>1, Zenon DEF Wake
<1>11. CASE Consume
  <2>1. aborted' \in BOOLEAN
    <3>1. aborted' = ReleaseRefused \/ aborted' = aborted
      BY <1>11, Zenon DEF Consume
    <3>2. ReleaseRefused \in BOOLEAN
      BY DEF ReleaseRefused
    <3> QED BY <3>1, <3>2
  <2>2. nextreleased' \in Int /\ next_event' \in Int
    BY <1>11 DEF Consume
  <2> QED BY <1>11, <2>1, <2>2 DEF Consume
<1>12. CASE UNCHANGED qvars
  BY <1>12 DEF qvars
<1> QED
  BY <1>1, <1>2, <1>3, <1>4, <1>5, <1>6, <1>7, <1>8, <1>9, <1>10, <1>11, <1>12, Zenon DEF QNext

\* The accounting: a take or a rollback of nr slots moves nextfree and the set of
\* grants together, a commit moves nextreserved and the set, and a notify moves
\* both indexes.
LEMMA AccountingStep ==
  QInv /\ [QNext]_qvars => IsFiniteSet(granted') /\ SlotsAccounted'
<1> SUFFICES ASSUME QInv, [QNext]_qvars PROVE IsFiniteSet(granted') /\ SlotsAccounted'
  OBVIOUS
<1>0. /\ IsFiniteSet(granted) /\ Cardinality(granted) \in Nat
      /\ granted \subseteq Procs \X Int
      /\ nextfree \in Int /\ nextreserved \in Int /\ next_recvq \in Int
      /\ nextfree - nextreserved = Cardinality(granted)
  BY FS_CardinalityType DEF QInv, QTypeOK, SlotsAccounted
<1>1. ASSUME NEW p \in Procs, NotifyTake(p) \/ NotifyRollback(p)
      PROVE  IsFiniteSet(granted') /\ SlotsAccounted'
  BY <1>0, <1>1 DEF NotifyTake, NotifyRollback, SlotsAccounted
<1>2. ASSUME NEW p \in Procs, NEW nr \in 1..FRAGS, PrepareTake(p, nr)
      PROVE  IsFiniteSet(granted') /\ SlotsAccounted'
  <2> DEFINE R == next_recvq .. next_recvq + nr - 1
             new == {p} \X R
  <2>1. nr \in Nat \ {0}
    BY QueueSizes DEF QueueSizes
  <2>2. IsFiniteSet(new) /\ Cardinality(new) = nr
    <3>1. IsFiniteSet(R) /\ Cardinality(R) = nr
      <4>1. PICK last \in Int : last = next_recvq + nr - 1
        BY <1>0, <2>1
      <4>2. /\ IsFiniteSet(next_recvq .. last)
            /\ Cardinality(next_recvq .. last) = IF next_recvq > last THEN 0 ELSE last - next_recvq + 1
        BY <1>0, <4>1, FS_Interval, Zenon
      <4>3. last - next_recvq + 1 = nr /\ ~(next_recvq > last)
        BY <1>0, <2>1, <4>1
      <4> QED BY <4>1, <4>2, <4>3
    <3> HIDE DEF R
    <3> QED BY <3>1, PairsWithContext, Zenon
  <2>3. Grant(p) = {}
    BY <1>2 DEF PrepareTake, QInv, GrantsFollowPC
  <2>4. granted \cap new = {}
    BY <1>0, <2>3, GrantElement
  <2>5. granted' = granted \cup new /\ nextfree' = nextfree + nr /\ nextreserved' = nextreserved
    BY <1>2 DEF PrepareTake
  <2> HIDE DEF new
  <2>6. IsFiniteSet(granted') /\ Cardinality(granted') = Cardinality(granted) + nr - 0
    BY <1>0, <2>2, <2>4, <2>5, FS_Union, FS_EmptySet
  <2> QED BY <1>0, <2>1, <2>5, <2>6 DEF SlotsAccounted
<1>3. ASSUME NEW p \in Procs, PrepareRollback(p)
      PROVE  IsFiniteSet(granted') /\ SlotsAccounted'
  <2> DEFINE own == {p} \X Grant(p)
  <2>1. own \subseteq granted /\ Cardinality(own) = Cardinality(Grant(p))
    BY <1>0, PairsOfContext
  <2>2. /\ granted' = granted \ own
        /\ nextfree' = nextfree - Cardinality(Grant(p))
        /\ nextreserved' = nextreserved
    BY <1>3 DEF PrepareRollback
  <2> HIDE DEF own
  <2>3. IsFiniteSet(own) /\ Cardinality(own) \in Nat
    BY <1>0, <2>1, FS_Subset, FS_CardinalityType
  <2>4. granted \cap own = own
    BY <2>1
  <2>5. IsFiniteSet(granted') /\ Cardinality(granted') = Cardinality(granted) - Cardinality(own)
    <3>1. /\ IsFiniteSet(granted \ own)
          /\ Cardinality(granted \ own) = Cardinality(granted) - Cardinality(granted \cap own)
      BY <1>0, FS_Difference, Zenon
    <3> QED BY <2>2, <2>4, <3>1, Zenon
  <2> QED BY <1>0, <2>1, <2>2, <2>3, <2>5 DEF SlotsAccounted
<1>4. ASSUME NEW p \in Procs, CommitTake(p)
      PROVE  IsFiniteSet(granted') /\ SlotsAccounted'
  <2>1. PICK r \in Grant(p) : granted' = granted \ {<<p, r>>}
    BY <1>4 DEF CommitTake
  <2>2. <<p, r>> \in granted
    BY <1>0, <2>1, GrantElement
  <2>3. IsFiniteSet(granted') /\ Cardinality(granted') = Cardinality(granted) - 1
    BY <1>0, <2>1, <2>2, FS_RemoveElement
  <2>4. nextfree' = nextfree /\ nextreserved' = nextreserved + 1
    BY <1>4 DEF CommitTake
  <2> QED BY <1>0, <2>3, <2>4 DEF SlotsAccounted
<1>5. ASSUME UNCHANGED <<nextfree, nextreserved, granted>>
      PROVE  IsFiniteSet(granted') /\ SlotsAccounted'
  BY <1>0, <1>5 DEF SlotsAccounted
<1>6. ASSUME NEW p \in Procs,
             NotifyCheck(p) \/ PrepareCheck(p) \/ Store(p) \/ Publish(p) \/ Wake(p)
      PROVE  UNCHANGED <<nextfree, nextreserved, granted>>
  BY <1>6 DEF NotifyCheck, PrepareCheck, Store, Publish, Wake, driverVars
<1>7. ASSUME Consume \/ UNCHANGED qvars
      PROVE  UNCHANGED <<nextfree, nextreserved, granted>>
  BY <1>7 DEF Consume, qvars, driverVars, procVars
<1> QED BY <1>1, <1>2, <1>3, <1>4, <1>5, <1>6, <1>7 DEF QNext

\* Which contexts hold slots: each action changes the position and the grants of
\* its own context only.
LEMMA GrantsStep == QInv /\ [QNext]_qvars => GrantsFollowPC'
<1> SUFFICES ASSUME QInv, [QNext]_qvars, NEW q \in Procs
             PROVE  /\ pc'[q] \in {"idle", "notify_check", "notify_full"} => Grant(q)' = {}
                    /\ pc'[q] \in {"prepare_check", "fill"} => Grant(q)' # {}
  BY DEF GrantsFollowPC
<1> DEFINE Goal == /\ pc'[q] \in {"idle", "notify_check", "notify_full"} => Grant(q)' = {}
                   /\ pc'[q] \in {"prepare_check", "fill"} => Grant(q)' # {}
<1>0. /\ pc \in [Procs -> PCs] /\ granted \subseteq Procs \X Int /\ next_recvq \in Int
      /\ granted' \subseteq Procs \X Int
  BY QTypeStep, Zenon DEF QInv, QTypeOK
<1>a. /\ pc[q] \in {"idle", "notify_check", "notify_full"} => Grant(q) = {}
      /\ pc[q] \in {"prepare_check", "fill"} => Grant(q) # {}
  BY DEF QInv, GrantsFollowPC
<1>b. \A r : r \in Grant(q)' <=> <<q, r>> \in granted'
  BY <1>0, GrantElement DEF Grant
<1>c. \A r : r \in Grant(q) <=> <<q, r>> \in granted
  BY <1>0, GrantElement
<1>1. ASSUME NEW p \in Procs, NotifyTake(p) \/ NotifyCheck(p) \/ NotifyRollback(p) PROVE Goal
  BY <1>0, <1>1, <1>a, <1>b, <1>c, Zenon DEF NotifyTake, NotifyCheck, NotifyRollback
<1>2. ASSUME NEW p \in Procs, NEW nr \in 1..FRAGS, PrepareTake(p, nr) PROVE Goal
  <2>1. CASE q = p
    <3>1. <<p, next_recvq>> \in granted' /\ pc'[p] = "prepare_check"
      BY <1>0, <1>2, QueueSizes DEF PrepareTake, QueueSizes
    <3> QED BY <2>1, <3>1, <1>b
  <2>2. CASE q # p
    <3>1. pc'[q] = pc[q] /\ \A r : <<q, r>> \in granted' <=> <<q, r>> \in granted
      BY <1>0, <1>2, <2>2 DEF PrepareTake
    <3> QED BY <3>1, <1>a, <1>b, <1>c, Zenon
  <2> QED BY <2>1, <2>2
<1>3. ASSUME NEW p \in Procs, PrepareCheck(p) PROVE Goal
  <2>1. Grant(q)' = Grant(q)
    BY <1>3 DEF PrepareCheck, Grant
  <2>2. pc'[q] = pc[q] \/ (q = p /\ pc[p] = "prepare_check" /\ pc'[p] \in {"prepare_full", "fill"})
    BY <1>0, <1>3 DEF PrepareCheck
  <2> QED BY <1>a, <2>1, <2>2
<1>4. ASSUME NEW p \in Procs, PrepareRollback(p) PROVE Goal
  <2>1. CASE q = p
    <3>1. granted' = granted \ ({p} \X Grant(p)) /\ pc'[p] = "idle"
      BY <1>0, <1>4 DEF PrepareRollback
    <3>2. \A r : <<p, r>> \notin granted'
      BY <2>1, <3>1, <1>c
    <3> QED BY <2>1, <3>1, <3>2, <1>b, Zenon
  <2>2. CASE q # p
    <3>1. pc'[q] = pc[q] /\ \A r : <<q, r>> \in granted' <=> <<q, r>> \in granted
      BY <1>0, <1>4, <2>2 DEF PrepareRollback
    <3> QED BY <3>1, <1>a, <1>b, <1>c, Zenon
  <2> QED BY <2>1, <2>2
<1>5. ASSUME NEW p \in Procs, CommitTake(p) PROVE Goal
  <2>1. PICK r \in Grant(p) : granted' = granted \ {<<p, r>>}
    BY <1>5 DEF CommitTake
  <2>2. pc' = [pc EXCEPT ![p] = "store"]
    BY <1>5 DEF CommitTake
  <2>3. q # p => \A s : <<q, s>> \in granted' <=> <<q, s>> \in granted
    BY <2>1
  <2> QED BY <1>0, <1>a, <1>b, <1>c, <2>2, <2>3, Zenon
<1>6. ASSUME NEW p \in Procs, Store(p) PROVE Goal
  <2>1. Grant(q)' = Grant(q)
    BY <1>6 DEF Store, Grant
  <2>2. pc' = [pc EXCEPT ![p] = "publish"]
    BY <1>6 DEF Store
  <2> QED BY <1>0, <1>a, <2>1, <2>2
<1>7. ASSUME NEW p \in Procs, Publish(p) \/ Wake(p) PROVE Goal
  <2>1. Grant(q)' = Grant(q)
    BY <1>7 DEF Publish, Wake, Grant
  <2>2. pc'[q] = pc[q] \/ (q = p /\ pc'[p] = "wake") \/ (q = p /\ pc'[p] = Resume(p))
    BY <1>0, <1>7 DEF Publish, Wake
  <2> QED BY <1>a, <2>1, <2>2 DEF Resume
<1>8. ASSUME Consume \/ UNCHANGED qvars PROVE Goal
  <2>1. Grant(q)' = Grant(q) /\ pc' = pc
    BY <1>8 DEF Consume, qvars, procVars, Grant
  <2> QED BY <1>a, <2>1
<1> QED BY <1>1, <1>2, <1>3, <1>4, <1>5, <1>6, <1>7, <1>8 DEF QNext

\* QInv is inductive.
THEOREM QInvHolds == QSpec => []QInv
<1>1. QInv /\ [QNext]_qvars => QInv'
  BY QTypeStep, AccountingStep, GrantsStep DEF QInv
<1> QED BY <1>1, QInitInv, PTL DEF QSpec

\* Types, for every number of contexts and every size of the queues.
THEOREM QTypeCorrect == QSpec => []QTypeOK
<1>1. QInv => QTypeOK BY DEF QInv
<1> QED BY <1>1, QInvHolds, PTL

\* The distance of the two indexes counts the prepared slots.
THEOREM SlotsAccountedHolds == QSpec => []SlotsAccounted
<1>1. QInv => SlotsAccounted BY DEF QInv
<1> QED BY <1>1, QInvHolds, PTL

\* The BUG_ON of commit and cancel never fires, however many contexts deliver
\* events and whatever they roll back meanwhile.
THEOREM CommitNeverBugs == QSpec => []CommitFindsSlot
<1>1. QInv => CommitFindsSlot
  <2> SUFFICES ASSUME QInv, NEW p \in Procs, pc[p] = "fill" PROVE nextreserved < nextfree
    BY DEF CommitFindsSlot
  <2>1. granted # {}
    BY GrantElement, Zenon DEF QInv, GrantsFollowPC, QTypeOK
  <2>2. Cardinality(granted) \in Nat /\ Cardinality(granted) # 0
    BY <2>1, FS_EmptySet, FS_CardinalityType DEF QInv
  <2> QED BY <2>2 DEF QInv, QTypeOK, SlotsAccounted
<1> QED BY <1>1, QInvHolds, PTL
-----------------------------------------------------------------------------
(***************************************************************************)
(* Residues: what slots and ids of neighbouring laps are.                  *)
(***************************************************************************)
\* A number is its quotient and its residue ...
LEMMA ModEq ==
  ASSUME NEW n \in Int, NEW m \in Nat \ {0}
  PROVE  n = m * (n \div m) + (n % m) /\ n % m \in 0..m-1 /\ n \div m \in Int
OBVIOUS

\* ... and the residue is determined by that.
LEMMA ModUnique ==
  ASSUME NEW m \in Nat \ {0}, NEW q \in Int, NEW r \in 0..m-1
  PROVE  (m * q + r) % m = r
OBVIOUS

\* One lap back is the same slot.
LEMMA ModBack ==
  ASSUME NEW n \in Int, NEW m \in Nat \ {0}
  PROVE  (n - m) % m = n % m
<1>1. PICK q \in Int, r \in 0..m-1 : n = m * q + r /\ r = n % m BY ModEq, Zenon
<1>2. (m * (q - 1) + r) % m = r BY ModUnique, q - 1 \in Int
<1>3. n - m = m * (q - 1) + r BY <1>1
<1> QED BY <1>1, <1>2, <1>3

\* How a residue is stepped: the batch boundary of the library's loop.
LEMMA ModNext ==
  ASSUME NEW n \in Int, NEW m \in Nat \ {0}
  PROVE  (n + 1) % m = IF n % m = m - 1 THEN 0 ELSE (n % m) + 1
<1>1. PICK q \in Int, r \in 0..m-1 : n = m * q + r /\ r = n % m BY ModEq, Zenon
<1>2. CASE r = m - 1
  <2>1. (m * (q + 1) + 0) % m = 0 BY ModUnique, q + 1 \in Int
  <2>2. n + 1 = m * (q + 1) + 0 BY <1>1, <1>2
  <2> QED BY <1>1, <1>2, <2>1, <2>2
<1>3. CASE r # m - 1
  <2>1. (m * q + (r + 1)) % m = r + 1 BY <1>3, ModUnique, r + 1 \in 0 .. m-1
  <2>2. n + 1 = m * q + (r + 1) BY <1>1
  <2> QED BY <1>1, <1>3, <2>1, <2>2
<1> QED BY <1>2, <1>3

\* Numbers with equal residues differ by a multiple.
LEMMA ModDiff ==
  ASSUME NEW n \in Int, NEW i \in Int, NEW m \in Nat \ {0}, i % m = n % m
  PROVE  \E k \in Int : n - i = m * k
<1>1. PICK q \in Int, r \in 0..m-1 : n = m * q + r /\ r = n % m BY ModEq, Zenon
<1>2. PICK u \in Int, t \in 0..m-1 : i = m * u + t /\ t = i % m BY ModEq, Zenon
<1>3. n - i = m * (q - u) BY <1>1, <1>2
<1> QED BY <1>3, q - u \in Int

\* Within a lap no two indexes share a slot.
LEMMA ModDiffer ==
  ASSUME NEW n \in Int, NEW m \in Nat \ {0}, NEW i \in n - m + 1 .. n - 1
  PROVE  i % m # n % m
<1> SUFFICES ASSUME i % m = n % m PROVE FALSE OBVIOUS
<1>1. PICK k \in Int : n - i = m * k BY ModDiff, i \in Int, Zenon
<1>2. 0 < m * k /\ m * k < m BY <1>1
<1> QED BY <1>2

\* Indexes that differ by no multiple of the number of ids have different ids.
LEMMA ModIds ==
  ASSUME NEW n \in Int, NEW k \in Nat, NEW m \in Nat \ {0}, k % m # 0
  PROVE  (n - k) % m # n % m
<1> SUFFICES ASSUME (n - k) % m = n % m PROVE FALSE OBVIOUS
<1>1. PICK j \in Int : n - (n - k) = m * j BY ModDiff, n - k \in Int, Zenon
<1>2. k = m * j + 0 BY <1>1
<1>3. (m * j + 0) % m = 0 BY ModUnique
<1> QED BY <1>2, <1>3

\* A finite set that gains or loses at most one element.
LEMMA OneMoves ==
  ASSUME NEW S, NEW T, NEW x, IsFiniteSet(S), \A y : y # x => (y \in T <=> y \in S)
  PROVE  /\ IsFiniteSet(T) /\ Cardinality(S) \in Nat /\ Cardinality(T) \in Nat
         /\ x \in T /\ x \notin S => Cardinality(T) = Cardinality(S) + 1
         /\ x \notin T /\ x \in S => Cardinality(T) = Cardinality(S) - 1
         /\ (x \in T <=> x \in S) => Cardinality(T) = Cardinality(S)
<1>1. CASE x \in T /\ x \notin S
  <2>1. T = S \cup {x} BY <1>1
  <2> QED BY <1>1, <2>1, FS_AddElement, FS_CardinalityType
<1>2. CASE x \notin T /\ x \in S
  <2>1. T = S \ {x} BY <1>2
  <2> QED BY <1>2, <2>1, FS_RemoveElement, FS_CardinalityType
<1>3. CASE x \in T <=> x \in S
  <2>1. T = S BY <1>3
  <2> QED BY <1>3, <2>1, FS_CardinalityType
<1> QED BY <1>1, <1>2, <1>3

-----------------------------------------------------------------------------
(***************************************************************************)
(* The library never aborts.  A release is refused when the library gives  *)
(* back more than was reserved, so what it has processed must be counted   *)
(* against the indexes reserved: PolledOnce is that count.  It is          *)
(* inductive, with where nextreleased follows next_event.                  *)
(***************************************************************************)
PollInv ==
  /\ IsFiniteSet(Holding)
  /\ PolledOnce
  /\ next_event \in Nat
  /\ nextreleased = next_event - (next_event % BATCH)
  /\ ~aborted

\* There are at most NR fresh slots.
LEMMA FreshFinite == IsFiniteSet(Fresh) /\ Cardinality(Fresh) \in Nat
<1>1. IsFiniteSet(0 .. NR - 1)
  BY QueueSizes, FS_Interval DEF QueueSizes
<1>2. Fresh \subseteq 0 .. NR - 1
  BY DEF Fresh
<1> QED BY <1>1, <1>2, FS_Subset, FS_CardinalityType, Zenon

\* The queue starts empty.
LEMMA PollInit == QInit => PollInv
<1> SUFFICES ASSUME QInit PROVE PollInv
  OBVIOUS
<1>1. Holding = {} /\ Fresh = {}
  BY QueueSizes DEF QInit, Holding, Fresh, QueueSizes
<1>2. 0 % BATCH = 0
  BY QueueSizes, ModUnique, BATCH * 0 + 0 = 0 DEF QueueSizes
<1> QED BY <1>1, <1>2, FS_EmptySet DEF PollInv, PolledOnce, QInit

\* The slot that the poll finds ready is fresh: the event it processed there one
\* lap ago had another id.
LEMMA ReadyIsFresh ==
  ASSUME next_event \in Int, Ready
  PROVE  Slot(next_event) \in Fresh
<1> DEFINE n == next_event
           s == Slot(n)
<1> USE QueueSizes DEF QueueSizes
<1>1. s \in 0 .. NR - 1 /\ Slot(n - NR) = s
  BY ModEq, ModBack, Zenon DEF Slot
<1>2. unexp_eventq[s].id = Id(n) /\ Id(n) # 0
  BY ModEq DEF Ready, Id
<1>3. ASSUME NEW i \in n - NR .. n - 1, Slot(i) = s
      PROVE  Id(n) # Id(i)
  <2>0. i \notin n - NR + 1 .. n - 1
    BY <1>3, ModDiffer, Zenon DEF Slot
  <2>1. i = n - NR
    BY <2>0
  <2>2. (n - NR) % IDMAX # n % IDMAX
    BY IdsChange, ModIds, Zenon
  <2>3. n % IDMAX \in Int /\ (n - NR) % IDMAX \in Int
    BY ModEq, n - NR \in Int
  <2> QED BY <2>1, <2>2, <2>3 DEF Id
<1> QED BY <1>1, <1>2, <1>3 DEF Fresh

\* A store empties a slot, a publication fills at most one.
LEMMA StoreFresh ==
  ASSUME QTypeOK, NEW p \in Procs, Store(p)
  PROVE  /\ Fresh' \subseteq Fresh
         /\ Cardinality(Fresh') <= Cardinality(Fresh) /\ Cardinality(Fresh') \in Nat
<1>1. Fresh' \subseteq Fresh
  <2> SUFFICES ASSUME NEW s \in Fresh' PROVE s \in Fresh
    OBVIOUS
  <2>1. s \in 0 .. NR - 1 /\ unexp_eventq'[s].id # 0 /\ next_event' = next_event
    BY DEF Fresh, Store, libVars
  <2>2. unexp_eventq'[s] = unexp_eventq[s]
    BY <2>1 DEF Store, QTypeOK
  <2> QED BY <2>1, <2>2 DEF Fresh, Slot, Id
<1> QED BY <1>1, FreshFinite, FS_Subset, FS_CardinalityType

\* The slot that a context publishes.
LEMMA PublishFresh ==
  ASSUME QTypeOK, NEW p \in Procs, Publish(p)
  PROVE  /\ Fresh' \subseteq Fresh \cup {Slot(index[p])}
         /\ Cardinality(Fresh') <= Cardinality(Fresh) + 1 /\ Cardinality(Fresh') \in Nat
<1> DEFINE k == Slot(index[p])
<1>1. Fresh' \subseteq Fresh \cup {k}
  <2> SUFFICES ASSUME NEW s \in Fresh', s # k PROVE s \in Fresh
    OBVIOUS
  <2>1. s \in 0 .. NR - 1 /\ unexp_eventq'[s].id # 0 /\ next_event' = next_event
    BY DEF Fresh, Publish, libVars
  <2>2. unexp_eventq'[s] = unexp_eventq[s]
    BY <2>1 DEF Publish, QTypeOK
  <2> QED BY <2>1, <2>2 DEF Fresh, Slot, Id
<1> HIDE DEF k
<1>2. IsFiniteSet(Fresh \cup {k}) /\ Cardinality(Fresh \cup {k}) <= Cardinality(Fresh) + 1
  <2>1. /\ IsFiniteSet(Fresh \cup {k})
        /\ \/ Cardinality(Fresh \cup {k}) = Cardinality(Fresh)
           \/ Cardinality(Fresh \cup {k}) = Cardinality(Fresh) + 1
    BY FreshFinite, FS_AddElement, Zenon
  <2> QED BY <2>1, FreshFinite
<1>3. Cardinality(Fresh') <= Cardinality(Fresh \cup {k}) /\ Cardinality(Fresh \cup {k}) \in Nat
  BY <1>1, <1>2, FS_Subset, FS_CardinalityType
<1>4. Cardinality(Fresh') \in Nat
  BY <1>1, <1>2, FS_Subset, FS_CardinalityType
<1>5. Cardinality(Fresh') <= Cardinality(Fresh) + 1
  BY <1>2, <1>3, <1>4, FreshFinite
<1> QED BY <1>1, <1>4, <1>5, Zenon DEF k

\* A poll leaves its slot no longer fresh.
LEMMA ConsumeFresh ==
  ASSUME QTypeOK, next_event \in Nat, Consume
  PROVE  /\ Fresh' \subseteq Fresh
         /\ Cardinality(Fresh') <= Cardinality(Fresh) - 1 /\ Cardinality(Fresh') \in Nat
<1> DEFINE n == next_event
           k == Slot(n)
<1>0. n \in Nat /\ n' = n + 1 /\ unexp_eventq' = unexp_eventq /\ unexp_eventq[k].id = Id(n)
  BY DEF Consume, QTypeOK, Ready
<1>1. k \in Fresh
  BY ReadyIsFresh DEF Consume, QTypeOK
<1>2. Fresh' \subseteq Fresh \ {k}
  <2> SUFFICES ASSUME NEW s \in Fresh' PROVE s \in Fresh /\ s # k
    OBVIOUS
  <2> USE QueueSizes DEF QueueSizes
  <2>1. /\ s \in 0 .. NR - 1 /\ unexp_eventq[s].id # 0
        /\ \A i \in n + 1 - NR .. n : i >= 0 /\ Slot(i) = s => unexp_eventq[s].id # Id(i)
    BY <1>0 DEF Fresh, Slot, Id
  <2>2. s # k
    BY <1>0, <2>1, n \in n + 1 - NR .. n
  <2>3. Slot(n - NR) # s
    <3>1. (n - NR) % NR = n % NR BY <1>0, ModBack, n \in Int, Zenon
    <3> QED BY <2>2, <3>1 DEF Slot
  <2>4. ASSUME NEW i \in n - NR .. n - 1, i >= 0, Slot(i) = s PROVE unexp_eventq[s].id # Id(i)
    <3>1. i \in n + 1 - NR .. n
      BY <1>0, <2>3, <2>4
    <3> QED BY <2>1, <2>4, <3>1
  <2> QED BY <2>1, <2>2, <2>4 DEF Fresh
<1> HIDE DEF k
<1>3. IsFiniteSet(Fresh \ {k}) /\ Cardinality(Fresh \ {k}) = Cardinality(Fresh) - 1
  BY <1>1, FreshFinite, FS_RemoveElement
<1>4. Cardinality(Fresh') <= Cardinality(Fresh \ {k}) /\ IsFiniteSet(Fresh')
  BY <1>2, <1>3, FS_Subset
<1>5. Cardinality(Fresh') <= Cardinality(Fresh) - 1 /\ Cardinality(Fresh') \in Nat
  BY <1>3, <1>4, FS_CardinalityType
<1> QED BY <1>2, <1>5, Zenon

\* The index moves by one delivery at most, and the count with it.
LEMMA PollStep ==
  ASSUME QTypeOK, PollInv, [QNext]_qvars
  PROVE  PollInv'
<1> USE DEF QTypeOK
<1>0. /\ IsFiniteSet(Holding) /\ Cardinality(Holding) \in Nat /\ Cardinality(Fresh) \in Nat
      /\ Cardinality(Holding) + Cardinality(Fresh) <= nextreserved - next_event
      /\ next_event \in Nat /\ nextreserved \in Int
      /\ nextreleased = next_event - (next_event % BATCH) /\ ~aborted
  BY FreshFinite, FS_CardinalityType DEF PollInv, PolledOnce
<1>a. ASSUME UNCHANGED <<next_event, nextreleased, aborted>>,
             IsFiniteSet(Holding'), PolledOnce'
      PROVE  PollInv'
  BY <1>0, <1>a DEF PollInv
<1>b. ASSUME UNCHANGED <<unexp_eventq, next_event>>
      PROVE  Fresh' = Fresh
  BY <1>b DEF Fresh, Slot, Id
<1>c. ASSUME NEW p \in Procs, NEW where, pc' = [pc EXCEPT ![p] = where]
      PROVE  \A q : q # p => (q \in Holding' <=> q \in Holding)
  BY <1>c DEF Holding
<1>1. ASSUME NEW p \in Procs, NotifyTake(p) \/ CommitTake(p) PROVE PollInv'
  <2>1. p \in Holding' /\ p \notin Holding
    BY <1>1 DEF NotifyTake, CommitTake, Holding
  <2>2. \A q : q # p => (q \in Holding' <=> q \in Holding)
    BY <1>1, <1>c, Zenon DEF NotifyTake, CommitTake
  <2>3. IsFiniteSet(Holding') /\ Cardinality(Holding') = Cardinality(Holding) + 1
    BY <1>0, <2>1, <2>2, OneMoves
  <2>4. UNCHANGED <<unexp_eventq, next_event>>
    BY <1>1 DEF NotifyTake, CommitTake, libVars
  <2>5. nextreserved' = nextreserved + 1 /\ UNCHANGED <<next_event, nextreleased, aborted>>
    BY <1>1 DEF NotifyTake, CommitTake, libVars
  <2> QED BY <1>0, <1>a, <1>b, <2>3, <2>4, <2>5 DEF PolledOnce
<1>2. ASSUME NEW p \in Procs, NotifyRollback(p) PROVE PollInv'
  <2>1. p \notin Holding' /\ p \in Holding
    BY <1>2 DEF NotifyRollback, Holding
  <2>2. \A q : q # p => (q \in Holding' <=> q \in Holding)
    BY <1>2, <1>c, Zenon DEF NotifyRollback
  <2>3. IsFiniteSet(Holding') /\ Cardinality(Holding') = Cardinality(Holding) - 1
    BY <1>0, <2>1, <2>2, OneMoves
  <2>4. UNCHANGED <<unexp_eventq, next_event>>
    BY <1>2 DEF NotifyRollback, libVars
  <2>5. nextreserved' = nextreserved - 1 /\ UNCHANGED <<next_event, nextreleased, aborted>>
    BY <1>2 DEF NotifyRollback, libVars
  <2> QED BY <1>0, <1>a, <1>b, <2>3, <2>4, <2>5 DEF PolledOnce
<1>3. ASSUME NEW p \in Procs,
             \/ NotifyCheck(p) \/ PrepareCheck(p) \/ PrepareRollback(p) \/ Wake(p)
             \/ \E nr \in 1..FRAGS : PrepareTake(p, nr)
      PROVE  PollInv'
  <2>1. Holding' = Holding
    <3>1. PICK where : pc' = [pc EXCEPT ![p] = where] /\ (p \in Holding' <=> p \in Holding)
      BY <1>3 DEF NotifyCheck, PrepareCheck, PrepareRollback, Wake, PrepareTake, Resume, Holding
    <3> QED BY <3>1 DEF Holding
  <2>2. UNCHANGED <<unexp_eventq, next_event>>
    BY <1>3 DEF NotifyCheck, PrepareCheck, PrepareRollback, Wake, PrepareTake, libVars
  <2>3. nextreserved' = nextreserved /\ UNCHANGED <<next_event, nextreleased, aborted>>
    BY <1>3 DEF NotifyCheck, PrepareCheck, PrepareRollback, Wake, PrepareTake, driverVars, libVars
  <2> QED BY <1>0, <1>a, <1>b, <2>1, <2>2, <2>3 DEF PolledOnce
<1>4. ASSUME NEW p \in Procs, Store(p) PROVE PollInv'
  <2>1. Holding' = Holding
    <3>1. p \in Holding' /\ p \in Holding BY <1>4 DEF Store, Holding
    <3>2. pc' = [pc EXCEPT ![p] = "publish"] BY <1>4 DEF Store
    <3> QED BY <3>1, <3>2 DEF Holding
  <2>2. Cardinality(Fresh') <= Cardinality(Fresh) /\ Cardinality(Fresh') \in Nat
    BY <1>4, StoreFresh
  <2>3. nextreserved' = nextreserved /\ UNCHANGED <<next_event, nextreleased, aborted>>
    BY <1>4 DEF Store, driverVars, libVars
  <2> QED BY <1>0, <1>a, <2>1, <2>2, <2>3 DEF PolledOnce
<1>5. ASSUME NEW p \in Procs, Publish(p) PROVE PollInv'
  <2>1. p \notin Holding' /\ p \in Holding
    BY <1>5 DEF Publish, Resume, Holding
  <2>2. \A q : q # p => (q \in Holding' <=> q \in Holding)
    BY <1>5, <1>c, Zenon DEF Publish
  <2>3. IsFiniteSet(Holding') /\ Cardinality(Holding') = Cardinality(Holding) - 1
    BY <1>0, <2>1, <2>2, OneMoves
  <2>4. Cardinality(Fresh') <= Cardinality(Fresh) + 1 /\ Cardinality(Fresh') \in Nat
    BY <1>5, PublishFresh
  <2>5. nextreserved' = nextreserved /\ UNCHANGED <<next_event, nextreleased, aborted>>
    BY <1>5 DEF Publish, driverVars, libVars
  <2> QED BY <1>0, <1>a, <2>3, <2>4, <2>5 DEF PolledOnce
<1>6. CASE Consume
  <2>1. Holding' = Holding
    BY <1>6 DEF Consume, procVars, Holding
  <2>2. Cardinality(Fresh') <= Cardinality(Fresh) - 1 /\ Cardinality(Fresh') \in Nat
    BY <1>0, <1>6, ConsumeFresh
  <2>3. nextreserved' = nextreserved /\ next_event' = next_event + 1
    BY <1>6 DEF Consume
  <2>4. PolledOnce' /\ nextreserved >= next_event + 1
    BY <1>0, <2>1, <2>2, <2>3 DEF PolledOnce
  <2>5. PICK r \in 0 .. BATCH - 1, t \in 0 .. BATCH - 1 :
           r = next_event % BATCH /\ t = (next_event + 1) % BATCH
    BY <1>0, QueueSizes, ModEq, next_event \in Int, next_event + 1 \in Int, Zenon DEF QueueSizes
  <2>6. t = IF r = BATCH - 1 THEN 0 ELSE r + 1
    BY <1>0, <2>5, QueueSizes, ModNext, next_event \in Int, Zenon DEF QueueSizes
  <2>7. BATCH \in Nat \ {0} /\ next_event \in Nat /\ nextreleased = next_event - r
    BY <1>0, <2>5, QueueSizes DEF QueueSizes
  <2>8. ~aborted' /\ nextreleased' = next_event' - t
    <3>1. CASE t = 0
      <4>1. nextreleased = next_event + 1 - BATCH
        BY <2>6, <2>7, <3>1
      <4>2. ~ReleaseRefused
        BY <2>4, <2>7, <4>1 DEF ReleaseRefused
      <4>3. ~aborted' /\ nextreleased' = nextreleased + BATCH
        BY <1>6, <2>5, <3>1, <4>2, Zenon DEF Consume
      <4> QED BY <2>3, <2>7, <3>1, <4>1, <4>3
    <3>2. CASE t # 0
      <4>1. ~aborted' /\ nextreleased' = nextreleased
        BY <1>0, <1>6, <2>5, <3>2, Zenon DEF Consume
      <4> QED BY <2>3, <2>6, <2>7, <3>2, <4>1
    <3> QED BY <3>1, <3>2
  <2> QED BY <1>0, <2>1, <2>3, <2>4, <2>5, <2>8 DEF PollInv
<1>7. CASE UNCHANGED qvars
  BY <1>0, <1>7, <1>b DEF qvars, driverVars, procVars, libVars, PollInv, PolledOnce, Holding
<1> QED BY <1>1, <1>2, <1>3, <1>4, <1>5, <1>6, <1>7 DEF QNext

\* PollInv is inductive relative to the types.
THEOREM PollInvHolds == QSpec => []PollInv
<1>1. QTypeOK /\ PollInv /\ [QNext]_qvars => PollInv'
  BY PollStep
<1> QED BY <1>1, PollInit, QTypeCorrect, PTL DEF QSpec

\* However contexts overlap, roll back or overwrite each other's slots, and for
\* any sizes under which ids change at every lap, what the library has processed
\* is covered by the indexes reserved.
THEOREM PolledOnceHolds == QSpec => []PolledOnce
<1>1. PollInv => PolledOnce BY DEF PollInv
<1> QED BY <1>1, PollInvHolds, PTL

\* The driver never refuses to release a batch: omx__progress does not abort.
THEOREM LibraryNeverAborts == QSpec => []ReleaseNeverRefused
<1>1. PollInv => ReleaseNeverRefused BY DEF PollInv, ReleaseNeverRefused
<1> QED BY <1>1, PollInvHolds, PTL
=============================================================================
