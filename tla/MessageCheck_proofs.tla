-------------------------- MODULE MessageCheck_proofs --------------------------
(***************************************************************************)
(* Proofs about MessageCheck, for every set of workers, every history of   *)
(* validators, every size of cache and window and every bound.             *)
(***************************************************************************)
EXTENDS MessageCheck, FiniteSetTheorems, TLAPS

USE SizesAssumption

-------------------------------------------------------------------------------
(* The inductive invariant *)

Kinds == {"none", "vote", "bundle"}
VerdictType == [answer : {"none", "deny", "old", "vote", "bundle"},
                height : Int64, index : Nat,
                signer : Validators \union {"none"}]
WorkerType ==
    [pc : {"idle", "age", "contains", "get", "page", "add", "max", "judge", "signature"},
     kind : Kinds, height : Int64, set : Seq(Validators), page : 1..3,
     proposer : Validators \union {"none"}, verdict : VerdictType]

Nodes == [height : Heights, proposer : Validators]
NodeInv == node \in Nodes /\ named \subseteq Nodes /\ node \in named

(* The sets in the cache are whole, and nothing has been evicted while     *)
(* there was room for every height that was fetched.                       *)
CacheInv ==
    /\ fetched \subseteq Heights
    /\ DOMAIN validatorCache \subseteq fetched
    /\ \A h \in DOMAIN validatorCache : validatorCache[h] = Fetchable(h)
    /\ Cardinality(DOMAIN validatorCache) <= CacheSize
    /\ Cardinality(fetched) <= CacheSize => DOMAIN validatorCache = fetched

(* The node knows the validators of one height beyond its own at most.     *)
MaxInv == maxValidHeight \in Heights \union {0} /\ maxValidHeight <= node.height + 1

(* What a worker with record k has by the time it is where it is: a height *)
(* is one of the chain from the first page on that has come.               *)
Stage(k) ==
    /\ k.pc \in {"get", "add", "max", "judge", "signature"} => k.height \in Heights
    /\ k.pc \in {"age", "contains", "get"} => k.set = << >> /\ k.page = 1
    /\ k.pc = "get" => k.height \in fetched
    /\ k.pc = "page" => \/ k.page = 1 /\ k.set = << >>
                        \/ k.page = 2 /\ k.height \in Heights /\ k.set = NodePages[k.height][1]
    /\ k.pc \in {"add", "max"} => k.height <= node.height + 1
    /\ k.pc \in {"add", "max", "judge", "signature"} => k.set = Fetchable(k.height)
    /\ k.pc = "signature" => [height |-> k.height, proposer |-> k.proposer] \in named

(* A verdict v is justified, by what the node has said up to now.          *)
Justified(v) ==
    /\ v.answer = "vote" => /\ v.height \in Heights
                            /\ v.index \in DOMAIN ValidatorsAt(v.height)
                            /\ v.signer = ValidatorsAt(v.height)[v.index]
    /\ v.answer = "bundle" => [height |-> v.height, proposer |-> v.signer] \in named
    /\ v.answer = "old" =>
         v.height + Window <= node.height \/ v.height + Window > MaxInt

WorkerInv(k) == k \in WorkerType /\ Stage(k) /\ Justified(k.verdict)

PanicInv ==
    /\ panic \in {"none", "evicted", "garbled", "proposer", "negative index"}
    /\ panic = "evicted" => Cardinality(fetched) > CacheSize
    /\ panic = "proposer" => NodePages[node.height][3] # << >>

IInv ==
    /\ NodeInv /\ CacheInv /\ MaxInv /\ PanicInv
    /\ worker \in [Workers -> WorkerType]
    /\ \A w \in Workers : WorkerInv(worker[w])
    /\ checks \in 0..MaxChecks

-------------------------------------------------------------------------------
(* Lemmas *)

(* Heights are natural numbers.                                            *)
LEMMA HeightsNat == 1 \in Heights /\ \A h \in Heights : h \in Nat /\ h # 0
  BY PagesAssumption

(* Every height of the chain, and 0, is an int64, and all are integers.    *)
LEMMA Int64s ==
    /\ Heights \subseteq Int64 /\ 0 \in Int64 /\ Int64 \subseteq Int
    /\ MaxInt \in Nat /\ \A h \in Int64 : h <= MaxInt
  BY PagesAssumption, MaxIntAssumption DEF Int64

(* Pages are sequences of validators.                                      *)
LEMMA Pages ==
    \A h \in Heights :
         /\ NodePages[h][1] \in Seq(Validators) /\ NodePages[h][2] \in Seq(Validators)
         /\ NodePages[h][3] \in Seq(Validators)
         /\ Fetchable(h) \in Seq(Validators) /\ ValidatorsAt(h) \in Seq(Validators)
         /\ Fetchable(h) = NodePages[h][1] \o NodePages[h][2]
         /\ ValidatorsAt(h) = Fetchable(h) \o NodePages[h][3]
         /\ << >> \o NodePages[h][1] = NodePages[h][1]
  <1>2. ASSUME NEW h \in Heights
        PROVE  /\ NodePages[h][1] \in Seq(Validators) /\ NodePages[h][2] \in Seq(Validators)
               /\ NodePages[h][3] \in Seq(Validators)
    <2>1. \A p \in 1..3 : NodePages[h][p] \in Seq(Validators)
      BY <1>2, PagesAssumption
    <2> QED
      BY <2>1
  <1>3. ASSUME NEW h \in Heights
        PROVE  Fetchable(h) \in Seq(Validators) /\ << >> \o NodePages[h][1] = NodePages[h][1]
    BY <1>2 DEF Fetchable
  <1>4. ASSUME NEW h \in Heights
        PROVE  ValidatorsAt(h) \in Seq(Validators)
    BY <1>2, <1>3 DEF ValidatorsAt
  <1> QED
    BY <1>2, <1>3, <1>4 DEF Fetchable, ValidatorsAt

LEMMA FiniteHeights == \A S : S \subseteq Heights => IsFiniteSet(S)
  <1>1. Heights = 1..Len(NodePages) /\ Len(NodePages) \in Int
    BY PagesAssumption
  <1>2. IsFiniteSet(Heights)
    BY <1>1, FS_Interval
  <1> QED
    BY <1>2, FS_Subset

(* A validator at an index of two pages is at that index of all of them.   *)
LEMMA IndexInPages ==
    ASSUME NEW h \in Heights, NEW i \in Nat \ {0}, i <= Len(Fetchable(h))
    PROVE  i \in DOMAIN ValidatorsAt(h) /\ ValidatorsAt(h)[i] = Fetchable(h)[i]
  <1>1. /\ Fetchable(h) \in Seq(Validators) /\ NodePages[h][3] \in Seq(Validators)
        /\ ValidatorsAt(h) = Fetchable(h) \o NodePages[h][3]
    BY Pages
  <1> QED
    BY <1>1

(* An index beyond the two pages needs a third.                            *)
LEMMA IndexBeyond ==
    ASSUME NEW h \in Heights, NEW i \in DOMAIN ValidatorsAt(h), i > Len(Fetchable(h))
    PROVE  NodePages[h][3] # << >>
  <1>1. /\ Fetchable(h) \in Seq(Validators) /\ NodePages[h][3] \in Seq(Validators)
        /\ ValidatorsAt(h) = Fetchable(h) \o NodePages[h][3]
    BY Pages
  <1>2. SUFFICES ASSUME NodePages[h][3] = << >> PROVE FALSE
    OBVIOUS
  <1>3. ValidatorsAt(h) = Fetchable(h)
    BY <1>1, <1>2
  <1> QED
    BY <1>1, <1>3

(* The elements of a sequence are in the set that it is over.              *)
LEMMA ElementsIn ==
    ASSUME NEW S, NEW s \in Seq(S) PROVE Elements(s) \subseteq S
  BY DEF Elements

(* What was said stays said and what was fetched stays fetched: a worker   *)
(* that does nothing stays justified.                                      *)
LEMMA OthersStay ==
    ASSUME IInv, NEW k, WorkerInv(k), node' \in Nodes, node.height <= node'.height,
           named \subseteq named', fetched \subseteq fetched'
    PROVE  Stage(k)' /\ Justified(k.verdict)'
  <1>1. /\ node.height \in Nat /\ node'.height \in Nat /\ Window \in Nat
        /\ k.height \in Int /\ k.verdict.height \in Int
    BY HeightsNat, Int64s DEF IInv, NodeInv, Nodes, WorkerInv, WorkerType, VerdictType
  <1>2. k.height <= node.height + 1 => k.height <= node'.height + 1
    BY <1>1
  <1>3. k.verdict.height + Window <= node.height => k.verdict.height + Window <= node'.height
    BY <1>1
  <1>4. Stage(k)'
    BY <1>2 DEF WorkerInv, Stage
  <1>5. Justified(k.verdict)'
    BY <1>3 DEF WorkerInv, Justified
  <1> QED
    BY <1>4, <1>5

(* A step of worker w that leaves node and cache alone.                    *)
LEMMA OneWorker ==
    ASSUME IInv, NEW w \in Workers, NEW k, worker' = [worker EXCEPT ![w] = k],
           WorkerInv(k)', UNCHANGED <<nodeVars, validatorCache, fetched, panic>>,
           MaxInv', checks' \in 0..MaxChecks
    PROVE  IInv'
  <1>1. k \in WorkerType
    BY DEF WorkerInv
  <1>2. worker' \in [Workers -> WorkerType]
    BY <1>1 DEF IInv
  <1>3. ASSUME NEW v \in Workers PROVE WorkerInv(worker[v])'
    <2>1. CASE v = w
      BY <2>1 DEF IInv
    <2>2. CASE v # w
      <3>1. worker'[v] = worker[v] /\ WorkerInv(worker[v]) /\ worker[v] \in WorkerType
        BY <2>2 DEF IInv
      <3>2. UNCHANGED <<node, named, fetched>>
        BY DEF nodeVars
      <3>3. Stage(worker[v])' /\ Justified(worker[v].verdict)'
        BY <3>1, <3>2 DEF WorkerInv, Stage, Justified
      <3> QED
        BY <3>1, <3>3 DEF WorkerInv
    <2> QED
      BY <2>1, <2>2
  <1>4. NodeInv' /\ CacheInv' /\ PanicInv'
    BY DEF IInv, NodeInv, CacheInv, PanicInv, nodeVars
  <1> QED
    BY <1>2, <1>3, <1>4 DEF IInv

(* What every worker has, wherever it is.                                  *)
LEMMA Typed ==
    ASSUME IInv, NEW w \in Workers
    PROVE  /\ worker[w] \in WorkerType /\ Stage(worker[w]) /\ Justified(worker[w].verdict)
           /\ WorkerInv(worker[w]) /\ worker[w].verdict \in VerdictType
           /\ worker[w].height \in Int /\ worker[w].height \in Int64
           /\ node \in Nodes /\ node.height \in Nat /\ node.height \in Heights
           /\ maxValidHeight \in Nat
  <1>1. WorkerInv(worker[w]) /\ worker[w] \in WorkerType
    BY DEF IInv
  <1>2. worker[w].verdict \in VerdictType /\ worker[w].height \in Int64
    BY <1>1 DEF WorkerType
  <1>3. node \in Nodes /\ node.height \in Heights /\ maxValidHeight \in Nat
    BY HeightsNat DEF IInv, NodeInv, Nodes, MaxInv
  <1> QED
    BY <1>1, <1>2, <1>3, HeightsNat, Int64s DEF WorkerInv

(* A worker with a verdict that is justified may be idle.                  *)
LEMMA IdleIsFine ==
    ASSUME NEW v \in VerdictType, Justified(v)
    PROVE  WorkerInv(Idle(v))
  <1>1. Idle(v) \in WorkerType
    BY Int64s DEF Idle, WorkerType, Kinds
  <1>2. Stage(Idle(v)) /\ Idle(v).verdict = v
    BY DEF Idle, Stage
  <1> QED
    BY <1>1, <1>2 DEF WorkerInv

(* A worker that answers is idle, with a verdict that has to be justified. *)
LEMMA AnswerStep ==
    ASSUME IInv, NEW w \in Workers, NEW v \in VerdictType, Justified(v), Answer(w, v),
           UNCHANGED <<nodeVars, sharedVars, checks, panic>>
    PROVE  IInv'
  <1>1. WorkerInv(Idle(v))
    BY IdleIsFine
  <1>2. WorkerInv(Idle(v))'
    BY <1>1 DEF WorkerInv, Stage, Justified, nodeVars, sharedVars
  <1>3. MaxInv' /\ checks' \in 0..MaxChecks
    BY DEF IInv, MaxInv, nodeVars, sharedVars
  <1> QED
    BY <1>2, <1>3, OneWorker DEF Answer, sharedVars

(* A denial needs no justification.                                        *)
LEMMA DenyStep ==
    ASSUME IInv, NEW w \in Workers, Deny(w),
           UNCHANGED <<nodeVars, sharedVars, checks, panic>>
    PROVE  IInv'
  <1>1. Denial \in VerdictType /\ Justified(Denial)
    BY Int64s DEF Denial, NoVerdict, VerdictType, Justified
  <1> QED
    BY <1>1, AnswerStep DEF Deny

(* A panic changes nothing but the cause that it gives.                    *)
LEMMA PanicStep ==
    ASSUME IInv, NEW w \in Workers, NEW cause, Panic(w, cause),
           cause \in {"evicted", "garbled", "proposer", "negative index"},
           cause = "evicted" => Cardinality(fetched) > CacheSize,
           cause = "proposer" => NodePages[node.height][3] # << >>
    PROVE  IInv'
  <1>1. UNCHANGED <<node, named, validatorCache, maxValidHeight, fetched, worker, checks>>
    BY DEF Panic, nodeVars, sharedVars
  <1>2. NodeInv' /\ CacheInv' /\ MaxInv'
    BY <1>1 DEF IInv, NodeInv, CacheInv, MaxInv
  <1>3. PanicInv'
    BY <1>1 DEF Panic, PanicInv
  <1>4. \A v \in Workers : WorkerInv(worker[v])'
    BY <1>1 DEF IInv, WorkerInv, Stage, Justified
  <1> QED
    BY <1>1, <1>2, <1>3, <1>4 DEF IInv

-------------------------------------------------------------------------------
(* The steps *)

LEMMA InitInv == Init => IInv
  <1> SUFFICES ASSUME Init PROVE IInv
    OBVIOUS
  <1>1. PICK v \in Elements(ValidatorsAt(1)) : node = [height |-> 1, proposer |-> v]
    BY DEF Init
  <1>2. v \in Validators /\ 1 \in Heights
    BY <1>1, HeightsNat, Pages, ElementsIn
  <1>3. node \in Nodes /\ node.height = 1
    BY <1>1, <1>2 DEF Nodes
  <1>4. NodeInv
    BY <1>3 DEF Init, NodeInv
  <1>5. CacheInv
    <2>1. DOMAIN validatorCache = {} /\ fetched = {}
      BY DEF Init
    <2> QED
      BY <2>1, FS_EmptySet DEF CacheInv
  <1>6. MaxInv /\ PanicInv /\ checks \in 0..MaxChecks
    BY <1>3 DEF Init, MaxInv, PanicInv
  <1>7. NoVerdict \in VerdictType /\ Justified(NoVerdict)
    BY Int64s DEF NoVerdict, VerdictType, Justified
  <1>8. WorkerInv(Idle(NoVerdict))
    BY <1>7, IdleIsFine
  <1>9. /\ worker \in [Workers -> WorkerType]
        /\ \A w \in Workers : WorkerInv(worker[w])
    BY <1>8 DEF Init, WorkerInv
  <1> QED
    BY <1>4, <1>5, <1>6, <1>9 DEF IInv

LEMMA NodeMovesStep == IInv /\ NodeMoves => IInv'
  <1> SUFFICES ASSUME IInv, NodeMoves PROVE IInv'
    OBVIOUS
  <1>1. PICK h \in {node.height, node.height + 1} \intersect Heights :
            \E v \in Elements(ValidatorsAt(h)) : node' = [height |-> h, proposer |-> v]
    BY DEF NodeMoves
  <1>2. PICK v \in Elements(ValidatorsAt(h)) : node' = [height |-> h, proposer |-> v]
    BY <1>1
  <1>3. v \in Validators
    BY <1>2, Pages, ElementsIn
  <1>4. node' \in Nodes /\ node'.height = h
    BY <1>1, <1>2, <1>3 DEF Nodes
  <1>5. node \in Nodes /\ node.height \in Nat /\ maxValidHeight \in Nat
    BY HeightsNat DEF IInv, NodeInv, Nodes, MaxInv
  <1>6. node.height <= node'.height
    BY <1>1, <1>4, <1>5
  <1>7. named' = named \union {node'}
        /\ UNCHANGED <<validatorCache, maxValidHeight, fetched, worker, checks, panic>>
    BY DEF NodeMoves, sharedVars
  <1>8. NodeInv'
    BY <1>4, <1>7 DEF IInv, NodeInv
  <1>9. CacheInv'
    BY <1>7 DEF IInv, CacheInv
  <1>10. MaxInv'
    <2>1. node'.height \in Nat
      BY <1>1, <1>4, HeightsNat
    <2>2. maxValidHeight <= node'.height + 1
      BY <1>5, <1>6, <2>1 DEF IInv, MaxInv
    <2> QED
      BY <1>7, <2>2 DEF IInv, MaxInv
  <1>11. PanicInv'
    BY <1>7 DEF IInv, PanicInv, NodeMoves
  <1>12. ASSUME NEW w \in Workers PROVE WorkerInv(worker[w])'
    <2>1. WorkerInv(worker[w]) /\ worker'[w] = worker[w]
      BY <1>7 DEF IInv
    <2>2. Stage(worker[w])' /\ Justified(worker[w].verdict)'
      BY <1>4, <1>6, <1>7, <2>1, OthersStay
    <2> QED
      BY <2>1, <2>2 DEF WorkerInv
  <1> QED
    BY <1>7, <1>8, <1>9, <1>10, <1>11, <1>12 DEF IInv

(* A step of worker w to the record k, all else unchanged.                 *)
LEMMA MoveStep ==
    ASSUME IInv, NEW w \in Workers, NEW k, worker' = [worker EXCEPT ![w] = k],
           WorkerInv(k), UNCHANGED <<nodeVars, sharedVars, checks, panic>>
    PROVE  IInv'
  <1>1. WorkerInv(k)'
    BY DEF WorkerInv, Stage, Justified, nodeVars, sharedVars
  <1>2. MaxInv' /\ checks' \in 0..MaxChecks
    BY DEF IInv, MaxInv, nodeVars, sharedVars
  <1> QED
    BY <1>1, <1>2, OneWorker DEF sharedVars

LEMMA BeginStep == IInv /\ (\E w \in Workers : Begin(w)) => IInv'
  <1> SUFFICES ASSUME IInv, NEW w \in Workers, Begin(w) PROVE IInv'
    OBVIOUS
  <1>1. PICK k \in {"vote", "bundle"}, h \in Int64 :
          worker' = [worker EXCEPT ![w] =
            [pc |-> "age", kind |-> k, height |-> h, set |-> << >>, page |-> 1,
             proposer |-> "none", verdict |-> NoVerdict]]
    BY DEF Begin
  <1> DEFINE r == [pc |-> "age", kind |-> k, height |-> h, set |-> << >>, page |-> 1,
                   proposer |-> "none", verdict |-> NoVerdict]
  <1>2. worker' = [worker EXCEPT ![w] = r]
    BY <1>1
  <1>3. NoVerdict \in VerdictType /\ Justified(NoVerdict)
    BY Int64s DEF NoVerdict, VerdictType, Justified
  <1>4. r \in WorkerType
    BY <1>3 DEF WorkerType, Kinds
  <1>5. Stage(r)
    BY DEF Stage
  <1>6. WorkerInv(r)'
    BY <1>3, <1>4, <1>5 DEF WorkerInv, Stage, Justified, NoVerdict
  <1>7. MaxInv' /\ checks' \in 0..MaxChecks
    BY DEF IInv, MaxInv, nodeVars, sharedVars, Begin
  <1> QED
    BY <1>2, <1>6, <1>7, OneWorker DEF Begin, sharedVars

LEMMA RefuseOldStep == IInv /\ (\E w \in Workers : RefuseOld(w)) => IInv'
  <1> SUFFICES ASSUME IInv, NEW w \in Workers, RefuseOld(w) PROVE IInv'
    OBVIOUS
  <1> DEFINE h == worker[w].height
             v == [answer |-> "old", height |-> h, index |-> 0, signer |-> "none"]
  <1>1. Old(h) = v
    BY DEF Old
  <1>2. h \in Int /\ h \in Int64 /\ node.height \in Nat /\ maxValidHeight \in Nat
    BY Typed
  <1>3. Wrap(h + Window) < maxValidHeight /\ maxValidHeight <= node.height + 1
    BY DEF RefuseOld, TooOld, IInv, MaxInv
  <1>4. h + Window <= node.height \/ h + Window > MaxInt
    <2>1. MaxInt \in Nat
      BY Int64s
    <2>2. CASE h + Window <= MaxInt
      <3>1. h + Window < maxValidHeight
        BY <1>3, <2>2 DEF Wrap
      <3> QED
        BY <1>2, <1>3, <3>1
    <2> QED
      BY <1>2, <2>1, <2>2
  <1>5. v \in VerdictType /\ Justified(v)
    BY <1>2, <1>4 DEF VerdictType, Justified
  <1> QED
    BY <1>1, <1>5, AnswerStep DEF RefuseOld

LEMMA NotOldStep == IInv /\ (\E w \in Workers : NotOld(w)) => IInv'
  <1> SUFFICES ASSUME IInv, NEW w \in Workers, NotOld(w) PROVE IInv'
    OBVIOUS
  <1> DEFINE k == [worker[w] EXCEPT !.pc = "contains"]
  <1>1. worker[w] \in WorkerType /\ Stage(worker[w]) /\ Justified(worker[w].verdict)
    BY Typed
  <1>2. worker' = [worker EXCEPT ![w] = k]
    BY DEF NotOld
  <1>3. k \in WorkerType
    BY <1>1 DEF WorkerType
  <1>4. Stage(k)
    BY <1>1 DEF Stage, WorkerType, NotOld, At
  <1>5. WorkerInv(k)
    BY <1>1, <1>3, <1>4 DEF WorkerInv, WorkerType
  <1> QED
    BY <1>2, <1>5, MoveStep DEF NotOld

LEMMA CacheContainsStep == IInv /\ (\E w \in Workers : CacheContains(w)) => IInv'
  <1> SUFFICES ASSUME IInv, NEW w \in Workers, CacheContains(w) PROVE IInv'
    OBVIOUS
  <1> DEFINE pc == IF Cached(w) THEN "get" ELSE "page"
             k == [worker[w] EXCEPT !.pc = pc]
  <1>1. worker[w] \in WorkerType /\ Stage(worker[w]) /\ Justified(worker[w].verdict)
    BY Typed
  <1>2. worker' = [worker EXCEPT ![w] = k]
    BY DEF CacheContains
  <1>3. k \in WorkerType
    BY <1>1 DEF WorkerType
  <1>4. Cached(w) => worker[w].height \in fetched /\ worker[w].height \in Heights
    BY DEF Cached, IInv, CacheInv
  <1>5. Stage(k)
    BY <1>1, <1>4 DEF Stage, WorkerType, CacheContains, At
  <1>6. WorkerInv(k)
    BY <1>1, <1>3, <1>5 DEF WorkerInv, WorkerType
  <1> QED
    BY <1>2, <1>6, MoveStep DEF CacheContains

LEMMA CacheGetStep == IInv /\ (\E w \in Workers : CacheGet(w)) => IInv'
  <1> SUFFICES ASSUME IInv, NEW w \in Workers, CacheGet(w) PROVE IInv'
    OBVIOUS
  <1> DEFINE h == worker[w].height
             k == [worker[w] EXCEPT !.set = validatorCache[h], !.pc = "judge"]
  <1>1. worker[w] \in WorkerType /\ Stage(worker[w]) /\ Justified(worker[w].verdict)
    BY Typed
  <1>2. worker' = [worker EXCEPT ![w] = k]
    BY DEF CacheGet
  <1>3. h \in Heights /\ validatorCache[h] = Fetchable(h) /\ Fetchable(h) \in Seq(Validators)
    BY Pages DEF CacheGet, Cached, IInv, CacheInv
  <1>4. k \in WorkerType
    BY <1>1, <1>3 DEF WorkerType
  <1>5. Stage(k)
    BY <1>1, <1>3 DEF Stage, WorkerType
  <1>6. WorkerInv(k)
    BY <1>1, <1>4, <1>5 DEF WorkerInv, WorkerType
  <1> QED
    BY <1>2, <1>6, MoveStep DEF CacheGet

(* A worker misses the set that it has found only if something was evicted. *)
LEMMA CacheGetPanicsStep == IInv /\ (\E w \in Workers : CacheGetPanics(w)) => IInv'
  <1> SUFFICES ASSUME IInv, NEW w \in Workers, CacheGetPanics(w) PROVE IInv'
    OBVIOUS
  <1>1. worker[w].height \in fetched /\ worker[w].height \notin DOMAIN validatorCache
    BY Typed DEF CacheGetPanics, Cached, At, Stage
  <1>2. IsFiniteSet(fetched)
    BY FiniteHeights DEF IInv, CacheInv
  <1>3. Cardinality(fetched) \in Nat
    BY <1>2, FS_CardinalityType
  <1>4. Cardinality(fetched) > CacheSize
    BY <1>1, <1>3 DEF IInv, CacheInv
  <1> QED
    BY <1>4, PanicStep DEF CacheGetPanics

LEMMA PageArrivesStep == IInv /\ (\E w \in Workers : PageArrives(w)) => IInv'
  <1> SUFFICES ASSUME IInv, NEW w \in Workers, PageArrives(w) PROVE IInv'
    OBVIOUS
  <1> DEFINE h == worker[w].height
             p == worker[w].page
             s == worker[w].set \o NodePages[h][p]
             k == [worker[w] EXCEPT !.set = s, !.page = p + 1,
                                    !.pc = IF p = 2 THEN "add" ELSE "page"]
  <1>1. worker[w] \in WorkerType /\ Stage(worker[w]) /\ Justified(worker[w].verdict)
    BY Typed
  <1>2. worker' = [worker EXCEPT ![w] = k]
    BY DEF PageArrives
  <1>3. worker[w].pc = "page" /\ h <= node.height + 1
    BY DEF PageArrives, At, HasPage
  <1>4. h \in Heights
    BY DEF PageArrives, HasPage
  <1>5. /\ NodePages[h][1] \in Seq(Validators) /\ NodePages[h][2] \in Seq(Validators)
        /\ Fetchable(h) = NodePages[h][1] \o NodePages[h][2]
        /\ << >> \o NodePages[h][1] = NodePages[h][1]
    BY <1>4, Pages
  <1>6. \/ p = 1 /\ worker[w].set = << >> /\ s = NodePages[h][1]
        \/ p = 2 /\ worker[w].set = NodePages[h][1] /\ s = Fetchable(h)
    BY <1>1, <1>3, <1>5 DEF Stage
  <1> HIDE DEF s
  <1>7. s \in Seq(Validators) /\ p + 1 \in 1..3
    <2>1. Fetchable(h) \in Seq(Validators) /\ NodePages[h][1] \in Seq(Validators)
      BY <1>4, Pages
    <2>2. s \in Seq(Validators) /\ p \in {1, 2}
      BY <1>6, <2>1
    <2> QED
      BY <2>2
  <1>8. k \in WorkerType
    BY <1>1, <1>7 DEF WorkerType
  <1>9. Stage(k)
    <2>1. CASE p = 1
      BY <1>1, <1>3, <1>4, <1>6, <2>1 DEF Stage, WorkerType
    <2>2. CASE p = 2
      BY <1>1, <1>3, <1>4, <1>6, <2>2 DEF Stage, WorkerType
    <2> QED
      BY <1>6, <2>1, <2>2
  <1>10. WorkerInv(k)
    BY <1>1, <1>8, <1>9 DEF WorkerInv, WorkerType
  <1> QED
    BY <1>2, <1>10, MoveStep DEF PageArrives

LEMMA PageFailsStep ==
    IInv /\ (\E w \in Workers : PageFails(w) \/ PageGarbled(w)) => IInv'
  <1> SUFFICES ASSUME IInv, NEW w \in Workers, PageFails(w) \/ PageGarbled(w) PROVE IInv'
    OBVIOUS
  <1>1. CASE PageFails(w)
    BY <1>1, DenyStep DEF PageFails
  <1>2. CASE PageGarbled(w)
    <2>1. Panic(w, "garbled")
      BY <1>2 DEF PageGarbled
    <2> QED
      BY <2>1, PanicStep
  <1> QED
    BY <1>1, <1>2

(* The cache after an Add that kept some of the other heights: it does not *)
(* hold more than it may, and keeps all while all that was ever fetched    *)
(* has room.                                                               *)
LEMMA Eviction ==
    ASSUME CacheInv, NEW h \in Heights, NEW kept \in SUBSET (DOMAIN validatorCache \ {h}),
           Cardinality(kept) =
             IF Cardinality(DOMAIN validatorCache \ {h}) < CacheSize
             THEN Cardinality(DOMAIN validatorCache \ {h}) ELSE CacheSize - 1
    PROVE  /\ Cardinality(kept \union {h}) <= CacheSize
           /\ Cardinality(fetched \union {h}) <= CacheSize
                => kept \union {h} = fetched \union {h}
  <1> DEFINE others == DOMAIN validatorCache \ {h}
  <1>1. IsFiniteSet(fetched) /\ IsFiniteSet(others) /\ IsFiniteSet(kept)
    BY FiniteHeights DEF CacheInv
  <1>2. /\ Cardinality(fetched) \in Nat /\ Cardinality(others) \in Nat
        /\ Cardinality(kept) \in Nat
    BY <1>1, FS_CardinalityType
  <1>3. Cardinality(kept \union {h}) = Cardinality(kept) + 1
    BY <1>1, FS_AddElement
  <1>4. Cardinality(kept) <= CacheSize - 1
    BY <1>2
  <1>5. ASSUME Cardinality(fetched \union {h}) <= CacheSize
        PROVE  kept \union {h} = fetched \union {h}
    <2>1. Cardinality(fetched \union {h})
            = IF h \in fetched THEN Cardinality(fetched) ELSE Cardinality(fetched) + 1
      BY <1>1, FS_AddElement
    <2> HIDE DEF others
    <2>2. Cardinality(fetched) <= CacheSize
      BY <1>2, <1>5, <2>1
    <2>8. DOMAIN validatorCache = fetched
      BY <2>2 DEF CacheInv
    <2> USE DEF others
    <2>3. others \union {h} = fetched \union {h}
      BY <2>8
    <2>4. Cardinality(others \union {h}) = Cardinality(others) + 1
      BY <1>1, FS_AddElement
    <2> HIDE DEF others
    <2>5. Cardinality(others) < CacheSize
      BY <1>2, <1>5, <2>3, <2>4
    <2> USE DEF others
    <2>6. Cardinality(kept) = Cardinality(others)
      BY <2>5
    <2>7. kept = others
      BY <1>1, <2>6, FS_Subset
    <2> QED
      BY <2>3, <2>7
  <1> QED
    BY <1>2, <1>3, <1>4, <1>5

LEMMA CacheAddStep == IInv /\ (\E w \in Workers : CacheAdd(w)) => IInv'
  <1> SUFFICES ASSUME IInv, NEW w \in Workers, CacheAdd(w) PROVE IInv'
    OBVIOUS
  <1> DEFINE h == worker[w].height
             others == DOMAIN validatorCache \ {h}
             k == [worker[w] EXCEPT !.pc = "max"]
  <1>1. /\ worker[w] \in WorkerType /\ Stage(worker[w]) /\ Justified(worker[w].verdict)
        /\ worker[w].pc = "add" /\ node \in Nodes /\ node.height \in Nat
    BY Typed DEF CacheAdd, At
  <1>2. h \in Heights /\ worker[w].set = Fetchable(h)
    BY <1>1 DEF Stage
  <1>3. PICK kept \in SUBSET others :
          /\ Cardinality(kept) = IF Cardinality(others) < CacheSize
                                 THEN Cardinality(others) ELSE CacheSize - 1
          /\ validatorCache' = [g \in kept \union {h} |->
               IF g = h THEN worker[w].set ELSE validatorCache[g]]
    BY DEF CacheAdd
  <1>4. /\ fetched' = fetched \union {h} /\ worker' = [worker EXCEPT ![w] = k]
        /\ UNCHANGED <<node, named, maxValidHeight, checks, panic>> /\ panic = "none"
    BY DEF CacheAdd, nodeVars, At
  <1>5. CacheInv
    BY DEF IInv
  <1>6. /\ Cardinality(kept \union {h}) <= CacheSize
        /\ Cardinality(fetched \union {h}) <= CacheSize
             => kept \union {h} = fetched \union {h}
    BY <1>2, <1>3, <1>5, Eviction
  <1>7. DOMAIN validatorCache' = kept \union {h}
    BY <1>3
  <1>8. CacheInv'
    <2>1. \A g \in DOMAIN validatorCache' : validatorCache'[g] = Fetchable(g)
      BY <1>2, <1>3, <1>5 DEF CacheInv
    <2>2. kept \subseteq fetched /\ fetched \subseteq Heights
      BY <1>3, <1>5 DEF CacheInv
    <2> QED
      BY <1>2, <1>4, <1>6, <1>7, <2>1, <2>2 DEF CacheInv
  <1>9. NodeInv' /\ MaxInv' /\ PanicInv'
    BY <1>4 DEF IInv, NodeInv, MaxInv, PanicInv
  <1>10. k \in WorkerType
    BY <1>1 DEF WorkerType
  <1>11. Stage(k)
    BY <1>1 DEF Stage, WorkerType
  <1>12. ASSUME NEW v \in Workers PROVE WorkerInv(worker[v])'
    <2>1. WorkerInv(IF v = w THEN k ELSE worker[v])
      BY <1>1, <1>10, <1>11 DEF IInv, WorkerInv, WorkerType
    <2>2. worker'[v] = IF v = w THEN k ELSE worker[v]
      BY <1>4 DEF IInv
    <2>3. WorkerInv(worker'[v])
      BY <2>1, <2>2
    <2>4. node' \in Nodes /\ node.height <= node'.height
          /\ named \subseteq named' /\ fetched \subseteq fetched'
      BY <1>1, <1>4
    <2>5. ASSUME NEW r, WorkerInv(r) PROVE WorkerInv(r)'
      BY <2>4, <2>5, OthersStay DEF WorkerInv
    <2>6. ASSUME NEW r, WorkerInv(r), worker'[v] = r PROVE WorkerInv(worker[v])'
      BY <2>5, <2>6
    <2> QED
      BY <2>3, <2>6
  <1>13. worker' \in [Workers -> WorkerType]
    BY <1>4, <1>10 DEF IInv
  <1> QED
    BY <1>4, <1>8, <1>9, <1>12, <1>13 DEF IInv

LEMMA SetMaxValidHeightStep == IInv /\ (\E w \in Workers : SetMaxValidHeight(w)) => IInv'
  <1> SUFFICES ASSUME IInv, NEW w \in Workers, SetMaxValidHeight(w) PROVE IInv'
    OBVIOUS
  <1> DEFINE k == [worker[w] EXCEPT !.pc = "judge"]
  <1>1. /\ worker[w] \in WorkerType /\ Stage(worker[w]) /\ Justified(worker[w].verdict)
        /\ worker[w].pc = "max"
    BY Typed DEF SetMaxValidHeight, At
  <1>2. worker' = [worker EXCEPT ![w] = k] /\ maxValidHeight' = worker[w].height
        /\ UNCHANGED <<nodeVars, validatorCache, fetched, checks, panic>>
    BY DEF SetMaxValidHeight
  <1>3. k \in WorkerType
    BY <1>1 DEF WorkerType
  <1>4. Stage(k)
    BY <1>1 DEF Stage, WorkerType
  <1>5. WorkerInv(k)'
    BY <1>1, <1>2, <1>3, <1>4 DEF WorkerInv, Stage, Justified, WorkerType, nodeVars
  <1>6. MaxInv'
    BY <1>1, <1>2 DEF MaxInv, Stage, nodeVars
  <1> QED
    BY <1>2, <1>5, <1>6, OneWorker DEF IInv

(* A vote that is by the validator it names is justified.                  *)
LEMMA JudgeVoteStep == IInv /\ (\E w \in Workers : JudgeVote(w)) => IInv'
  <1> SUFFICES ASSUME IInv, NEW w \in Workers, JudgeVote(w) PROVE IInv'
    OBVIOUS
  <1> DEFINE h == worker[w].height
             set == worker[w].set
  <1>1. /\ worker[w] \in WorkerType /\ Stage(worker[w]) /\ worker[w].pc = "judge"
    BY Typed DEF JudgeVote, At
  <1>2. h \in Heights /\ set = Fetchable(h) /\ Fetchable(h) \in Seq(Validators)
    BY <1>1, Pages DEF Stage
  <1>3. PICK c \in Claims(set) :
          Answer(w, IF IsBy(c, set) THEN Allow("vote", h, c.index, c.signer) ELSE Denial)
    BY DEF JudgeVote
  <1>4. CASE IsBy(c, set)
    <2> DEFINE v == [answer |-> "vote", height |-> h, index |-> c.index, signer |-> c.signer]
    <2>1. /\ c.index \in 1..(Len(set) + 1) /\ c.signer \in Validators
          /\ Len(set) \in Nat
      BY <1>2 DEF Claims
    <2>2. c.index \in Nat \ {0} /\ c.index <= Len(Fetchable(h))
          /\ c.signer = Fetchable(h)[c.index]
      BY <1>2, <1>4, <2>1 DEF IsBy
    <2>3. c.index \in DOMAIN ValidatorsAt(h) /\ c.signer = ValidatorsAt(h)[c.index]
      BY <1>2, <2>2, IndexInPages
    <2>4. v \in VerdictType /\ Justified(v)
      BY <1>2, <2>1, <2>2, <2>3, Int64s DEF VerdictType, Justified
    <2>5. Answer(w, v)
      BY <1>3, <1>4 DEF Allow
    <2> QED
      BY <2>4, <2>5, AnswerStep DEF JudgeVote
  <1>5. CASE ~IsBy(c, set)
    BY <1>3, <1>5, DenyStep DEF JudgeVote, Deny
  <1> QED
    BY <1>4, <1>5

LEMMA JudgeVotePanicsStep == IInv /\ (\E w \in Workers : JudgeVotePanics(w)) => IInv'
  <1> SUFFICES ASSUME IInv, NEW w \in Workers, JudgeVotePanics(w) PROVE IInv'
    OBVIOUS
  <1>1. Panic(w, "negative index")
    BY DEF JudgeVotePanics
  <1> QED
    BY <1>1, PanicStep

(* The proposer is one that the node has named for this height.            *)
LEMMA AskProposerStep == IInv /\ (\E w \in Workers : AskProposer(w)) => IInv'
  <1> SUFFICES ASSUME IInv, NEW w \in Workers, AskProposer(w) PROVE IInv'
    OBVIOUS
  <1> DEFINE k == [worker[w] EXCEPT !.proposer = node.proposer, !.pc = "signature"]
  <1>1. /\ worker[w] \in WorkerType /\ Stage(worker[w]) /\ Justified(worker[w].verdict)
        /\ worker[w].pc = "judge"
    BY Typed DEF AskProposer, At
  <1>2. worker' = [worker EXCEPT ![w] = k]
    BY DEF AskProposer
  <1>3. node.height = worker[w].height /\ node.proposer \in Validators
    BY Typed DEF AskProposer, Nodes
  <1>4. [height |-> worker[w].height, proposer |-> node.proposer] \in named
    BY <1>3, Typed DEF IInv, NodeInv, Nodes
  <1>5. k \in WorkerType
    BY <1>1, <1>3 DEF WorkerType
  <1>6. Stage(k)
    BY <1>1, <1>4 DEF Stage, WorkerType
  <1>7. WorkerInv(k)
    BY <1>1, <1>5, <1>6 DEF WorkerInv, WorkerType
  <1> QED
    BY <1>2, <1>7, MoveStep DEF AskProposer

LEMMA AskProposerFailsStep == IInv /\ (\E w \in Workers : AskProposerFails(w)) => IInv'
  BY DenyStep DEF AskProposerFails

(* A proposer that is not in the two pages is in the third.                *)
LEMMA AskProposerPanicsStep == IInv /\ (\E w \in Workers : AskProposerPanics(w)) => IInv'
  <1> SUFFICES ASSUME IInv, NEW w \in Workers, AskProposerPanics(w) PROVE IInv'
    OBVIOUS
  <1>1. worker[w].pc = "judge" /\ node.height = worker[w].height /\ Panic(w, "proposer")
    BY DEF AskProposerPanics, At
  <1>2. worker[w].set = Fetchable(node.height) /\ node.height \in Heights
    BY <1>1, Typed DEF Stage
  <1>3. PICK i \in DOMAIN ValidatorsAt(node.height) : i > Len(worker[w].set)
    BY DEF AskProposerPanics
  <1>4. NodePages[node.height][3] # << >>
    BY <1>2, <1>3, IndexBeyond
  <1> QED
    BY <1>1, <1>4, PanicStep

LEMMA JudgeBundleStep == IInv /\ (\E w \in Workers : JudgeBundle(w)) => IInv'
  <1> SUFFICES ASSUME IInv, NEW w \in Workers, JudgeBundle(w) PROVE IInv'
    OBVIOUS
  <1> DEFINE h == worker[w].height
  <1>1. /\ worker[w] \in WorkerType /\ Stage(worker[w]) /\ worker[w].pc = "signature"
    BY Typed DEF JudgeBundle, At
  <1>2. PICK signer \in Validators, proves \in BOOLEAN :
          Answer(w, IF signer = worker[w].proposer /\ proves
                    THEN Allow("bundle", h, 0, signer) ELSE Denial)
    BY DEF JudgeBundle
  <1>3. CASE signer = worker[w].proposer /\ proves
    <2> DEFINE v == [answer |-> "bundle", height |-> h, index |-> 0, signer |-> signer]
    <2>1. v \in VerdictType
      BY Typed DEF VerdictType
    <2>3. Justified(v)
      BY <1>1, <1>3, Typed DEF Justified, Stage
    <2>2. Answer(w, v)
      BY <1>2, <1>3 DEF Allow
    <2> QED
      BY <2>1, <2>2, <2>3, AnswerStep DEF JudgeBundle
  <1>4. CASE ~(signer = worker[w].proposer /\ proves)
    BY <1>2, <1>4, DenyStep DEF JudgeBundle, Deny
  <1> QED
    BY <1>3, <1>4

LEMMA StutterStep == IInv /\ UNCHANGED vars => IInv'
  BY DEF IInv, NodeInv, CacheInv, MaxInv, PanicInv, WorkerInv, Stage, Justified,
         vars, nodeVars, sharedVars

LEMMA NextStep == IInv /\ [Next]_vars => IInv'
  <1> SUFFICES ASSUME IInv, Next PROVE IInv'
    BY StutterStep
  <1>1. CASE NodeMoves
    BY <1>1, NodeMovesStep
  <1>2. ASSUME NEW w \in Workers, Begin(w) PROVE IInv'
    BY <1>2, BeginStep
  <1>3. ASSUME NEW w \in Workers, getValidators(w) PROVE IInv'
    BY <1>3, RefuseOldStep, NotOldStep, CacheContainsStep, CacheGetStep,
       CacheGetPanicsStep, PageArrivesStep, PageFailsStep, CacheAddStep,
       SetMaxValidHeightStep DEF getValidators
  <1>4. ASSUME NEW w \in Workers, thoroughMessageCheck(w) PROVE IInv'
    BY <1>4, JudgeVoteStep, JudgeVotePanicsStep DEF thoroughMessageCheck
  <1>5. ASSUME NEW w \in Workers, getProposerAtHeight(w) PROVE IInv'
    BY <1>5, AskProposerStep, AskProposerFailsStep, AskProposerPanicsStep
       DEF getProposerAtHeight
  <1>6. ASSUME NEW w \in Workers, JudgeBundle(w) PROVE IInv'
    BY <1>6, JudgeBundleStep
  <1> QED
    BY <1>1, <1>2, <1>3, <1>4, <1>5, <1>6 DEF Next, Check

-------------------------------------------------------------------------------
(* The theorems *)

(* The inductive invariant holds in every state.                           *)
THEOREM Invariance == Spec => []IInv
  BY InitInv, NextStep, PTL DEF Spec

(* Every variable keeps its type, and the cache its size, whatever the     *)
(* workers of handlerCOSMOS.go add to it at once.                          *)
THEOREM TypeCorrect == Spec => []TypeOK
  <1>1. IInv => TypeOK
    <2> SUFFICES ASSUME IInv PROVE TypeOK
      OBVIOUS
    <2>1. ASSUME NEW w \in Workers
          PROVE  /\ worker[w].pc \in {"idle", "age", "contains", "get", "page", "add", "max",
                                      "judge", "signature"}
                 /\ worker[w].height \in Int64 /\ worker[w].page \in 1..3
                 /\ Elements(worker[w].set) \subseteq Validators
      BY Typed, ElementsIn DEF WorkerType
    <2> QED
      BY <2>1 DEF IInv, TypeOK, NodeInv, Nodes, CacheInv, MaxInv, PanicInv
  <1> QED
    BY Invariance, <1>1, PTL

(* A set that getValidators caches, or that a worker judges by, is both    *)
(* pages of the validators of its height.                                  *)
THEOREM SetsBeingWhole == Spec => []SetsAreWhole
  <1>1. IInv => SetsAreWhole
    BY DEF IInv, CacheInv, WorkerInv, Stage, SetsAreWhole
  <1> QED
    BY Invariance, <1>1, PTL

(* Whatever the node has moved on to between two questions, what           *)
(* thoroughMessageCheck lets through is signed by whom it has to be.       *)
THEOREM LettingThroughTheSigned == Spec => []LetThroughIfSigned
  <1>1. IInv => LetThroughIfSigned
    BY DEF IInv, WorkerInv, Justified, LetThroughIfSigned
  <1> QED
    BY Invariance, <1>1, PTL

(* maxValidHeight, which the workers set without a lock, never makes them  *)
(* refuse a height that the node had not passed by the whole window, but   *)
(* for one so great that its sum with the window wraps around.             *)
THEOREM RefusingThePassed == Spec => []RefusedOnlyIfPassed
  <1>1. IInv => RefusedOnlyIfPassed
    BY DEF IInv, WorkerInv, Justified, RefusedOnlyIfPassed
  <1> QED
    BY Invariance, <1>1, PTL

(* The type assertion on a cached set fails only if the cache was too      *)
(* small for the heights in use, that on the proposer only if there are    *)
(* more validators than two pages hold.                                    *)
THEOREM PanickingBeyondLimits == Spec => []PanicsOnlyBeyondLimits
  <1>1. IInv => PanicsOnlyBeyondLimits
    BY DEF IInv, PanicInv, PanicsOnlyBeyondLimits
  <1> QED
    BY Invariance, <1>1, PTL
===============================================================================
