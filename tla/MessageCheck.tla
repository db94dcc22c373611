----------------------------- MODULE MessageCheck -----------------------------
(***************************************************************************)
(* What a worker of the spam filter finds out before it lets a vote or a   *)
(* bundle of proposal and block part through (chains/cosmos): the          *)
(* validators of the message's height, asked of the Tendermint node in two *)
(* pages or taken from validatorCache, and for a bundle the proposer that  *)
(* the node names.  The workers share the cache, whose operations are      *)
(* atomic one by one, and maxValidHeight, which no lock protects; a panic  *)
(* of one of them ends them all.                                           *)
(*                                                                         *)
(* The node is external: it moves on to other rounds and heights between   *)
(* two questions, knows the validators up to the height after its own, and *)
(* may give an error, or an answer of no known form.  A signature is the   *)
(* validator that made it.  What a message says besides its height is      *)
(* chosen where it is looked at.  proposerCache is never filled.           *)
(*                                                                         *)
(* A message may claim any height of an int64, also one below 1, which the *)
(* node refuses; the sum of such a height and the window wraps around.     *)
(* Bounds: MaxChecks messages; the node's heights, and MaxMoves moves of   *)
(* the node; MaxInt for the greatest int64.                                *)
(***************************************************************************)
EXTENDS Integers, Sequences, FiniteSets

CONSTANTS
    Workers,
    NodePages, \* per height: the three pages of its validators, some empty
    Window,    \* how far a height may lie behind maxValidHeight (10)
    CacheSize, \* heights in validatorCache (500)
    MaxInt,    \* the greatest int64
    MaxChecks, MaxMoves

Heights == DOMAIN NodePages
Fetchable(h) == NodePages[h][1] \o NodePages[h][2]
ValidatorsAt(h) == Fetchable(h) \o NodePages[h][3]
Elements(s) == {s[i] : i \in DOMAIN s}
Validators == UNION {Elements(ValidatorsAt(h)) : h \in Heights}

ASSUME PagesAssumption ==
    /\ Len(NodePages) \in Nat \ {0} /\ Heights = 1..Len(NodePages)
    /\ \A h \in Heights :
         /\ Len(NodePages[h]) = 3 /\ NodePages[h][1] # << >>
         /\ \A p \in 1..3 : NodePages[h][p] \in Seq(Validators)
ASSUME SizesAssumption == Window \in Nat /\ CacheSize \in Nat \ {0} /\ MaxChecks \in Nat /\ MaxMoves \in Nat
(* The heights of a chain stay far below the greatest integer.             *)
ASSUME MaxIntAssumption == MaxInt \in Nat /\ Len(NodePages) + Window <= MaxInt

Int64 == (-MaxInt - 1)..MaxInt
(* What int64 arithmetic makes of the sum x of an int64 and the window.    *)
Wrap(x) == IF x <= MaxInt THEN x ELSE x - 2 * (MaxInt + 1)

VARIABLES
    node,           \* the node's height, and the proposer of its round
    named,          \* the heights and proposers it has had
    validatorCache, \* the sets that are cached, by height
    maxValidHeight,
    fetched,        \* heights whose set has been cached at some time
    worker,         \* where each worker is, and what it knows
    checks,         \* messages taken
    panic           \* "none", or what a worker has ended the process with

nodeVars == <<node, named>>
sharedVars == <<validatorCache, maxValidHeight, fetched>>
vars == <<nodeVars, sharedVars, worker, checks, panic>>

(* The last verdict of a worker: a denial, of a height that is too old or  *)
(* else, or what was let through.                                          *)
NoVerdict == [answer |-> "none", height |-> 0, index |-> 0, signer |-> "none"]
Denial == [NoVerdict EXCEPT !.answer = "deny"]
Old(h) == [answer |-> "old", height |-> h, index |-> 0, signer |-> "none"]
Allow(answer, h, i, signer) ==
    [answer |-> answer, height |-> h, index |-> i, signer |-> signer]
Idle(verdict) == [pc |-> "idle", kind |-> "none", height |-> 0, set |-> << >>,
                  page |-> 1, proposer |-> "none", verdict |-> verdict]

Init ==
    /\ node \in {[height |-> 1, proposer |-> v] : v \in Elements(ValidatorsAt(1))}
    /\ named = {node}
    /\ validatorCache = [h \in {} |-> << >>] /\ maxValidHeight = 0 /\ fetched = {}
    /\ worker = [w \in Workers |-> Idle(NoVerdict)]
    /\ checks = 0
    /\ panic = "none"

-------------------------------------------------------------------------------
(* The node *)

(* Another round or the next height begins. *)
NodeMoves ==
    /\ panic = "none" /\ Cardinality(named) <= MaxMoves
    /\ \E h \in {node.height, node.height + 1} \intersect Heights :
         \E v \in Elements(ValidatorsAt(h)) :
           node' = [height |-> h, proposer |-> v] /\ node' \notin named
    /\ named' = named \union {node'}
    /\ UNCHANGED <<sharedVars, worker, checks, panic>>

HasPage(h, p) == h \in Heights /\ h <= node.height + 1 /\ NodePages[h][p] # << >>

-------------------------------------------------------------------------------
(* Worker w *)

At(w, pc) == panic = "none" /\ worker[w].pc = pc

(* The worker is done with its message. *)
Answer(w, verdict) == worker' = [worker EXCEPT ![w] = Idle(verdict)]
Deny(w) == Answer(w, Denial)

Panic(w, cause) ==
    /\ panic' = cause
    /\ UNCHANGED <<nodeVars, sharedVars, worker, checks>>

(* A vote, or a bundle whose parts are of one height and round. *)
Begin(w) ==
    /\ At(w, "idle") /\ checks < MaxChecks
    /\ checks' = checks + 1
    /\ \E k \in {"vote", "bundle"}, h \in Int64 :
         worker' = [worker EXCEPT ![w] =
           [pc |-> "age", kind |-> k, height |-> h, set |-> << >>, page |-> 1,
            proposer |-> "none", verdict |-> NoVerdict]]
    /\ UNCHANGED <<nodeVars, sharedVars, panic>>

TooOld(h) == Wrap(h + Window) < maxValidHeight

(* height+10 < h.maxValidHeight *)
RefuseOld(w) ==
    /\ At(w, "age") /\ TooOld(worker[w].height)
    /\ Answer(w, Old(worker[w].height))
    /\ UNCHANGED <<nodeVars, sharedVars, checks, panic>>

(* Mutant of NotOld: the maximum is set before the node was asked.         *)
NotOldRaising(w) ==
    /\ At(w, "age") /\ ~TooOld(worker[w].height)
    /\ maxValidHeight' = worker[w].height
    /\ worker' = [worker EXCEPT ![w].pc = "contains"]
    /\ UNCHANGED <<nodeVars, validatorCache, fetched, checks, panic>>

NotOld(w) ==
    /\ At(w, "age") /\ ~TooOld(worker[w].height)
    /\ worker' = [worker EXCEPT ![w].pc = "contains"]
    /\ UNCHANGED <<nodeVars, sharedVars, checks, panic>>

Cached(w) == worker[w].height \in DOMAIN validatorCache

(* h.validatorCache.Contains(height) *)
CacheContains(w) ==
    /\ At(w, "contains")
    /\ worker' = [worker EXCEPT ![w].pc = IF Cached(w) THEN "get" ELSE "page"]
    /\ UNCHANGED <<nodeVars, sharedVars, checks, panic>>

(* value, ok := h.validatorCache.Get(height) *)
CacheGet(w) ==
    /\ At(w, "get") /\ Cached(w)
    /\ worker' = [worker EXCEPT ![w].set = validatorCache[worker[w].height], ![w].pc = "judge"]
    /\ UNCHANGED <<nodeVars, sharedVars, checks, panic>>

(* Another worker has had it evicted: value is nil and not a set. *)
CacheGetPanics(w) ==
    /\ At(w, "get") /\ ~Cached(w)
    /\ Panic(w, "evicted")

(* A page of validators arrives. *)
PageArrives(w) ==
    LET h == worker[w].height
        p == worker[w].page
    IN
    /\ At(w, "page") /\ HasPage(h, p)
    /\ worker' = [worker EXCEPT ![w].set = @ \o NodePages[h][p], ![w].page = p + 1,
                                ![w].pc = IF p = 2 THEN "add" ELSE "page"]
    /\ UNCHANGED <<nodeVars, sharedVars, checks, panic>>

(* Mutant of PageFails: the page that has arrived is cached. *)
PageFailsButAdd(w) ==
    /\ At(w, "page") /\ worker[w].page = 2
    /\ worker' = [worker EXCEPT ![w].pc = "add"]
    /\ UNCHANGED <<nodeVars, sharedVars, checks, panic>>

(* No answer, an error, or a key of another type. *)
PageFails(w) ==
    /\ At(w, "page")
    /\ Deny(w)
    /\ UNCHANGED <<nodeVars, sharedVars, checks, panic>>

(* The answer is neither an error nor a result. *)
PageGarbled(w) ==
    /\ At(w, "page")
    /\ Panic(w, "garbled")

(* h.validatorCache.Add evicts another height if the cache is full. *)
CacheAdd(w) ==
    LET h == worker[w].height
        others == DOMAIN validatorCache \ {h}
    IN
    /\ At(w, "add")
    /\ \E kept \in SUBSET others :
         /\ Cardinality(kept) = IF Cardinality(others) < CacheSize
                                THEN Cardinality(others) ELSE CacheSize - 1
         /\ validatorCache' = [g \in kept \union {h} |->
              IF g = h THEN worker[w].set ELSE validatorCache[g]]
    /\ fetched' = fetched \union {h}
    /\ worker' = [worker EXCEPT ![w].pc = "max"]
    /\ UNCHANGED <<nodeVars, maxValidHeight, checks, panic>>

(* Mutant of SetMaxValidHeight: the set of the maximum is thought to be    *)
(* that of the next height.                                                *)
SetMaxValidHeightNext(w) ==
    /\ At(w, "max")
    /\ maxValidHeight' = worker[w].height + 1
    /\ worker' = [worker EXCEPT ![w].pc = "judge"]
    /\ UNCHANGED <<nodeVars, validatorCache, fetched, checks, panic>>

(* h.maxValidHeight = height, which may be less than it was. *)
SetMaxValidHeight(w) ==
    /\ At(w, "max")
    /\ maxValidHeight' = worker[w].height
    /\ worker' = [worker EXCEPT ![w].pc = "judge"]
    /\ UNCHANGED <<nodeVars, validatorCache, fetched, checks, panic>>

(* What a vote says: the index (from 1) and address of a validator, and a  *)
(* signer.                                                                 *)
Claims(set) == [index : 1..(Len(set) + 1), address : Validators, signer : Validators]

(* The vote is its validator's, by index, address and signature. *)
IsBy(claim, set) ==
    /\ claim.index <= Len(set)
    /\ claim.address = set[claim.index]
    /\ claim.signer = set[claim.index]

(* Mutant of JudgeVote: the index may be one too large. *)
JudgeVoteOffByOne(w) ==
    /\ At(w, "judge") /\ worker[w].kind = "vote"
    /\ \E c \in Claims(worker[w].set) :
         IF c.index = Len(worker[w].set) + 1 THEN Panic(w, "index")
         ELSE /\ Answer(w, IF IsBy(c, worker[w].set)
                          THEN Allow("vote", worker[w].height, c.index, c.signer)
                          ELSE Denial)
              /\ UNCHANGED <<nodeVars, sharedVars, checks, panic>>

JudgeVote(w) ==
    /\ At(w, "judge") /\ worker[w].kind = "vote"
    /\ \E c \in Claims(worker[w].set) :
         Answer(w, IF IsBy(c, worker[w].set)
                   THEN Allow("vote", worker[w].height, c.index, c.signer) ELSE Denial)
    /\ UNCHANGED <<nodeVars, sharedVars, checks, panic>>

(* The index is negative, which nothing has refused. *)
JudgeVotePanics(w) ==
    /\ At(w, "judge") /\ worker[w].kind = "vote"
    /\ Panic(w, "negative index")

(* Mutant of AskProposer: the height of the answer is not looked at. *)
AskProposerAnyHeight(w) ==
    /\ At(w, "judge") /\ worker[w].kind = "bundle"
    /\ node.proposer \in Elements(worker[w].set)
    /\ worker' = [worker EXCEPT ![w].proposer = node.proposer, ![w].pc = "signature"]
    /\ UNCHANGED <<nodeVars, sharedVars, checks, panic>>

(* The node is at the height of the bundle and names the proposer, one of  *)
(* the validators that were fetched.                                       *)
AskProposer(w) ==
    /\ At(w, "judge") /\ worker[w].kind = "bundle"
    /\ node.height = worker[w].height
    /\ node.proposer \in Elements(worker[w].set)
    /\ worker' = [worker EXCEPT ![w].proposer = node.proposer, ![w].pc = "signature"]
    /\ UNCHANGED <<nodeVars, sharedVars, checks, panic>>

(* No answer, or the node is at another height. *)
AskProposerFails(w) ==
    /\ At(w, "judge") /\ worker[w].kind = "bundle"
    /\ Deny(w)
    /\ UNCHANGED <<nodeVars, sharedVars, checks, panic>>

(* The proposer's index is beyond the two pages. *)
AskProposerPanics(w) ==
    /\ At(w, "judge") /\ worker[w].kind = "bundle"
    /\ node.height = worker[w].height
    /\ \E i \in DOMAIN ValidatorsAt(node.height) :
         i > Len(worker[w].set) /\ ValidatorsAt(node.height)[i] = node.proposer
    /\ Panic(w, "proposer")

(* The signature of the proposal, and the proof that the part is of it. *)
JudgeBundle(w) ==
    /\ At(w, "signature")
    /\ \E signer \in Validators, proves \in BOOLEAN :
         Answer(w, IF signer = worker[w].proposer /\ proves
                   THEN Allow("bundle", worker[w].height, 0, signer) ELSE Denial)
    /\ UNCHANGED <<nodeVars, sharedVars, checks, panic>>

getValidators(w) ==
    \/ RefuseOld(w) \/ NotOld(w)
    \/ CacheContains(w) \/ CacheGet(w) \/ CacheGetPanics(w)
    \/ PageArrives(w) \/ PageFails(w) \/ PageGarbled(w)
    \/ CacheAdd(w) \/ SetMaxValidHeight(w)
thoroughMessageCheck(w) == JudgeVote(w) \/ JudgeVotePanics(w)
getProposerAtHeight(w) == AskProposer(w) \/ AskProposerFails(w) \/ AskProposerPanics(w)

Check(w) == getValidators(w) \/ thoroughMessageCheck(w) \/ getProposerAtHeight(w) \/ JudgeBundle(w)

Next == NodeMoves \/ \E w \in Workers : Begin(w) \/ Check(w)

Spec == Init /\ [][Next]_vars

-------------------------------------------------------------------------------

(* Every variable has a value of its type. *)
TypeOK ==
    /\ node \in [height : Heights, proposer : Validators] /\ named \subseteq
         [height : Heights, proposer : Validators]
    /\ DOMAIN validatorCache \subseteq fetched /\ fetched \subseteq Heights
    /\ Cardinality(DOMAIN validatorCache) <= CacheSize
    /\ maxValidHeight \in Heights \union {0}
    /\ \A w \in Workers :
         /\ worker[w].pc \in {"idle", "age", "contains", "get", "page", "add", "max",
                              "judge", "signature"}
         /\ worker[w].height \in Int64 /\ worker[w].page \in 1..3
         /\ Elements(worker[w].set) \subseteq Validators
    /\ checks \in 0..MaxChecks
    /\ panic \in {"none", "evicted", "garbled", "proposer", "negative index", "index"}

(* What is cached, or judged by, is both pages of the validators of that   *)
(* very height, whichever worker fetched them and whatever failed between. *)
SetsAreWhole ==
    /\ \A h \in DOMAIN validatorCache : validatorCache[h] = Fetchable(h)
    /\ \A w \in Workers : worker[w].pc \in {"judge", "signature"} =>
         worker[w].set = Fetchable(worker[w].height)

(* A message is let through only if it is signed by whom it has to be: a   *)
(* vote by the validator at its index in its height, a proposal by one who *)
(* was the proposer of its height, however far the node has moved on.      *)
LetThroughIfSigned ==
    \A w \in Workers :
        LET v == worker[w].verdict IN
        /\ v.answer = "vote" => /\ v.index \in DOMAIN ValidatorsAt(v.height)
                                /\ v.signer = ValidatorsAt(v.height)[v.index]
        /\ v.answer = "bundle" => [height |-> v.height, proposer |-> v.signer] \in named

(* A height is refused as too old only if the node had got that far beyond *)
(* it, or if its sum with the window is no int64: no message that claims a *)
(* height of the future can make the workers refuse those of the present.  *)
RefusedOnlyIfPassed ==
    \A w \in Workers :
        LET v == worker[w].verdict IN
        v.answer = "old" =>
            v.height + Window <= node.height \/ v.height + Window > MaxInt

(* A worker misses a cached set only if more heights were fetched than the *)
(* cache has room for, and a proposer only if it is beyond the two pages;  *)
(* no index that is too large ends the process.                            *)
PanicsOnlyBeyondLimits ==
    /\ panic = "evicted" => Cardinality(fetched) > CacheSize
    /\ panic = "proposer" => NodePages[node.height][3] # << >>
    /\ panic # "index"
===============================================================================
