-------------------------- MODULE NarrativeProofs --------------------------
(***************************************************************************)
(* Proofs about Narrative, and about Dashboard, which polls it: for any    *)
(* number of requests, any verdicts and any signature.                     *)
(***************************************************************************)
EXTENDS Dashboard, FiniteSetTheorems, TLAPS

(* What a request has in hand, by where it is. *)
InHand(q) ==
    /\ q.at \in {"lookup", "model", "clear", "store", "answered"} => q.verdict \in Verdict
    /\ q.at = "answered" => q.text \in Text

(* A sentence is kept under the signature of its verdict. *)
Filed == \A s \in Cached : SigOf[cache[s]] = s

NInv ==
    /\ NTypeOK
    /\ \A r \in Request : InHand(req[r])
    /\ Filed
    /\ AnswerMatchesVerdict

-----------------------------------------------------------------------------
(* A step of one request leaves the others where they are. *)
LEMMA BecomesFacts ==
    ASSUME NTypeOK, NEW r \in Request, NEW at, NEW v, NEW t, Becomes(r, at, v, t)
    PROVE  /\ req'[r] = [at |-> at, verdict |-> v, text |-> t]
           /\ \A q \in Request \ {r} : req'[q] = req[q]
           /\ req' \in [Request -> Requests \cup {[at |-> at, verdict |-> v, text |-> t]}]
BY DEF Becomes, NTypeOK

(* A request that moves with what belongs in its hand keeps the invariant,  *)
(* if the cache does.                                                       *)
LEMMA MovesOn ==
    ASSUME NInv, NEW r \in Request, NEW at, NEW v, NEW t, Becomes(r, at, v, t),
           [at |-> at, verdict |-> v, text |-> t] \in Requests,
           InHand([at |-> at, verdict |-> v, text |-> t]),
           at = "answered" => /\ SigOf[t.of] = SigOf[v]
                              /\ t.source = "fallback" => t.of = v,
           engine' \in Verdict \cup {Down}, model' \in {"up", "down"},
           cache' \in [Sig -> Verdict \cup {None}], Filed'
    PROVE  NInv'
<1>. DEFINE q == [at |-> at, verdict |-> v, text |-> t]
<1>1. /\ req'[r] = q
      /\ \A p \in Request \ {r} : req'[p] = req[p]
      /\ req' \in [Request -> Requests]
  BY BecomesFacts DEF NInv
<1>2. NTypeOK'
  BY <1>1 DEF NTypeOK
<1>3. ASSUME NEW p \in Request PROVE InHand(req[p])'
  BY <1>1 DEF NInv, InHand
<1>4. AnswerMatchesVerdict'
  <2>. SUFFICES ASSUME NEW p \in Request, req'[p].at = "answered"
                PROVE  /\ SigOf[req'[p].text.of] = SigOf[req'[p].verdict]
                       /\ req'[p].text.source = "fallback" => req'[p].text.of = req'[p].verdict
    BY DEF AnswerMatchesVerdict, SigAt
  <2>1. CASE p = r
    BY <1>1, <2>1
  <2>2. CASE p # r
    BY <1>1, <2>2 DEF NInv, AnswerMatchesVerdict, SigAt
  <2>. QED
    BY <2>1, <2>2
<1>. QED
  BY <1>2, <1>3, <1>4 DEF NInv

LEMMA NextNInv == NInv /\ [NNext]_nvars => NInv'
<1>. SUFFICES ASSUME NInv, [NNext]_nvars PROVE NInv'
  OBVIOUS
<1>. USE VerdictAssumption
<1>1. UNCHANGED cache => Filed' /\ cache' \in [Sig -> Verdict \cup {None}]
  BY DEF NInv, NTypeOK, Filed, Cached
<1>2. CASE UNCHANGED nvars
  BY <1>2 DEF nvars, NInv, NTypeOK, InHand, Filed, Cached, AnswerMatchesVerdict, SigAt
<1>3. CASE EngineChanges
  BY <1>3 DEF EngineChanges, NInv, NTypeOK, InHand, Filed, Cached, AnswerMatchesVerdict, SigAt
<1>4. CASE ModelChanges
  BY <1>4 DEF ModelChanges, NInv, NTypeOK, InHand, Filed, Cached, AnswerMatchesVerdict, SigAt
<1>5. ASSUME NEW r \in Request, Ask(r) \/ Step(r) \/ Done(r) PROVE NInv'
  <2>. DEFINE v == req[r].verdict
  <2>0. /\ req[r] \in Requests /\ InHand(req[r])
        /\ engine \in Verdict \cup {Down} /\ model \in {"up", "down"}
    BY DEF NInv, NTypeOK
  <2>1. CASE Ask(r)
    BY <1>1, <2>0, <2>1, MovesOn DEF Ask, Requests, InHand
  <2>2. CASE Fetch(r)
    <3>1. CASE engine = Down
      BY <1>1, <2>0, <2>2, <3>1, MovesOn DEF Fetch, Requests, InHand
    <3>2. CASE engine # Down
      BY <1>1, <2>0, <2>2, <3>2, MovesOn DEF Fetch, Requests, InHand
    <3>. QED
      BY <3>1, <3>2
  <2>3. CASE Hit(r)
    <3>. DEFINE t == [of |-> cache[SigAt(r)], source |-> "llm"]
    <3>1. v \in Verdict /\ cache[SigAt(r)] \in Verdict /\ SigOf[cache[SigAt(r)]] = SigAt(r)
      BY <2>0, <2>3 DEF Hit, InHand, Cached, NInv, NTypeOK, Filed
    <3>2. t \in Text /\ t.of = cache[SigAt(r)] /\ t.source = "llm"
      BY <3>1 DEF Text
    <3>3. Becomes(r, "answered", v, t) /\ UNCHANGED <<engine, model, cache>>
      BY <2>3 DEF Hit
    <3>4. SigOf[t.of] = SigOf[v]
      BY <3>1, <3>2 DEF SigAt
    <3>. QED
      BY <1>1, <2>0, <3>1, <3>2, <3>3, <3>4, MovesOn DEF Requests, InHand
  <2>4. CASE Miss(r)
    BY <1>1, <2>0, <2>4, MovesOn DEF Miss, Requests, InHand
  <2>5. CASE ModelAnswers(r)
    BY <1>1, <2>0, <2>5, MovesOn DEF ModelAnswers, Requests, InHand
  <2>6. CASE ModelFails(r)
    <3>. DEFINE t == [of |-> v, source |-> "fallback"]
    <3>1. v \in Verdict /\ t \in Text
      BY <2>0, <2>6 DEF ModelFails, InHand, Text
    <3>2. Becomes(r, "answered", v, t) /\ UNCHANGED <<engine, model, cache>>
      BY <2>6 DEF ModelFails
    <3>. QED
      BY <1>1, <2>0, <3>1, <3>2, MovesOn DEF Requests, InHand
  <2>7. CASE Clear(r)
    <3>1. cache' \in [Sig -> Verdict \cup {None}] /\ Filed'
      BY <2>7 DEF Clear, Filed, Cached
    <3>. QED
      BY <2>0, <2>7, <3>1, MovesOn DEF Clear, Requests, InHand
  <2>8. CASE Store(r)
    <3>. DEFINE t == [of |-> v, source |-> "llm"]
    <3>1. v \in Verdict /\ t \in Text
      BY <2>0, <2>8 DEF Store, InHand, Text
    <3>2. Becomes(r, "answered", v, t) /\ UNCHANGED <<engine, model>>
      BY <2>8 DEF Store
    <3>3. cache' \in [Sig -> Verdict \cup {None}] /\ Filed'
      BY <2>8, <3>1 DEF Store, SigAt, Filed, Cached, NInv, NTypeOK
    <3>. QED
      BY <2>0, <3>1, <3>2, <3>3, MovesOn DEF Requests, InHand
  <2>9. CASE Done(r)
    <3>1. Becomes(r, "idle", None, None) /\ UNCHANGED <<engine, model, cache>>
      BY <2>9 DEF Done, Becomes, Idle
    <3>. QED
      BY <1>1, <2>0, <3>1, MovesOn DEF Requests, InHand
  <2>. QED
    BY <1>5, <2>1, <2>2, <2>3, <2>4, <2>5, <2>6, <2>7, <2>8, <2>9 DEF Step
<1>. QED
  BY <1>2, <1>3, <1>4, <1>5 DEF NNext

LEMMA InitNInv == NInit => NInv
BY VerdictAssumption
   DEF NInit, NInv, NTypeOK, Requests, Idle, InHand, Filed, Cached, AnswerMatchesVerdict

(* A sentence that is answered is about the verdict its request fetched:    *)
(* get_narrative never answers one poll with another's cause, however the   *)
(* lookups, clears and stores of the threads overlap.                       *)
THEOREM AnswerMatchesVerdictHolds == NSpec => []AnswerMatchesVerdict
<1>1. NInv => AnswerMatchesVerdict
  BY DEF NInv
<1>. QED
  BY <1>1, InitNInv, NextNInv, PTL DEF NSpec

(* Engine, model, cache and requests keep their types. *)
THEOREM NarrativeTypeCorrect == NSpec => []NTypeOK
<1>1. NInv => NTypeOK
  BY DEF NInv
<1>. QED
  BY <1>1, InitNInv, NextNInv, PTL DEF NSpec

-----------------------------------------------------------------------------
(* The size of the cache *)

Storing == {r \in Request : req[r].at = "store"}
Small == IsFiniteSet(Cached) /\ Cardinality(Cached) + Cardinality(Storing) <= Cardinality(Request)

(* Requests are finitely many, and so are those about to store.             *)
LEMMA StoringFinite ==
    /\ IsFiniteSet(Storing) /\ IsFiniteSet(Request)
    /\ Cardinality(Storing) \in Nat /\ Cardinality(Storing) <= Cardinality(Request)
BY VerdictAssumption, FS_Subset, FS_CardinalityType DEF Storing

(* A step that keeps the cache and brings no request to a store.            *)
LEMMA NoNewStore ==
    ASSUME Small, UNCHANGED cache, Storing' \subseteq Storing
    PROVE  Small'
<1>1. Cached' = Cached
  BY DEF Cached
<1>2. /\ Cardinality(Storing') <= Cardinality(Storing)
      /\ Cardinality(Storing') \in Nat /\ Cardinality(Storing) \in Nat
  BY StoringFinite, FS_Subset, FS_CardinalityType
<1>3. Cardinality(Cached) \in Nat /\ Cardinality(Request) \in Nat
  BY StoringFinite, FS_CardinalityType DEF Small
<1>. QED
  BY <1>1, <1>2, <1>3 DEF Small

LEMMA ClearSmall == ASSUME NInv, Small, NEW r \in Request, Clear(r) PROVE Small'
<1>1. Cached' = {}
  BY DEF Clear, Cached
<1>2. IsFiniteSet(Cached') /\ Cardinality(Cached') = 0
  BY <1>1, FS_EmptySet
<1>3. Storing' \subseteq Request
  BY DEF Storing
<1>4. Cardinality(Storing') \in Nat /\ Cardinality(Storing') <= Cardinality(Request)
  BY <1>3, StoringFinite, FS_Subset, FS_CardinalityType
<1>. QED
  BY <1>2, <1>4 DEF Small

LEMMA StoreSmall == ASSUME NInv, Small, NEW r \in Request, Store(r) PROVE Small'
<1>1. Storing' = Storing \ {r} /\ r \in Storing
  <2>1. req'[r].at = "answered" /\ \A q \in Request \ {r} : req'[q] = req[q]
    BY DEF Store, NInv, NTypeOK, Becomes
  <2>. QED
    BY <2>1 DEF Store, Storing
<1>2. Cached' \subseteq Cached \cup {SigAt(r)}
  BY DEF Store, Cached, NInv, NTypeOK
<1>3. Cardinality(Storing') = Cardinality(Storing) - 1
  BY <1>1, StoringFinite, FS_RemoveElement
<1>4. /\ IsFiniteSet(Cached \cup {SigAt(r)})
      /\ Cardinality(Cached \cup {SigAt(r)}) <= Cardinality(Cached) + 1
      /\ Cardinality(Cached) \in Nat
  <2>1. IsFiniteSet(Cached) /\ Cardinality(Cached) \in Nat
    BY FS_CardinalityType DEF Small
  <2>2. /\ IsFiniteSet(Cached \cup {SigAt(r)})
        /\ Cardinality(Cached \cup {SigAt(r)})
              = IF SigAt(r) \in Cached THEN Cardinality(Cached) ELSE Cardinality(Cached) + 1
    BY <2>1, FS_AddElement
  <2>. QED
    BY <2>1, <2>2
<1>5. /\ IsFiniteSet(Cached') /\ Cardinality(Cached') \in Nat
      /\ Cardinality(Cached') <= Cardinality(Cached \cup {SigAt(r)})
      /\ Cardinality(Cached \cup {SigAt(r)}) \in Nat
  BY <1>2, <1>4, FS_Subset, FS_CardinalityType
<1>6. Cardinality(Storing) \in Nat /\ Cardinality(Request) \in Nat
  BY StoringFinite, FS_CardinalityType
<1>. QED
  BY <1>3, <1>4, <1>5, <1>6 DEF Small

LEMMA NextSmall == NInv /\ Small /\ [NNext]_nvars => Small'
<1>. SUFFICES ASSUME NInv, Small, [NNext]_nvars PROVE Small'
  OBVIOUS
<1>1. CASE UNCHANGED nvars \/ EngineChanges \/ ModelChanges
  BY <1>1, NoNewStore DEF nvars, EngineChanges, ModelChanges, Storing
<1>2. ASSUME NEW r \in Request,
             Ask(r) \/ Fetch(r) \/ Hit(r) \/ Miss(r) \/ ModelAnswers(r) \/ ModelFails(r) \/ Done(r)
      PROVE  Small'
  <2>1. UNCHANGED cache /\ \E at, v, t : at # "store" /\ Becomes(r, at, v, t)
    <3>1. CASE Ask(r)
      BY <3>1 DEF Ask
    <3>2. CASE Fetch(r)
      BY <3>2 DEF Fetch
    <3>3. CASE Hit(r) \/ Miss(r)
      BY <3>3 DEF Hit, Miss
    <3>4. CASE ModelAnswers(r) \/ ModelFails(r)
      BY <3>4 DEF ModelAnswers, ModelFails
    <3>5. CASE Done(r)
      BY <3>5 DEF Done, Becomes, Idle
    <3>. QED
      BY <1>2, <3>1, <3>2, <3>3, <3>4, <3>5
  <2>2. PICK at, v, t : at # "store" /\ Becomes(r, at, v, t)
    BY <2>1
  <2>3. req'[r].at = at /\ \A q \in Request \ {r} : req'[q] = req[q]
    BY <2>2 DEF NInv, NTypeOK, Becomes
  <2>4. Storing' \subseteq Storing
    BY <2>2, <2>3 DEF Storing
  <2>. QED
    BY <2>1, <2>4, NoNewStore
<1>. QED
  BY <1>1, <1>2, ClearSmall, StoreSmall DEF NNext, Step

(* However many verdicts there have been, and although the clear and the    *)
(* store of get_narrative are two steps that other threads come between:    *)
(* what is cached and what is about to be stored are, together, no more     *)
(* than the requests in flight.                                             *)
THEOREM CacheBoundedHolds == NSpec => []CacheBounded
<1>1. NInit => Small
  <2>1. ASSUME NInit PROVE Cached = {} /\ Storing = {}
    BY <2>1 DEF NInit, Cached, Storing, Idle
  <2>2. Cardinality(Request) \in Nat
    BY StoringFinite, FS_CardinalityType
  <2>. QED
    BY <2>1, <2>2, FS_EmptySet DEF Small
<1>2. Small => CacheBounded
  BY DEF Small, CacheBounded, Storing
<1>. QED
  BY <1>1, <1>2, InitNInv, NextNInv, NextSmall, PTL DEF NSpec

-----------------------------------------------------------------------------
(* The page *)

(* What the page does to the narrator is what any client does: every poll   *)
(* of the endpoint is a step of Narrative, and the rest leaves it alone.    *)
LEMMA PageSteps == [DNext]_dvars => [NNext]_nvars
<1>. SUFFICES ASSUME [DNext]_dvars PROVE [NNext]_nvars
  OBVIOUS
<1>1. CASE UNCHANGED dvars
  BY <1>1 DEF dvars
<1>2. CASE Around
  BY <1>2 DEF Around, NNext
<1>3. ASSUME NEW r \in Request, Refresh(r) \/ Serve(r) \/ GraphAnswers(r) \/ Settle(r)
      PROVE  [NNext]_nvars
  <2>1. CASE Refresh(r)
    BY <2>1 DEF Refresh, NNext
  <2>2. CASE Serve(r)
    BY <2>2 DEF Serve, NNext
  <2>3. CASE GraphAnswers(r)
    BY <2>3 DEF GraphAnswers
  <2>4. CASE Settle(r)
    BY <2>4 DEF Settle, NNext
  <2>. QED
    BY <1>3, <2>1, <2>2, <2>3, <2>4
<1>. QED
  BY <1>1, <1>2, <1>3 DEF DNext

(* The page, with any number of refreshes open, keeps to the narrator's     *)
(* specification: all that is proved of Narrative holds behind the page.    *)
THEOREM PageUsesNarrator == DSpec => NSpec
<1>1. DInit => NInit
  BY DEF DInit
<1>. QED
  BY <1>1, PageSteps, PTL DEF DSpec, NSpec

(* What is shown was answered: a verdict, and a sentence. *)
LEMMA SettleShows ==
    ASSUME NInv, DTypeOK, NEW r \in Request, Settle(r)
    PROVE  \/ shown' = shown
           \/ /\ shown'.graph \in Verdict /\ shown'.text \in Text
<1>1. CASE ~Answered(r)
  BY <1>1 DEF Settle
<1>2. CASE Answered(r)
  <2>1. req[r].text \in Text
    BY <1>2 DEF NInv, InHand, Answered
  <2>2. shown' = [graph |-> graph[r], text |-> req[r].text]
    BY <1>2 DEF Settle
  <2>. QED
    BY <1>2, <2>1, <2>2 DEF Answered
<1>. QED
  BY <1>1, <1>2

(* The variables of the page keep their types with every step of it. *)
LEMMA PageTypes == NInv /\ DTypeOK /\ [DNext]_dvars => DTypeOK'
<1>. SUFFICES ASSUME NInv, DTypeOK, [DNext]_dvars PROVE DTypeOK'
  OBVIOUS
<1>1. CASE UNCHANGED dvars
  BY <1>1 DEF dvars, DTypeOK
<1>2. CASE Around
  BY <1>2 DEF Around, DTypeOK
<1>3. ASSUME NEW r \in Request, Refresh(r) \/ Serve(r) \/ GraphAnswers(r) \/ Settle(r)
      PROVE  DTypeOK'
  <2>1. CASE Refresh(r)
    BY <2>1 DEF Refresh, DTypeOK
  <2>2. CASE Serve(r)
    BY <2>2 DEF Serve, DTypeOK
  <2>3. CASE GraphAnswers(r)
    <3>1. engine \in Verdict \cup {Down}
      BY DEF NInv, NTypeOK
    <3>. QED
      BY <2>3, <3>1 DEF GraphAnswers, DTypeOK
  <2>4. CASE Settle(r)
    BY <2>4, SettleShows DEF Settle, DTypeOK
  <2>. QED
    BY <1>3, <2>1, <2>2, <2>3, <2>4
<1>. QED
  BY <1>1, <1>2, <1>3 DEF DNext

LEMMA PageStarts == DInit => NInv /\ DTypeOK
BY InitNInv DEF DInit, DTypeOK

(* What a refresh was answered and what the page shows keep their types:    *)
(* an error is never shown as a verdict.                                    *)
THEOREM DashboardTypeCorrect == DSpec => []DTypeOK
BY PageStarts, PageSteps, NextNInv, PageTypes, PTL DEF DSpec

(* "keep last good values": no step of the page, in whatever order its      *)
(* overlapping refreshes settle and whichever of their two answers failed,  *)
(* replaces a graph or a sentence that is shown by nothing.                 *)
THEOREM NeverBlankAgainHolds == DSpec => NeverBlankAgain
<1>. DEFINE Kept == /\ shown.graph # None => shown'.graph # None
                    /\ shown.text # None => shown'.text # None
<1>1. ASSUME NInv, DTypeOK, [DNext]_dvars PROVE [Kept]_dvars
  <2>1. CASE shown' = shown
    BY <2>1
  <2>2. ASSUME NEW r \in Request, Settle(r) PROVE Kept
    BY <1>1, <2>2, SettleShows, VerdictAssumption
  <2>. QED
    BY <1>1, <2>1, <2>2 DEF DNext, dvars, Around, Refresh, Serve, GraphAnswers
<1>. QED
  BY <1>1, PageStarts, PageSteps, NextNInv, PageTypes, PTL DEF DSpec, NeverBlankAgain
=============================================================================
