------------------------------ MODULE Narrative ------------------------------
(***************************************************************************)
(* The narrator of the API gateway: api/main.py, GET /api/narrative.       *)
(*                                                                         *)
(* The endpoint is a plain function, so FastAPI runs every request in a    *)
(* thread of its own.  A request fetches the verdict from the engine,      *)
(* looks its signature up in a module-level dictionary, and on a miss asks *)
(* the language model, for up to thirty seconds, while the dashboard polls *)
(* every five.  Single dictionary operations are atomic; the lookup and    *)
(* the read of a hit run without a thread switch between them, the clear   *)
(* and the store after a model call do not.                                *)
(***************************************************************************)
EXTENDS Integers, FiniteSets

CONSTANTS
    Request,   \* requests that can be in flight together
    Verdict,   \* verdicts of the engine
    SigOf,     \* _verdict_signature: what of a verdict keys the cache
    Down,      \* the engine cannot be reached
    None

Sig == {SigOf[v] : v \in Verdict}

(* A sentence is identified by the verdict it was written for and by who    *)
(* wrote it, the model or the template.                                     *)
Text   == [of : Verdict, source : {"llm", "fallback"}]

ASSUME VerdictAssumption ==
    /\ IsFiniteSet(Request)
    /\ SigOf \in [Verdict -> Sig]
    /\ Down \notin Verdict
    /\ None \notin Verdict \cup {Down} \cup Text

VARIABLES
    engine,   \* what GET /graph of the engine answers now
    model,    \* whether the language model answers in time
    cache,    \* _NARR_CACHE: signature -> verdict its sentence was written for
    req       \* the requests in flight

nvars == <<engine, model, cache, req>>

Idle == [at |-> "idle", verdict |-> None, text |-> None]
Requests ==
    [at : {"idle", "fetch", "lookup", "model", "clear", "store", "answered", "error"},
     verdict : Verdict \cup {None}, text : Text \cup {None}]

Cached == {s \in Sig : cache[s] # None}

NInit ==
    /\ engine \in Verdict
    /\ model \in {"up", "down"}
    /\ cache = [s \in Sig |-> None]
    /\ req = [r \in Request |-> Idle]

(* The engine publishes another verdict, or goes or comes back. *)
EngineChanges ==
    /\ engine' \in (Verdict \cup {Down}) \ {engine}
    /\ UNCHANGED <<model, cache, req>>

ModelChanges ==
    /\ model' \in {"up", "down"} \ {model}
    /\ UNCHANGED <<engine, cache, req>>

Becomes(r, at, v, t) == req' = [req EXCEPT ![r] = [at |-> at, verdict |-> v, text |-> t]]

Ask(r) ==
    /\ req[r].at = "idle"
    /\ Becomes(r, "fetch", None, None)
    /\ UNCHANGED <<engine, model, cache>>

(* Mutant: the error of graph() is taken for a verdict. *)
FetchUnchecked(r) ==
    /\ req[r].at = "fetch"
    /\ Becomes(r, "lookup", engine, None)
    /\ UNCHANGED <<engine, model, cache>>

(* graph(): the normalized verdict, or a 503. *)
Fetch(r) ==
    /\ req[r].at = "fetch"
    /\ IF engine = Down THEN Becomes(r, "error", None, None)
       ELSE Becomes(r, "lookup", engine, None)
    /\ UNCHANGED <<engine, model, cache>>

SigAt(r) == SigOf[req[r].verdict]

(* Mutant: whatever was written last is good enough. *)
HitAnything(r) ==
    /\ req[r].at = "lookup"
    /\ \E s \in Cached :
          Becomes(r, "answered", req[r].verdict, [of |-> cache[s], source |-> "llm"])
    /\ UNCHANGED <<engine, model, cache>>

Hit(r) ==
    /\ req[r].at = "lookup"
    /\ SigAt(r) \in Cached
    /\ Becomes(r, "answered", req[r].verdict, [of |-> cache[SigAt(r)], source |-> "llm"])
    /\ UNCHANGED <<engine, model, cache>>

Miss(r) ==
    /\ req[r].at = "lookup"
    /\ SigAt(r) \notin Cached
    /\ Becomes(r, "model", req[r].verdict, None)
    /\ UNCHANGED <<engine, model, cache>>

(* _ollama returned a sentence: it is kept, in two steps. *)
ModelAnswers(r) ==
    /\ req[r].at = "model"
    /\ model = "up"
    /\ Becomes(r, "clear", req[r].verdict, None)
    /\ UNCHANGED <<engine, model, cache>>

(* _ollama timed out, failed, or said nothing: the template answers, and    *)
(* nothing is kept.                                                         *)
ModelFails(r) ==
    /\ req[r].at = "model"
    /\ model = "down"
    /\ Becomes(r, "answered", req[r].verdict, [of |-> req[r].verdict, source |-> "fallback"])
    /\ UNCHANGED <<engine, model, cache>>

(* Mutant: older sentences are kept. *)
ClearNothing(r) ==
    /\ req[r].at = "clear"
    /\ Becomes(r, "store", req[r].verdict, None)
    /\ UNCHANGED <<engine, model, cache>>

Clear(r) ==
    /\ req[r].at = "clear"
    /\ cache' = [s \in Sig |-> None]
    /\ Becomes(r, "store", req[r].verdict, None)
    /\ UNCHANGED <<engine, model>>

(* Mutant: the sentence is answered but not kept. *)
StoreNothing(r) ==
    /\ req[r].at = "store"
    /\ Becomes(r, "answered", req[r].verdict, [of |-> req[r].verdict, source |-> "llm"])
    /\ UNCHANGED <<engine, model, cache>>

Store(r) ==
    /\ req[r].at = "store"
    /\ cache' = [cache EXCEPT ![SigAt(r)] = req[r].verdict]
    /\ Becomes(r, "answered", req[r].verdict, [of |-> req[r].verdict, source |-> "llm"])
    /\ UNCHANGED <<engine, model>>

Step(r) ==
    \/ Fetch(r) \/ Hit(r) \/ Miss(r)
    \/ ModelAnswers(r) \/ ModelFails(r)
    \/ Clear(r) \/ Store(r)

(* The answer is on its way to the client; the slot is free again. *)
Done(r) ==
    /\ req[r].at \in {"answered", "error"}
    /\ req' = [req EXCEPT ![r] = Idle]
    /\ UNCHANGED <<engine, model, cache>>

NNext ==
    \/ EngineChanges \/ ModelChanges
    \/ \E r \in Request : Ask(r) \/ Step(r) \/ Done(r)

NSpec == NInit /\ [][NNext]_nvars

(* A thread that is running goes on, _ollama returns within its timeout,    *)
(* and the dashboard keeps polling.                                         *)
NFairness == \A r \in Request : WF_nvars(Ask(r)) /\ WF_nvars(Step(r)) /\ WF_nvars(Done(r))

NFairSpec == NSpec /\ NFairness

-----------------------------------------------------------------------------
(* Properties *)

(* Every variable has its type. *)
NTypeOK ==
    /\ engine \in Verdict \cup {Down}
    /\ model \in {"up", "down"}
    /\ cache \in [Sig -> Verdict \cup {None}]
    /\ req \in [Request -> Requests]

(* The sentence a request answers is about the verdict it fetched (up to    *)
(* what the signature tells apart), and the template's is about exactly     *)
(* that one, however requests, stores and evictions interleave.             *)
AnswerMatchesVerdict ==
    \A r \in Request : req[r].at = "answered" =>
        /\ SigOf[req[r].text.of] = SigAt(r)
        /\ req[r].text.source = "fallback" => req[r].text.of = req[r].verdict

(* The cache stays as small as the clear before each store means it to be:  *)
(* what it holds and what is about to be stored in it are, together, no     *)
(* more than the requests in flight, however many verdicts there have been. *)
CacheBounded ==
    Cardinality(Cached) + Cardinality({r \in Request : req[r].at = "store"})
        <= Cardinality(Request)

(* A verdict that no longer changes is in the cache again and again once    *)
(* the model answers: a late store for an older verdict evicts it only for  *)
(* a while.                                                                 *)
StableVerdictCached ==
    \A v \in Verdict :
        <>[](engine = v /\ model = "up") => []<>(SigOf[v] \in Cached)

(* api/main.py 144-145: the poll does not re-run the model every tick, the  *)
(* verdict is regenerated only when it changes: the model is never asked    *)
(* about one signature by two requests at a time.                           *)
OneModelCall ==
    \A r, q \in Request :
        (r # q /\ req[r].at = "model" /\ req[q].at = "model") => SigAt(r) # SigAt(q)
=============================================================================
