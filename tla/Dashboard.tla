------------------------------ MODULE Dashboard ------------------------------
(***************************************************************************)
(* The page that polls the API: dashboard/app/page.jsx, composed with the  *)
(* narrator.  Every five seconds refresh() asks for the graph and for the  *)
(* narrative side by side and shows both when both have come; a refresh    *)
(* does not wait for the one before it, so several are open while the      *)
(* model writes, and they settle in any order.  /api/health always answers *)
(* and is left out.                                                        *)
(***************************************************************************)
EXTENDS Narrative

VARIABLES
    graph,   \* per open refresh: what /api/graph answered it, None until then
    shown    \* the graph and the narrative on the page

dvars == <<nvars, graph, shown>>

DInit ==
    /\ NInit
    /\ graph = [r \in Request |-> None]
    /\ shown = [graph |-> None, text |-> None]

(* setInterval fires; both requests leave. *)
Refresh(r) ==
    /\ Ask(r)
    /\ graph' = [graph EXCEPT ![r] = None]
    /\ UNCHANGED shown

GraphAnswers(r) ==
    /\ req[r].at # "idle"
    /\ graph[r] = None
    /\ graph' = [graph EXCEPT ![r] = engine]
    /\ UNCHANGED <<nvars, shown>>

Answered(r) == req[r].at = "answered" /\ graph[r] \in Verdict

(* Mutant: an error answer is shown like any other. *)
SettleUnchecked(r) ==
    /\ graph[r] # None
    /\ Done(r)
    /\ shown' = [graph |-> graph[r], text |-> req[r].text]
    /\ UNCHANGED graph

(* Mutant: a page that shows something already is not refreshed. *)
SettleOnce(r) ==
    /\ graph[r] # None
    /\ Done(r)
    /\ shown' = IF Answered(r) /\ shown.graph = None
                THEN [graph |-> graph[r], text |-> req[r].text] ELSE shown
    /\ UNCHANGED graph

(* Mutant: one answer is enough to repaint. *)
SettleEach(r) ==
    /\ graph[r] # None
    /\ Done(r)
    /\ shown' = [graph |-> IF graph[r] \in Verdict THEN graph[r] ELSE None,
                 text |-> IF req[r].at = "answered" THEN req[r].text ELSE None]
    /\ UNCHANGED graph

(* Promise.all: both answers are shown, or, when one failed, neither. *)
Settle(r) ==
    /\ graph[r] # None
    /\ Done(r)
    /\ shown' = IF Answered(r) THEN [graph |-> graph[r], text |-> req[r].text] ELSE shown
    /\ UNCHANGED graph

Serve(r) == Step(r) /\ UNCHANGED <<graph, shown>>

Around == (EngineChanges \/ ModelChanges) /\ UNCHANGED <<graph, shown>>

DNext ==
    \/ Around
    \/ \E r \in Request : Refresh(r) \/ Serve(r) \/ GraphAnswers(r) \/ Settle(r)

(* The page is open: the interval keeps firing, and the browser gets an     *)
(* answer, be it an error, to every request.                                *)
DSpec ==
    /\ DInit /\ [][DNext]_dvars
    /\ \A r \in Request : /\ WF_dvars(Refresh(r)) /\ WF_dvars(Serve(r))
                          /\ WF_dvars(GraphAnswers(r)) /\ WF_dvars(Settle(r))

-----------------------------------------------------------------------------
(* Properties *)

(* Every variable of the page has its type. *)
DTypeOK ==
    /\ graph \in [Request -> Verdict \cup {Down, None}]
    /\ shown.graph \in Verdict \cup {None}
    /\ shown.text \in Text \cup {None}

(* "keep last good values": whatever of a refresh fails, and in whatever    *)
(* order refreshes settle, a page that has shown something never goes blank *)
(* again, neither the graph nor the sentence.                               *)
NeverBlankAgain ==
    [][/\ shown.graph # None => shown'.graph # None
       /\ shown.text # None => shown'.text # None]_dvars

(* Overlapping refreshes settle in any order and may show an older verdict  *)
(* for a while, but once the engine's verdict no longer changes, the page   *)
(* comes to show it, with a sentence for it, and keeps showing it.          *)
ShownConverges ==
    \A v \in Verdict :
        <>[](engine = v)
            => <>[](/\ shown.graph = v
                    /\ shown.text # None /\ SigOf[shown.text.of] = SigOf[v])
=============================================================================
