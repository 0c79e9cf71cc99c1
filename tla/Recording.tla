------------------------------ MODULE Recording ------------------------------
(***************************************************************************)
(* GET /api/record_analyze and /api/fcc_check (stream_web/app.py): the     *)
(* capture they begin with is the one of module IqCapture, here it fails   *)
(* or gives a recording of packets or a spectrum, which module Analysis or *)
(* module Fcc goes on with.                                                *)
(***************************************************************************)
EXTENDS Analysis, Fcc, SequencesExt

CONSTANTS
    Raw,            \* the "seconds" of a request: [kind |-> "absent" | "text" | "number", value |-> n]
    MaxSeconds,     \* _CAPTURE_MAX_SECONDS
    DefaultSeconds  \* default of a route, a function of its name

ASSUME SecondsAssumption ==
    MaxSeconds \in Nat /\ DefaultSeconds \in [DOMAIN DefaultSeconds -> 1..MaxSeconds]

VARIABLES
    route,          \* the route asked for
    seconds,
    response        \* its status, and the report or the verdict

vars == <<anVars, edgeVars, fccVars, route, seconds, response>>

Routes == DOMAIN DefaultSeconds
NoResponse == [status |-> 0]
Failure(status) == [status |-> status]
-----------------------------------------------------------------------------
Init ==
    /\ AnalysisInit /\ FccInit
    /\ route = "none" /\ seconds = 0 /\ response = NoResponse

(* _parse_seconds: a whole number from 1 to the maximum, or the default.   *)
Valid_openEnded(raw) == raw.kind = "number" => raw.value >= 1   \* seeded fault: no upper bound
Valid(raw) ==
    \/ raw.kind = "absent"
    \/ raw.kind = "number" /\ raw.value \in 1..MaxSeconds

Request(r, raw) ==
    /\ route = "none"
    /\ route' = r
    /\ IF Valid(raw)
       THEN /\ seconds' = IF raw.kind = "absent" THEN DefaultSeconds[r] ELSE raw.value
            /\ UNCHANGED response
       ELSE response' = Failure(400) /\ UNCHANGED seconds
    /\ UNCHANGED <<anVars, edgeVars, fccVars>>

Capturing == route # "none" /\ response = NoResponse /\ rec = NoRecording /\ carrier = Unknown

(* Another capture goes on, or this one fails.                             *)
CaptureFails ==
    /\ Capturing
    /\ \E status \in {409, 500, 504} : response' = Failure(status)
    /\ UNCHANGED <<anVars, edgeVars, fccVars, route, seconds>>

Captured ==
    /\ Capturing
    /\ \/ /\ route = "record_analyze"
          /\ \E r \in Recordings : StartAnalysis(r)
          /\ UNCHANGED fccVars
       \/ /\ route = "fcc_check"
          /\ \E t \in Traces : StartFcc(t)
          /\ UNCHANGED <<anVars, edgeVars>>
    /\ UNCHANGED <<route, seconds, response>>

Analyze == AnalysisNext /\ UNCHANGED <<fccVars, route, seconds, response>>
Check == FccNext /\ UNCHANGED <<anVars, edgeVars, route, seconds, response>>

(* Seeded fault: the report is made before the last window is analysed.    *)
Report_early ==
    /\ rec # NoRecording /\ response = NoResponse
    /\ response' = [status |-> 200,
          packets |-> SetToSortSeq(accepted, LAMBDA a, b : a.abs_start < b.abs_start)]
    /\ UNCHANGED <<anVars, edgeVars, fccVars, route, seconds>>

(* The packets in order of time.                                           *)
Report ==
    /\ rec # NoRecording /\ AnalysisDone /\ response = NoResponse
    /\ response' = [status |-> 200,
          packets |-> SetToSortSeq(accepted, LAMBDA a, b : a.abs_start < b.abs_start)]
    /\ UNCHANGED <<anVars, edgeVars, fccVars, route, seconds>>

Answer ==
    /\ verdict # Unknown /\ response = NoResponse
    /\ response' = [status |-> 200, state |-> verdict.state]
    /\ UNCHANGED <<anVars, edgeVars, fccVars, route, seconds>>

Next ==
    \/ \E r \in Routes, raw \in Raw : Request(r, raw)
    \/ CaptureFails \/ Captured \/ Analyze \/ Check \/ Report \/ Answer

Spec == Init /\ [][Next]_vars
-----------------------------------------------------------------------------
(* A recording or a spectrum is there only for its own route and a length  *)
(* that was checked.  What is answered is told from what was recorded: a   *)
(* report of a recording whose analysis is over, a verdict on a spectrum   *)
(* that was measured, and a failure of a request that recorded nothing.    *)
RecordedFor ==
    /\ rec # NoRecording \/ carrier # Unknown => seconds \in 1..MaxSeconds
    /\ rec # NoRecording => route = "record_analyze"
    /\ carrier # Unknown => route = "fcc_check"
AnswerFits ==
    /\ response.status = 200 =>
         \/ rec # NoRecording /\ AnalysisDone
         \/ verdict # Unknown /\ response = [status |-> 200, state |-> verdict.state]
    /\ response.status \in {400, 409, 500, 504} => rec = NoRecording /\ carrier = Unknown

(* The type invariant of the two routes, with RecordedFor and AnswerFits   *)
(* (_parse_seconds, api_record_analyze, api_fcc_check).                    *)
TypeOK ==
    /\ AnalysisTypeOK
    /\ carrier # Unknown => carrier.state \in {"recorded", "averaged", "measured"}
    /\ verdict.state \in {"unknown", "no_signal", "pass", "fail"}
    /\ route \in Routes \cup {"none"} /\ seconds \in 0..MaxSeconds
    /\ response.status \in {0, 200, 400, 409, 500, 504}
    /\ RecordedFor /\ AnswerFits
=============================================================================
