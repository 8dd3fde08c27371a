------------------------ MODULE CompilerSessionProofs ------------------------
(***************************************************************************)
(* For every set of calls, every distribution and all requests: what calls *)
(* on one Compiler share, the poison flag, decides their answers as        *)
(* Compiler::compile promises, however their steps interleave.             *)
(***************************************************************************)
EXTENDS CompilerSession, Fundamentals

(* A call that has not returned may go on with any other values; one that  *)
(* has returned has an outcome with a cause in its own request.            *)
Explained(c, state) ==
  /\ DOMAIN state = DOMAIN Idle
  /\ state.outcome \in {"none"} \cup Returned
  /\ state.pc = "returned" <=> state.outcome # "none"
  /\ state.outcome = "Cancelled" => cancelled[c]
  /\ state.outcome = "Defect" => \/ request[c].catalog = "collision"
                                 \/ "defect" \in {request[c].selection, request[c].analysis}

(* The inductive invariant: calls keep their shape, a call that began on a *)
(* poisoned instance has returned with a Defect, and outcomes have causes. *)
Shape == /\ DOMAIN call = Call
         /\ \A c \in Call : DOMAIN call[c] = DOMAIN Idle
         /\ request \in Workloads

Refused == \A c \in Call : late[c] => call[c].outcome = "Defect"

IInv == Shape /\ TypeOK /\ Refused /\ OutcomeExplained

-----------------------------------------------------------------------------
(* A step of one call leaves the others alone.                             *)
LEMMA OneCall ==
  ASSUME NEW c \in Call, NEW state, Shape, Becomes(c, state)
  PROVE  /\ DOMAIN call' = Call
         /\ call'[c] = state
         /\ \A d \in Call \ {c} : call'[d] = call[d]
  BY DEF Shape, Becomes

(* A state of a call that goes on.                                         *)
LEMMA GoesOn ==
  ASSUME NEW c \in Call, NEW state, DOMAIN state = DOMAIN Idle,
         state.outcome = "none", state.pc # "returned"
  PROVE  Explained(c, state)
  BY DEF Explained

(* Ways to return.                                                         *)
LEMMA Outcomes ==
  ASSUME NEW c \in Call, Shape, NEW kind \in Returned,
         kind = "Cancelled" => cancelled[c],
         kind = "Defect" => \/ request[c].catalog = "collision"
                            \/ "defect" \in {request[c].selection, request[c].analysis},
         Outcome(c, kind)
  PROVE  Explained(c, call'[c])
<1> DEFINE state == [call[c] EXCEPT !.pc = "returned", !.outcome = kind]
<1>1. call'[c] = state
  BY OneCall DEF Outcome
<1>2. DOMAIN state = DOMAIN Idle /\ state.pc = "returned" /\ state.outcome = kind
  BY DEF Shape, Idle
<1> QED
  BY <1>1, <1>2 DEF Explained, Returned

LEMMA Publishes ==
  ASSUME NEW c \in Call, Shape, NEW from, DOMAIN from = DOMAIN Idle, Publish(c, from)
  PROVE  Explained(c, call'[c])
<1> DEFINE kind  == IF from.diagnostics = {} THEN "Accepted" ELSE "Rejected"
           state == [from EXCEPT !.pc = "returned", !.outcome = kind]
<1>1. call'[c] = state
  BY OneCall DEF Publish
<1>2. DOMAIN state = DOMAIN Idle /\ state.pc = "returned" /\ state.outcome = kind
  BY DEF Idle
<1> QED
  BY <1>1, <1>2 DEF Explained, Returned

LEMMA Concludes ==
  ASSUME NEW c \in Call, Shape, NEW from, DOMAIN from = DOMAIN Idle,
         from.outcome = "none", Conclude(c, from)
  PROVE  Explained(c, call'[c])
<1>1. CASE request[c].inspectsSyntax
  <2> DEFINE state == [from EXCEPT !.pc = "sources", !.index = 1]
  <2>1. call'[c] = state
    BY <1>1, OneCall DEF Conclude
  <2>2. DOMAIN state = DOMAIN Idle /\ state.pc # "returned" /\ state.outcome = "none"
    BY DEF Idle
  <2> QED
    BY <2>1, <2>2, GoesOn
<1>2. CASE ~ request[c].inspectsSyntax
  BY <1>2, Publishes DEF Conclude
<1> QED
  BY <1>1, <1>2

-----------------------------------------------------------------------------
(* What a step of compile_inner does.                                      *)
Advances(c) ==
  /\ call[c].pc # "returned"
  /\ UNCHANGED <<poisoned, request, cancelled, late>>
  /\ DOMAIN call' = Call
  /\ Explained(c, call'[c])
  /\ \A d \in Call \ {c} : call'[d] = call[d]

LEMMA Running ==
  ASSUME TypeOK, NEW c \in Call, call[c].pc # "returned"
  PROVE  call[c].outcome = "none"
  BY DEF TypeOK

LEMMA MadeCalls == Shape => Made \subseteq Call
  BY WorkloadAssumption DEF Shape, Made

(* A step that goes on, and one that returns.                              *)
LEMMA AdvancesTo ==
  ASSUME Shape, TypeOK, NEW c \in Call, NEW pc, Inner(c, pc), pc # "returned",
         NEW state, DOMAIN state = DOMAIN Idle, state.outcome = "none",
         state.pc # "returned", Becomes(c, state)
  PROVE  Advances(c)
  BY OneCall, GoesOn DEF Inner, Advances

LEMMA AdvancesOut ==
  ASSUME Shape, TypeOK, NEW c \in Call, NEW pc, Inner(c, pc), pc # "returned",
         NEW kind \in Returned,
         kind = "Cancelled" => cancelled[c],
         kind = "Defect" => \/ request[c].catalog = "collision"
                            \/ "defect" \in {request[c].selection, request[c].analysis},
         Outcome(c, kind)
  PROVE  Advances(c)
<1>1. Explained(c, call'[c])
  BY Outcomes
<1>2. DOMAIN call' = Call /\ \A d \in Call \ {c} : call'[d] = call[d]
  BY OneCall DEF Outcome
<1> QED
  BY <1>1, <1>2 DEF Inner, Advances

LEMMA AdvancesCancelled ==
  ASSUME Shape, TypeOK, NEW c \in Call, NEW pc, Inner(c, pc), pc # "returned",
         cancelled[c], Outcome(c, "Cancelled")
  PROVE  Advances(c)
  BY AdvancesOut DEF Returned

LEMMA AdvancesToEnd ==
  ASSUME Shape, TypeOK, NEW c \in Call, NEW pc, Inner(c, pc), pc # "returned",
         NEW from, DOMAIN from = DOMAIN Idle, from.outcome = "none",
         Conclude(c, from)
  PROVE  Advances(c)
<1>1. Explained(c, call'[c])
  BY Concludes
<1>2. DOMAIN call' = Call /\ \A d \in Call \ {c} : call'[d] = call[d]
  BY OneCall DEF Conclude, Publish
<1> QED
  BY <1>1, <1>2 DEF Inner, Advances

-----------------------------------------------------------------------------
(* The steps of one call.                                                  *)
LEMMA PollAdvances ==
  ASSUME Shape, TypeOK, NEW c \in Call, Poll(c) PROVE Advances(c)
<1> DEFINE state == [call[c] EXCEPT !.pc = "ingest"]
<1>1. DOMAIN state = DOMAIN Idle /\ state.outcome = "none" /\ state.pc # "returned"
  BY Running DEF Poll, Inner, Shape, Idle
<1>2. CASE cancelled[c]
  BY <1>2, AdvancesCancelled DEF Poll, Checkpoint
<1>3. CASE ~ cancelled[c]
  BY <1>1, <1>3, AdvancesTo DEF Poll, Checkpoint
<1> QED
  BY <1>2, <1>3

LEMMA IngestAdvances ==
  ASSUME Shape, TypeOK, NEW c \in Call, Ingest(c) PROVE Advances(c)
<1>1. CASE cancelled[c]
  BY <1>1, AdvancesCancelled DEF Ingest, Checkpoint
<1>2. CASE ~ cancelled[c]
  <2>1. PICK index, files, diagnostics :
          Becomes(c, [call[c] EXCEPT !.index = index, !.files = files,
                                     !.diagnostics = diagnostics])
    BY <1>2 DEF Ingest, Checkpoint
  <2> DEFINE state == [call[c] EXCEPT !.index = index, !.files = files,
                                      !.diagnostics = diagnostics]
  <2>2. DOMAIN state = DOMAIN Idle /\ state.outcome = "none" /\ state.pc # "returned"
    BY Running DEF Ingest, Inner, Shape, Idle
  <2> QED
    BY <2>1, <2>2, AdvancesTo DEF Ingest
<1> QED
  BY <1>1, <1>2

LEMMA JoinAdvances ==
  ASSUME Shape, TypeOK, NEW c \in Call, Join(c) PROVE Advances(c)
<1>1. PICK files, diagnostics, missing :
        LET joined == [call[c] EXCEPT !.files = files, !.diagnostics = diagnostics]
        IN \/ Becomes(c, [joined EXCEPT !.pc = "closure", !.pending = {request[c].root}])
           \/ Conclude(c, [joined EXCEPT !.diagnostics = missing])
  BY DEF Join
<1> DEFINE joined == [call[c] EXCEPT !.files = files, !.diagnostics = diagnostics]
           closure == [joined EXCEPT !.pc = "closure", !.pending = {request[c].root}]
           end     == [joined EXCEPT !.diagnostics = missing]
<1>2. DOMAIN joined = DOMAIN Idle /\ joined.outcome = "none"
  BY Running DEF Join, Inner, Shape, Idle
<1>3. CASE Becomes(c, closure)
  <2>1. DOMAIN closure = DOMAIN Idle /\ closure.outcome = "none" /\ closure.pc # "returned"
    BY <1>2 DEF Idle
  <2> QED
    BY <1>3, <2>1, AdvancesTo DEF Join
<1>4. CASE Conclude(c, end)
  <2>1. DOMAIN end = DOMAIN Idle /\ end.outcome = "none"
    BY <1>2 DEF Idle
  <2> QED
    BY <1>4, <2>1, AdvancesToEnd DEF Join
<1> QED
  BY <1>1, <1>3, <1>4

LEMMA ParseAdvances ==
  ASSUME Shape, TypeOK, NEW c \in Call, NEW path, Parse(c, path) PROVE Advances(c)
<1>1. \/ cancelled[c] /\ Outcome(c, "Cancelled")
      \/ \E pending, parsed, diagnostics :
           Becomes(c, [call[c] EXCEPT !.pending = pending, !.parsed = parsed,
                                      !.diagnostics = diagnostics])
      \/ \E pending : Becomes(c, [call[c] EXCEPT !.pending = pending])
  BY DEF Parse, Checkpoint
<1>2. CASE cancelled[c] /\ Outcome(c, "Cancelled")
  BY <1>2, AdvancesCancelled DEF Parse
<1>3. ASSUME NEW pending, NEW parsed, NEW diagnostics,
             Becomes(c, [call[c] EXCEPT !.pending = pending, !.parsed = parsed,
                                        !.diagnostics = diagnostics])
      PROVE  Advances(c)
  <2> DEFINE state == [call[c] EXCEPT !.pending = pending, !.parsed = parsed,
                                      !.diagnostics = diagnostics]
  <2>1. DOMAIN state = DOMAIN Idle /\ state.outcome = "none" /\ state.pc # "returned"
    BY Running DEF Parse, Inner, Shape, Idle
  <2> QED
    BY <1>3, <2>1, AdvancesTo DEF Parse
<1>4. ASSUME NEW pending, Becomes(c, [call[c] EXCEPT !.pending = pending])
      PROVE  Advances(c)
  <2> DEFINE state == [call[c] EXCEPT !.pending = pending]
  <2>1. DOMAIN state = DOMAIN Idle /\ state.outcome = "none" /\ state.pc # "returned"
    BY Running DEF Parse, Inner, Shape, Idle
  <2> QED
    BY <1>4, <2>1, AdvancesTo DEF Parse
<1> QED
  BY <1>1, <1>2, <1>3, <1>4

LEMMA ClosedAdvances ==
  ASSUME Shape, TypeOK, NEW c \in Call, Closed(c) PROVE Advances(c)
<1> DEFINE diagnostics == IF HasCycle(c) THEN Diagnosed(c, "import_cycle", request[c].root)
                          ELSE call[c].diagnostics
           pc    == IF diagnostics = {} THEN "select" ELSE "catalog"
           state == [call[c] EXCEPT !.diagnostics = diagnostics, !.pc = pc]
<1>1. Becomes(c, state)
  BY DEF Closed
<1> HIDE DEF diagnostics
<1>2. DOMAIN state = DOMAIN Idle /\ state.outcome = "none" /\ state.pc # "returned"
  BY Running DEF Closed, Inner, Shape, Idle
<1> HIDE DEF state
<1> QED
  BY <1>1, <1>2, AdvancesTo DEF Closed

(* What the requests of the calls that are made may be.                    *)
LEMMA Requests ==
  ASSUME Shape, NEW c \in Made
  PROVE  /\ c \in Call
         /\ request[c].selection \in {"none", "selected", "diagnostic", "defect"}
         /\ request[c].analysis \in {"clean", "diagnostic", "defect"}
  BY WorkloadAssumption DEF Shape, Made

LEMMA SelectAdvances ==
  ASSUME Shape, TypeOK, NEW c \in Made, Select(c) PROVE Advances(c)
<1> c \in Call
  BY Requests
<1> DEFINE after == [call[c] EXCEPT !.pc = "catalog"]
           noted == [after EXCEPT !.diagnostics = Diagnosed(c, "selection", request[c].root)]
<1>1. DOMAIN after = DOMAIN Idle /\ after.outcome = "none" /\ after.pc = "catalog"
  BY Running DEF Select, Inner, Shape, Idle
<1>2. DOMAIN noted = DOMAIN Idle /\ noted.outcome = "none" /\ noted.pc = "catalog"
  BY <1>1 DEF Idle
<1>3. \/ cancelled[c] /\ Outcome(c, "Cancelled")
      \/ Becomes(c, after)
      \/ Becomes(c, noted)
      \/ request[c].selection = "defect" /\ Outcome(c, "Defect")
  BY Requests DEF Select, Checkpoint
<1>4. CASE cancelled[c] /\ Outcome(c, "Cancelled")
  BY <1>4, AdvancesCancelled DEF Select
<1>5. CASE Becomes(c, after)
  BY <1>1, <1>5, AdvancesTo DEF Select
<1>6. CASE Becomes(c, noted)
  BY <1>2, <1>6, AdvancesTo DEF Select
<1>7. CASE request[c].selection = "defect" /\ Outcome(c, "Defect")
  BY <1>7, AdvancesOut DEF Select, Returned
<1> QED
  BY <1>3, <1>4, <1>5, <1>6, <1>7

LEMMA CatalogAdvances ==
  ASSUME Shape, TypeOK, NEW c \in Call, Catalog(c) PROVE Advances(c)
<1> DEFINE state == [call[c] EXCEPT !.pc = "analyze"]
<1>1. DOMAIN state = DOMAIN Idle /\ state.outcome = "none" /\ state.pc # "returned"
  BY Running DEF Catalog, Inner, Shape, Idle
<1>2. \/ cancelled[c] /\ Outcome(c, "Cancelled")
      \/ request[c].catalog = "collision" /\ Outcome(c, "Defect")
      \/ Becomes(c, state)
  BY DEF Catalog, Checkpoint
<1>3. CASE cancelled[c] /\ Outcome(c, "Cancelled")
  BY <1>3, AdvancesCancelled DEF Catalog
<1>4. CASE request[c].catalog = "collision" /\ Outcome(c, "Defect")
  BY <1>4, AdvancesOut DEF Catalog, Returned
<1>5. CASE Becomes(c, state)
  BY <1>1, <1>5, AdvancesTo DEF Catalog
<1> QED
  BY <1>2, <1>3, <1>4, <1>5

LEMMA AnalyzeAdvances ==
  ASSUME Shape, TypeOK, NEW c \in Made, Analyze(c) PROVE Advances(c)
<1> c \in Call
  BY Requests
<1> DEFINE noted == [call[c] EXCEPT !.diagnostics = Diagnosed(c, "semantic", request[c].root)]
<1>1. DOMAIN noted = DOMAIN Idle /\ noted.outcome = "none"
  BY Running DEF Analyze, Inner, Shape, Idle
<1>2. DOMAIN call[c] = DOMAIN Idle /\ call[c].outcome = "none"
  BY Running DEF Analyze, Inner, Shape
<1>3. \/ cancelled[c] /\ Outcome(c, "Cancelled")
      \/ request[c].analysis = "defect" /\ Outcome(c, "Defect")
      \/ Conclude(c, noted)
      \/ Conclude(c, call[c])
  BY Requests DEF Analyze, Checkpoint
<1>4. CASE cancelled[c] /\ Outcome(c, "Cancelled")
  BY <1>4, AdvancesCancelled DEF Analyze
<1>5. CASE request[c].analysis = "defect" /\ Outcome(c, "Defect")
  BY <1>5, AdvancesOut DEF Analyze, Returned
<1>6. CASE Conclude(c, noted)
  BY <1>1, <1>6, AdvancesToEnd DEF Analyze
<1>7. CASE Conclude(c, call[c])
  BY <1>2, <1>7, AdvancesToEnd DEF Analyze
<1> QED
  BY <1>3, <1>4, <1>5, <1>6, <1>7

LEMMA ObserveAdvances ==
  ASSUME Shape, TypeOK, NEW c \in Call, Observe(c) PROVE Advances(c)
<1>1. \/ cancelled[c] /\ Outcome(c, "Cancelled")
      \/ \E index, syntax :
           Becomes(c, [[call[c] EXCEPT !.index = index] EXCEPT !.syntax = syntax])
      \/ \E index : Becomes(c, [call[c] EXCEPT !.index = index])
  BY DEF Observe, Checkpoint
<1>2. CASE cancelled[c] /\ Outcome(c, "Cancelled")
  BY <1>2, AdvancesCancelled DEF Observe
<1>3. ASSUME NEW index, NEW syntax,
             Becomes(c, [[call[c] EXCEPT !.index = index] EXCEPT !.syntax = syntax])
      PROVE  Advances(c)
  <2> DEFINE state == [[call[c] EXCEPT !.index = index] EXCEPT !.syntax = syntax]
  <2>1. DOMAIN state = DOMAIN Idle /\ state.outcome = "none" /\ state.pc # "returned"
    BY Running DEF Observe, Inner, Shape, Idle
  <2> QED
    BY <1>3, <2>1, AdvancesTo DEF Observe
<1>4. ASSUME NEW index, Becomes(c, [call[c] EXCEPT !.index = index])
      PROVE  Advances(c)
  <2> DEFINE state == [call[c] EXCEPT !.index = index]
  <2>1. DOMAIN state = DOMAIN Idle /\ state.outcome = "none" /\ state.pc # "returned"
    BY Running DEF Observe, Inner, Shape, Idle
  <2> QED
    BY <1>4, <2>1, AdvancesTo DEF Observe
<1> QED
  BY <1>1, <1>2, <1>3, <1>4

LEMMA EndObserveAdvances ==
  ASSUME Shape, TypeOK, NEW c \in Call, EndObserve(c) PROVE Advances(c)
<1>1. DOMAIN call[c] = DOMAIN Idle
  BY DEF Shape
<1>2. Explained(c, call'[c])
  BY <1>1, Publishes DEF EndObserve
<1>3. DOMAIN call' = Call /\ \A d \in Call \ {c} : call'[d] = call[d]
  BY OneCall DEF EndObserve, Publish
<1> QED
  BY <1>2, <1>3 DEF EndObserve, Inner, Advances

LEMMA CompileAdvances ==
  ASSUME Shape, TypeOK, NEW c \in Made, Poll(c) \/ FrontEnd(c) \/ BackEnd(c)
  PROVE  Advances(c)
<1> c \in Call
  BY Requests
<1>1. CASE Poll(c)
  BY <1>1, PollAdvances
<1>2. CASE FrontEnd(c)
  BY <1>2, IngestAdvances, JoinAdvances, ParseAdvances, ClosedAdvances DEF FrontEnd
<1>3. CASE BackEnd(c)
  BY <1>3, SelectAdvances, CatalogAdvances, AnalyzeAdvances, ObserveAdvances,
     EndObserveAdvances DEF BackEnd
<1> QED
  BY <1>1, <1>2, <1>3

-----------------------------------------------------------------------------
(* Every step keeps the invariant.  A call that has returned makes no step *)
(* any more, so a refused one keeps its Defect; the poison flag and the    *)
(* cancellation flags are never taken back, so causes stay.                *)
LEMMA Initially == Init => IInv
<1> SUFFICES ASSUME Init PROVE IInv
  OBVIOUS
<1>1. Shape
  BY DEF Init, Shape
<1>2. TypeOK
  BY DEF Init, TypeOK, Idle, Returned
<1>3. Refused /\ OutcomeExplained
  BY <1>1, MadeCalls DEF Init, Refused, OutcomeExplained, Idle
<1> QED
  BY <1>1, <1>2, <1>3 DEF IInv

LEMMA AdvancePreserves ==
  ASSUME IInv, NEW c \in Call, Advances(c) PROVE IInv'
<1> USE DEF IInv, Advances
<1>1. Shape'
  BY DEF Shape, Explained
<1>2. TypeOK'
  BY DEF TypeOK, Explained
<1>3. Refused'
  BY DEF Refused, TypeOK
<1>4. OutcomeExplained'
  <2>1. Made' \subseteq Call /\ Made' = Made
    BY MadeCalls DEF Made
  <2> QED
    BY <2>1 DEF OutcomeExplained, Explained
<1> QED
  BY <1>1, <1>2, <1>3, <1>4

LEMMA BeginPreserves ==
  ASSUME IInv, NEW c \in Call, Begin(c) PROVE IInv'
<1> USE DEF IInv
<1>1. call[c].outcome = "none"
  BY Running DEF Begin
<1> DEFINE state == [call[c] EXCEPT !.pc = "poll"]
           end   == [call[c] EXCEPT !.pc = "returned", !.outcome = "Defect"]
<1>2. \/ poisoned /\ Becomes(c, end)
      \/ ~ poisoned /\ Becomes(c, state)
  BY DEF Begin, Outcome
<1>3. /\ DOMAIN state = DOMAIN Idle /\ state.pc = "poll" /\ state.outcome = "none"
      /\ DOMAIN end = DOMAIN Idle /\ end.pc = "returned" /\ end.outcome = "Defect"
  BY <1>1 DEF Shape, Idle
<1> HIDE DEF state, end
<1>4. /\ DOMAIN call' = Call
      /\ call'[c] = IF poisoned THEN end ELSE state
      /\ \A d \in Call \ {c} : call'[d] = call[d]
  BY <1>2, OneCall
<1>5. /\ UNCHANGED <<poisoned, request, cancelled>>
      /\ late' = [late EXCEPT ![c] = poisoned]
  BY DEF Begin
<1>6. Shape'
  BY <1>3, <1>4, <1>5 DEF Shape
<1>7. TypeOK'
  BY <1>3, <1>4, <1>5 DEF TypeOK, Returned
<1>8. Refused'
  BY <1>3, <1>4, <1>5 DEF Refused, TypeOK
<1>9. OutcomeExplained'
  <2>1. Made' \subseteq Call /\ Made' = Made
    BY <1>5, MadeCalls DEF Made
  <2> QED
    BY <1>3, <1>4, <1>5, <2>1 DEF OutcomeExplained
<1> QED
  BY <1>6, <1>7, <1>8, <1>9

LEMMA PanicPreserves ==
  ASSUME IInv, NEW c \in Call, Panic(c) PROVE IInv'
<1> USE DEF IInv
<1> DEFINE end == [call[c] EXCEPT !.pc = "returned", !.outcome = "Defect"]
<1>1. DOMAIN end = DOMAIN Idle /\ end.pc = "returned" /\ end.outcome = "Defect"
  BY DEF Shape, Idle
<1>2. Becomes(c, end)
  BY DEF Panic, Outcome
<1> HIDE DEF end
<1>3. /\ DOMAIN call' = Call
      /\ call'[c] = end
      /\ \A d \in Call \ {c} : call'[d] = call[d]
  BY <1>2, OneCall
<1>4. poisoned' = TRUE /\ UNCHANGED <<request, cancelled, late>>
  BY DEF Panic
<1>5. Shape'
  BY <1>1, <1>3, <1>4 DEF Shape
<1>6. TypeOK'
  BY <1>1, <1>3, <1>4 DEF TypeOK, Returned
<1>7. Refused'
  BY <1>1, <1>3, <1>4 DEF Refused
<1>8. OutcomeExplained'
  <2>1. Made' \subseteq Call /\ Made' = Made
    BY <1>4, MadeCalls DEF Made
  <2> QED
    BY <1>1, <1>3, <1>4, <2>1 DEF OutcomeExplained
<1> QED
  BY <1>5, <1>6, <1>7, <1>8

LEMMA CancelPreserves ==
  ASSUME IInv, NEW c \in Call, Cancel(c) PROVE IInv'
<1> USE DEF IInv, Cancel
<1>1. Shape' /\ TypeOK' /\ Refused'
  BY DEF Shape, TypeOK, Refused
<1>2. OutcomeExplained'
  BY MadeCalls DEF OutcomeExplained, TypeOK, Made
<1> QED
  BY <1>1, <1>2

LEMMA Inductive == IInv /\ [Next]_vars => IInv'
<1> SUFFICES ASSUME IInv, [Next]_vars PROVE IInv'
  OBVIOUS
<1>1. ASSUME NEW c \in Made, Compile(c) \/ Panic(c) \/ Cancel(c) PROVE IInv'
  <2>1. c \in Call
    BY MadeCalls DEF IInv
  <2>2. CASE Begin(c)
    BY <2>1, <2>2, BeginPreserves
  <2>3. CASE Poll(c) \/ FrontEnd(c) \/ BackEnd(c)
    BY <2>1, <2>3, CompileAdvances, AdvancePreserves DEF IInv
  <2>4. CASE Panic(c)
    BY <2>1, <2>4, PanicPreserves
  <2>5. CASE Cancel(c)
    BY <2>1, <2>5, CancelPreserves
  <2> QED
    BY <1>1, <2>2, <2>3, <2>4, <2>5 DEF Compile
<1>2. CASE UNCHANGED vars
  <2>1. Shape' /\ TypeOK' /\ Refused'
    BY <1>2 DEF IInv, vars, Shape, TypeOK, Refused
  <2>2. OutcomeExplained'
    BY <1>2 DEF IInv, vars, OutcomeExplained, Made
  <2> QED
    BY <2>1, <2>2 DEF IInv
<1> QED
  BY <1>1, <1>2 DEF Next

LEMMA Always == Spec => []IInv
  BY Initially, Inductive, PTL DEF Spec

-----------------------------------------------------------------------------
(* The variables keep their types; a call has an outcome exactly when it   *)
(* has returned.  (compiler.rs, Compiler::compile.)                        *)
THEOREM TypeCorrect == Spec => []TypeOK
<1>1. IInv => TypeOK
  BY DEF IInv
<1> QED
  BY <1>1, Always, PTL

(* However calls interleave with a panic, one that begins on the poisoned  *)
(* instance is answered with a Defect.  (compiler.rs, Compiler::contain.)  *)
THEOREM PoisonRefuses == Spec => []PoisonedRefuses
<1>1. IInv => PoisonedRefuses
  BY MadeCalls DEF IInv, Refused, PoisonedRefuses
<1> QED
  BY <1>1, Always, PTL

(* No call is cancelled by another one's flag, and none answers Defect     *)
(* without a panic or a defect of its own.  (compiler.rs, compile_inner.)  *)
THEOREM OutcomesExplained == Spec => []OutcomeExplained
<1>1. IInv => OutcomeExplained
  BY DEF IInv
<1> QED
  BY <1>1, Always, PTL

-----------------------------------------------------------------------------
(***************************************************************************)
(* What compile publishes is a function of the request: the modules it     *)
(* parses are the closure of the root, the inspected syntax is whole, and  *)
(* the verdict is the one the request deserves, for every distribution and *)
(* whatever other calls do in between.                                     *)
(*                                                                         *)
(* The inductive invariant says of each point of compile_inner what the    *)
(* call has found out so far about its own request, r; s is the state of   *)
(* the call.                                                               *)
(***************************************************************************)

(* The first file of a path among the first n counts.                      *)
FirstFile(r, path, i) == /\ i \in DOMAIN r.files
                         /\ r.files[i].path = path
                         /\ \A j \in 1..(i - 1) : r.files[j].path # path

FileEntry(r, i) == [source |-> i, imports |-> r.files[i].imports,
                    clean |-> r.files[i].clean, large |-> r.files[i].large,
                    authenticated |-> FALSE]

ModuleEntry(path) == [source |-> 0, imports |-> Distribution[path], clean |-> TRUE,
                      large |-> FALSE, authenticated |-> TRUE]

EarlyPaths(r, n) == {r.files[i].path : i \in 1..n}

Captured(r, files, n) ==
  /\ DOMAIN files = EarlyPaths(r, n)
  /\ \A p \in EarlyPaths(r, n) : \E i \in 1..n : FirstFile(r, p, i) /\ files[p] = FileEntry(r, i)

Joined(r, files) ==
  /\ DOMAIN files = Present(r)
  /\ \A p \in Paths(r) :
       \E i \in DOMAIN r.files : FirstFile(r, p, i) /\ files[p] = FileEntry(r, i)
  /\ \A p \in DOMAIN Distribution \ Paths(r) : files[p] = ModuleEntry(p)

(* What the front end has to find clean, in the order in which it looks.   *)
CleanFiles(r, n) == /\ \A i \in 1..n : r.files[i].valid
                    /\ \A i, j \in 1..n : r.files[i].path = r.files[j].path => i = j

CleanSources(r) == /\ CleanFiles(r, Len(r.files))
                   /\ Paths(r) \cap DOMAIN Distribution = {}

CleanModule(r, p) == /\ ImportsOf(r, p) = Follows(r, p)
                     /\ Scanned(r, p)
                     /\ p \in Paths(r) => FileAt(r, p).clean

(* Inspected files so far, each once unless it is one of the closure.      *)
Reachable(r, s, i) == /\ r.files[i].path \in s.parsed
                      /\ \A j \in 1..(i - 1) : r.files[j].path # r.files[i].path

Shown(r, s, n) == /\ s.syntax \in Seq(1..n)
                  /\ \A k, l \in DOMAIN s.syntax : s.syntax[k] = s.syntax[l] => k = l
                  /\ \A i \in 1..n : ~ Reachable(r, s, i) <=> \E k \in DOMAIN s.syntax : s.syntax[k] = i

Untouched(s) == s.parsed = {} /\ s.syntax = <<>>

AtStart(r, s) == s.index = 1 /\ s.files = <<>> /\ s.pending = {} /\ s.diagnostics = {}

AtIngest(r, s) == /\ s.index \in 1..(Len(r.files) + 1)
                  /\ s.pending = {}
                  /\ Captured(r, s.files, s.index - 1)
                  /\ s.diagnostics = {} <=> CleanFiles(r, s.index - 1)

(* Everything known is in the closure, and what a parsed module imports is *)
(* known.                                                                  *)
AtClosure(r, s) ==
  /\ r.root \in Present(r)
  /\ s.parsed \cup s.pending \subseteq Closure(r)
  /\ r.root \in s.parsed \cup s.pending
  /\ \A p \in s.parsed : Follows(r, p) \subseteq s.parsed \cup s.pending
  /\ s.diagnostics = {} <=> CleanSources(r) /\ \A p \in s.parsed : CleanModule(r, p)

AtSelect(r, s)  == FrontEndClean(r) /\ s.diagnostics = {}
AtCatalog(r, s) == s.diagnostics = {} <=> FrontEndClean(r) /\ r.selection \in {"none", "selected"}
AtAnalyze(r, s) == AtCatalog(r, s) /\ r.catalog = "identified"

Whole(r, s) == s.parsed = IF r.root \in Present(r) THEN Closure(r) ELSE {}

Answered(r, s) == /\ Joined(r, s.files)
                  /\ Whole(r, s)
                  /\ s.diagnostics = {} <=> Acceptable(r)

AtSources(r, s) == /\ Answered(r, s)
                   /\ s.index \in 1..(Len(r.files) + 1)
                   /\ Shown(r, s, s.index - 1)

AtEnd(r, s) == /\ s.outcome = "Accepted" <=> Acceptable(r)
               /\ Whole(r, s)
               /\ Joined(r, s.files)
               /\ r.inspectsSyntax => Shown(r, s, Len(r.files))

Answer(r, s) ==
  /\ s.pc \in {"idle", "poll", "ingest", "closure", "select", "catalog", "analyze",
               "sources", "returned"}
  /\ s.pc \in {"idle", "poll", "ingest"} => Untouched(s)
  /\ s.pc \in {"closure", "select", "catalog", "analyze"} => s.syntax = <<>> /\ Joined(r, s.files)
  /\ s.pc \in {"select", "catalog", "analyze"} => r.root \in Present(r) /\ s.parsed = Closure(r)
  /\ s.pc \in {"idle", "poll"} => AtStart(r, s)
  /\ s.pc = "ingest"  => AtIngest(r, s)
  /\ s.pc = "closure" => AtClosure(r, s)
  /\ s.pc = "select"  => AtSelect(r, s)
  /\ s.pc = "catalog" => AtCatalog(r, s)
  /\ s.pc = "analyze" => AtAnalyze(r, s)
  /\ s.pc = "sources" => AtSources(r, s)
  /\ s.outcome \in {"Accepted", "Rejected"} => AtEnd(r, s)

Answers == \A c \in Made : Answer(request[c], call[c])

-----------------------------------------------------------------------------
(* Requests.                                                               *)
IsRequest(r) ==
  /\ r.files \in Seq(ProjectFile)
  /\ r.inspectsSyntax \in BOOLEAN
  /\ r.selection \in {"none", "selected", "diagnostic", "defect"}
  /\ r.catalog \in {"identified", "collision"}
  /\ r.analysis \in {"clean", "diagnostic", "defect"}

LEMMA MadeRequests == ASSUME Shape, NEW c \in Made PROVE c \in Call /\ IsRequest(request[c])
  BY WorkloadAssumption DEF Shape, Made, IsRequest

LEMMA FileTypes ==
  ASSUME NEW r, IsRequest(r)
  PROVE  /\ Len(r.files) \in Nat
         /\ DOMAIN r.files = 1..Len(r.files)
         /\ \A i \in DOMAIN r.files : r.files[i] \in ProjectFile
  BY DEF IsRequest

LEMMA EveryPath == ASSUME NEW r, IsRequest(r) PROVE EarlyPaths(r, Len(r.files)) = Paths(r)
  BY FileTypes DEF EarlyPaths, Paths

LEMMA OneFirstFile ==
  ASSUME NEW r, IsRequest(r), NEW p, NEW i, FirstFile(r, p, i), NEW j, FirstFile(r, p, j)
  PROVE  i = j
<1>1. i \in Nat /\ j \in Nat /\ 1 <= i /\ 1 <= j
  BY FileTypes DEF FirstFile
<1>2. ~ (i < j) /\ ~ (j < i)
  BY <1>1 DEF FirstFile
<1> QED
  BY <1>1, <1>2

LEMMA FirstFileCounts ==
  ASSUME NEW r, IsRequest(r), NEW p, NEW i, FirstFile(r, p, i)
  PROVE  p \in Paths(r) /\ FileAt(r, p) = r.files[i]
<1> DEFINE k == CHOOSE k \in DOMAIN r.files :
                  /\ r.files[k].path = p
                  /\ \A j \in 1..(k - 1) : r.files[j].path # p
<1>1. FirstFile(r, p, k)
  BY DEF FirstFile
<1>2. k = i
  <2> HIDE DEF k
  <2> QED
    BY <1>1, OneFirstFile
<1>3. FileAt(r, p) = r.files[k]
  BY DEF FileAt
<1>4. p \in Paths(r)
  BY DEF FirstFile, Paths
<1> QED
  BY <1>2, <1>3, <1>4

(* What the joined files say of a module is what the request says of it.   *)
LEMMA JoinedEntries ==
  ASSUME NEW r, IsRequest(r), NEW files, Joined(r, files), NEW p \in Present(r)
  PROVE  /\ files[p].authenticated <=> Authenticated(r, p)
         /\ files[p].large <=> ~ Scanned(r, p)
         /\ ImportsOf(r, p) = IF files[p].large THEN {} ELSE files[p].imports
         /\ files[p].clean <=> (p \in Paths(r) => FileAt(r, p).clean)
<1>1. CASE p \in Paths(r)
  <2>1. PICK i \in DOMAIN r.files : FirstFile(r, p, i) /\ files[p] = FileEntry(r, i)
    BY <1>1 DEF Joined
  <2>2. FileAt(r, p) = r.files[i]
    BY <2>1, FirstFileCounts
  <2>3. r.files[i].large \in BOOLEAN /\ r.files[i].clean \in BOOLEAN
    BY FileTypes DEF ProjectFile
  <2> QED
    BY <1>1, <2>1, <2>2, <2>3 DEF FileEntry, Authenticated, Scanned, ImportsOf
<1>2. CASE p \notin Paths(r)
  <2>1. files[p] = ModuleEntry(p)
    BY <1>2 DEF Joined, Present
  <2> QED
    BY <1>2, <2>1 DEF ModuleEntry, Authenticated, Scanned, ImportsOf
<1> QED
  BY <1>1, <1>2

-----------------------------------------------------------------------------
(* Ways to return.  What is not published needs no explanation.            *)
LEMMA Withholds ==
  ASSUME Shape, NEW c \in Call, NEW r, NEW kind \in {"Cancelled", "Defect"}, Outcome(c, kind)
  PROVE  Answer(r, call'[c])
<1> DEFINE state == [call[c] EXCEPT !.pc = "returned", !.outcome = kind]
<1>1. call'[c] = state
  BY OneCall DEF Outcome
<1>2. state.pc = "returned" /\ state.outcome = kind
  BY DEF Shape, Idle
<1> QED
  BY <1>1, <1>2 DEF Answer

LEMMA PublishesAnswer ==
  ASSUME Shape, NEW c \in Call, NEW r, NEW from, DOMAIN from = DOMAIN Idle,
         Answered(r, from), r.inspectsSyntax => Shown(r, from, Len(r.files)),
         Publish(c, from)
  PROVE  Answer(r, call'[c])
<1> DEFINE kind  == IF from.diagnostics = {} THEN "Accepted" ELSE "Rejected"
           state == [from EXCEPT !.pc = "returned", !.outcome = kind]
<1>1. call'[c] = state
  BY OneCall DEF Publish
<1>2. /\ state.pc = "returned" /\ state.outcome = kind
      /\ state.files = from.files /\ state.parsed = from.parsed /\ state.syntax = from.syntax
  BY DEF Idle
<1> HIDE DEF state
<1>3. AtEnd(r, state)
  BY <1>2 DEF AtEnd, Answered, Whole, Shown, Reachable
<1> QED
  BY <1>1, <1>2, <1>3 DEF Answer

LEMMA ConcludesAnswer ==
  ASSUME Shape, NEW c \in Call, NEW from, DOMAIN from = DOMAIN Idle, from.outcome = "none",
         IsRequest(request[c]), Answered(request[c], from), from.syntax = <<>>,
         Conclude(c, from)
  PROVE  Answer(request[c], call'[c])
<1> DEFINE r == request[c]
<1>1. CASE r.inspectsSyntax
  <2> DEFINE state == [from EXCEPT !.pc = "sources", !.index = 1]
  <2>1. call'[c] = state
    BY <1>1, OneCall DEF Conclude
  <2>2. /\ state.pc = "sources" /\ state.outcome = "none" /\ state.index = 1
        /\ state.files = from.files /\ state.parsed = from.parsed /\ state.syntax = <<>>
        /\ state.diagnostics = from.diagnostics
    BY DEF Idle
  <2> HIDE DEF state, r
  <2>3. Answered(r, state)
    BY <2>2 DEF r, Answered, Whole
  <2>4. Shown(r, state, state.index - 1)
    BY <2>2 DEF Shown
  <2>5. state.index \in 1..(Len(r.files) + 1)
    BY <2>2, FileTypes DEF r
  <2> QED
    BY <2>1, <2>2, <2>3, <2>4, <2>5 DEF r, Answer, AtSources
<1>2. CASE ~ r.inspectsSyntax
  BY <1>2, PublishesAnswer DEF Conclude
<1> QED
  BY <1>1, <1>2

-----------------------------------------------------------------------------
(* Entering, and the project's files.                                      *)
LEMMA StartAnswers ==
  ASSUME Shape, TypeOK, NEW c \in Made, Answer(request[c], call[c]), Begin(c) \/ Poll(c)
  PROVE  Answer(request[c], call'[c])
<1> DEFINE r == request[c]
<1>1. c \in Call /\ IsRequest(r)
  BY MadeRequests
<1>2. CASE Outcome(c, "Defect") \/ Outcome(c, "Cancelled")
  BY <1>1, <1>2, Withholds
<1>3. CASE Begin(c) /\ Becomes(c, [call[c] EXCEPT !.pc = "poll"])
  <2> DEFINE state == [call[c] EXCEPT !.pc = "poll"]
  <2>1. call'[c] = state
    BY <1>1, <1>3, OneCall
  <2>2. /\ state.pc = "poll" /\ state.outcome = "none" /\ state.index = call[c].index
        /\ state.files = call[c].files /\ state.pending = call[c].pending
        /\ state.parsed = call[c].parsed /\ state.syntax = call[c].syntax
        /\ state.diagnostics = call[c].diagnostics
    BY <1>1, <1>3, Running DEF Shape, Idle, Begin
  <2> HIDE DEF state
  <2>3. Untouched(state) /\ AtStart(r, state)
    BY <1>3, <2>2 DEF Begin, Answer, Untouched, AtStart
  <2> QED
    BY <2>1, <2>2, <2>3 DEF Answer
<1>4. CASE Poll(c) /\ Becomes(c, [call[c] EXCEPT !.pc = "ingest"])
  <2> DEFINE state == [call[c] EXCEPT !.pc = "ingest"]
  <2>1. call'[c] = state
    BY <1>1, <1>4, OneCall
  <2>2. /\ state.pc = "ingest" /\ state.outcome = "none" /\ state.index = call[c].index
        /\ state.files = call[c].files /\ state.pending = call[c].pending
        /\ state.parsed = call[c].parsed /\ state.syntax = call[c].syntax
        /\ state.diagnostics = call[c].diagnostics
    BY <1>1, <1>4, Running DEF Shape, Idle, Poll, Inner
  <2> HIDE DEF state
  <2>3. Untouched(state) /\ AtStart(r, state)
    BY <1>4, <2>2 DEF Poll, Inner, Answer, Untouched, AtStart
  <2>4. AtIngest(r, state)
    <3>1. Captured(r, state.files, 0)
      BY <2>3 DEF AtStart, Captured, EarlyPaths
    <3>2. CleanFiles(r, 0)
      BY DEF CleanFiles
    <3> QED
      BY <1>1, <2>3, <3>1, <3>2, FileTypes DEF AtStart, AtIngest
  <2> QED
    BY <2>1, <2>2, <2>3, <2>4 DEF Answer
<1> QED
  BY <1>2, <1>3, <1>4 DEF Begin, Poll, Checkpoint

LEMMA EarlyPathsGrow ==
  ASSUME NEW r, IsRequest(r), NEW i \in DOMAIN r.files
  PROVE  EarlyPaths(r, i) = EarlyPaths(r, i - 1) \cup {r.files[i].path}
<1>1. i \in Nat /\ 1..i = (1..(i - 1)) \cup {i}
  BY FileTypes
<1> QED
  BY <1>1 DEF EarlyPaths

LEMMA CapturesNext ==
  ASSUME NEW r, IsRequest(r), NEW i \in DOMAIN r.files, NEW files,
         Captured(r, files, i - 1), NEW later,
         later = IF r.files[i].path \in DOMAIN files THEN files
                 ELSE [p \in DOMAIN files \cup {r.files[i].path} |->
                         IF p = r.files[i].path THEN FileEntry(r, i) ELSE files[p]]
  PROVE  Captured(r, later, i)
<1> DEFINE path == r.files[i].path
<1>1. i \in Nat /\ i - 1 \in Nat /\ 1..(i - 1) \subseteq 1..i /\ i \in 1..i
  BY FileTypes
<1>2. DOMAIN files = EarlyPaths(r, i - 1) /\ EarlyPaths(r, i) = DOMAIN files \cup {path}
  BY EarlyPathsGrow DEF Captured
<1>3. DOMAIN later = EarlyPaths(r, i)
  BY <1>2
<1>4. ASSUME NEW p \in EarlyPaths(r, i)
      PROVE  \E k \in 1..i : FirstFile(r, p, k) /\ later[p] = FileEntry(r, k)
  <2>1. CASE p \in DOMAIN files
    <3>1. later[p] = files[p]
      <4>1. CASE path \in DOMAIN files
        BY <2>1, <4>1
      <4>2. CASE path \notin DOMAIN files
        <5>1. p # path
          BY <2>1, <4>2
        <5> QED
          BY <2>1, <4>2, <5>1
      <4> QED
        BY <4>1, <4>2
    <3> QED
      BY <1>1, <1>2, <2>1, <3>1 DEF Captured
  <2>2. CASE p \notin DOMAIN files
    <3>1. p = path
      BY <1>2, <2>2
    <3>2. \A j \in 1..(i - 1) : r.files[j].path # path
      BY <1>2, <2>2, <3>1 DEF EarlyPaths
    <3>3. FirstFile(r, p, i)
      BY <3>1, <3>2 DEF FirstFile
    <3>4. later[p] = FileEntry(r, i)
      BY <2>2, <3>1
    <3> QED
      BY <1>1, <3>3, <3>4
  <2> QED
    BY <2>1, <2>2
<1> QED
  BY <1>3, <1>4 DEF Captured

LEMMA CleanNext ==
  ASSUME NEW r, IsRequest(r), NEW i \in DOMAIN r.files
  PROVE  CleanFiles(r, i) <=> /\ CleanFiles(r, i - 1)
                              /\ r.files[i].path \notin EarlyPaths(r, i - 1)
                              /\ r.files[i].valid
<1>1. i \in Nat /\ 1..i = (1..(i - 1)) \cup {i} /\ i \notin 1..(i - 1)
  BY FileTypes
<1> QED
  BY <1>1 DEF CleanFiles, EarlyPaths

LEMMA IngestAnswers ==
  ASSUME Shape, TypeOK, NEW c \in Made, Answer(request[c], call[c]), Ingest(c)
  PROVE  Answer(request[c], call'[c])
<1> DEFINE r == request[c]
<1>1. c \in Call /\ IsRequest(r)
  BY MadeRequests
<1>2. CASE cancelled[c]
  BY <1>1, <1>2, Withholds DEF Ingest, Checkpoint
<1>3. CASE ~ cancelled[c]
  <2> DEFINE i    == call[c].index
             path == r.files[i].path
             seen == path \in DOMAIN call[c].files
             files == IF seen THEN call[c].files
                      ELSE [p \in DOMAIN call[c].files \cup {path} |->
                              IF p = path THEN FileEntry(r, i) ELSE call[c].files[p]]
             diagnostics == call[c].diagnostics \cup When(seen, <<"duplicate_path", path>>)
                            \cup When(~ r.files[i].valid, <<"invalid_module_path", path>>)
             state == [call[c] EXCEPT !.index = i + 1, !.files = files,
                                      !.diagnostics = diagnostics]
  <2>1. call[c].pc = "ingest" /\ DOMAIN call[c] = DOMAIN Idle /\ call[c].outcome = "none"
    BY <1>1, Running DEF Ingest, Inner, Shape
  <2>2. AtIngest(r, call[c]) /\ Untouched(call[c])
    BY <2>1 DEF Answer
  <2>3. i \in DOMAIN r.files
    <3>1. i <= Len(r.files)
      BY DEF Ingest, Files
    <3>2. i \in 1..(Len(r.files) + 1) /\ Len(r.files) \in Nat /\ DOMAIN r.files = 1..Len(r.files)
      BY <1>1, <2>2, FileTypes DEF AtIngest
    <3> HIDE DEF r, i
    <3> QED
      BY <3>1, <3>2
  <2>4. call'[c] = state
    <3>1. Becomes(c, state)
      BY <1>3, <2>1 DEF Ingest, Checkpoint, Known, Files, FileEntry, Idle
    <3> QED
      BY <1>1, <3>1, OneCall
  <2>5. Captured(r, files, i)
    BY <1>1, <2>2, <2>3, CapturesNext DEF AtIngest
  <2>6. diagnostics = {} <=> CleanFiles(r, i)
    <3>1. diagnostics = {} <=> /\ call[c].diagnostics = {}
                               /\ ~ seen
                               /\ r.files[i].valid
      BY DEF When
    <3>2. DOMAIN call[c].files = EarlyPaths(r, i - 1)
      BY <2>2 DEF AtIngest, Captured
    <3> QED
      BY <1>1, <2>2, <2>3, <3>1, <3>2, CleanNext DEF AtIngest
  <2>7. /\ state.pc = "ingest" /\ state.outcome = "none" /\ state.index = i + 1
        /\ state.files = files /\ state.pending = call[c].pending
        /\ state.parsed = call[c].parsed /\ state.syntax = call[c].syntax
        /\ state.diagnostics = diagnostics
    BY <2>1 DEF Idle
  <2>8. i + 1 \in 1..(Len(r.files) + 1) /\ (i + 1) - 1 = i
    BY <1>1, <2>3, FileTypes
  <2> HIDE DEF state, files, diagnostics, i
  <2>9. AtIngest(r, state) /\ Untouched(state)
    BY <2>2, <2>5, <2>6, <2>7, <2>8 DEF AtIngest, Untouched
  <2> QED
    BY <2>4, <2>7, <2>9 DEF Answer
<1> QED
  BY <1>2, <1>3

-----------------------------------------------------------------------------
(* The authenticated modules join, and the closure begins.                 *)
LEMMA ClosureCloses ==
  ASSUME NEW r, r.root \in Present(r)
  PROVE  /\ Closure(r) \subseteq Present(r)
         /\ r.root \in Closure(r)
         /\ \A p \in Closure(r) : Follows(r, p) \subseteq Closure(r)
<1>1. \A p : Follows(r, p) \subseteq Present(r)
  BY DEF Follows
<1> HIDE DEF Follows
<1> QED
  BY <1>1 DEF Closure

LEMMA ClosureLeast ==
  ASSUME NEW r, NEW S \in SUBSET Present(r), r.root \in S,
         \A q \in S : Follows(r, q) \subseteq S
  PROVE  Closure(r) \subseteq S
  BY DEF Closure

LEMMA JoinsAll ==
  ASSUME NEW r, IsRequest(r), NEW files, Captured(r, files, Len(r.files)),
         NEW all, DOMAIN all = DOMAIN files \cup DOMAIN Distribution,
         \A p \in DOMAIN files : all[p] = files[p],
         \A p \in DOMAIN Distribution \ DOMAIN files : all[p] = ModuleEntry(p)
  PROVE  Joined(r, all)
<1>1. DOMAIN files = Paths(r)
  BY EveryPath DEF Captured
<1>2. DOMAIN all = Present(r)
  BY <1>1 DEF Present
<1>3. ASSUME NEW p \in Paths(r)
      PROVE  \E i \in DOMAIN r.files : FirstFile(r, p, i) /\ all[p] = FileEntry(r, i)
  <2>1. p \in EarlyPaths(r, Len(r.files)) /\ all[p] = files[p]
    BY <1>1, EveryPath
  <2> QED
    BY <2>1 DEF Captured, FirstFile
<1> QED
  BY <1>1, <1>2, <1>3 DEF Joined

LEMMA JoinAnswers ==
  ASSUME Shape, TypeOK, NEW c \in Made, Answer(request[c], call[c]), Join(c)
  PROVE  Answer(request[c], call'[c])
<1> DEFINE r       == request[c]
           new     == DOMAIN Distribution \ DOMAIN call[c].files
           files   == [p \in DOMAIN call[c].files \cup new |->
                         IF p \in new THEN ModuleEntry(p) ELSE call[c].files[p]]
           shadows == {<<"authenticated_module_shadow", p>> :
                         p \in DOMAIN Distribution \cap DOMAIN call[c].files}
           noted   == call[c].diagnostics \cup shadows
           joined  == [call[c] EXCEPT !.files = files, !.diagnostics = noted]
           begun   == [joined EXCEPT !.pc = "closure", !.pending = {r.root}]
           end     == [joined EXCEPT !.diagnostics = noted \cup {<<"missing_root", r.root>>}]
<1>1. c \in Call /\ IsRequest(r)
  BY MadeRequests
<1>2. call[c].pc = "ingest" /\ DOMAIN call[c] = DOMAIN Idle /\ call[c].outcome = "none"
  BY <1>1, Running DEF Join, Inner, Shape
<1>3. AtIngest(r, call[c]) /\ Untouched(call[c])
  BY <1>2 DEF Answer
<1>4. call[c].index - 1 = Len(r.files)
  <2>1. call[c].index > Len(r.files)
    BY DEF Join, Files
  <2>2. call[c].index \in 1..(Len(r.files) + 1) /\ Len(r.files) \in Nat
    BY <1>1, <1>3, FileTypes DEF AtIngest
  <2> HIDE DEF r
  <2> QED
    BY <2>1, <2>2
<1>5. Captured(r, call[c].files, Len(r.files))
  BY <1>3, <1>4 DEF AtIngest
<1>6. Joined(r, files)
  <2>1. /\ DOMAIN files = DOMAIN call[c].files \cup DOMAIN Distribution
        /\ \A p \in DOMAIN call[c].files : files[p] = call[c].files[p]
        /\ \A p \in DOMAIN Distribution \ DOMAIN call[c].files : files[p] = ModuleEntry(p)
    OBVIOUS
  <2> HIDE DEF files, r
  <2> QED
    BY <1>1, <1>5, <2>1, JoinsAll
<1>7. noted = {} <=> CleanSources(r)
  <2>1. DOMAIN call[c].files = Paths(r)
    BY <1>1, <1>5, EveryPath DEF Captured
  <2>2. call[c].diagnostics = {} <=> CleanFiles(r, Len(r.files))
    BY <1>3, <1>4 DEF AtIngest
  <2>3. shadows = {} <=> DOMAIN Distribution \cap DOMAIN call[c].files = {}
    OBVIOUS
  <2> QED
    BY <2>1, <2>2, <2>3 DEF CleanSources
<1>8. DOMAIN files = Present(r)
  BY <1>6 DEF Joined
<1>9. IF r.root \in Present(r) THEN Becomes(c, begun) ELSE Conclude(c, end)
  <2>1. IF r.root \in DOMAIN files THEN Becomes(c, begun) ELSE Conclude(c, end)
    BY <1>2 DEF Join, Known, ModuleEntry, Idle
  <2> QED
    BY <1>8, <2>1
<1>10. /\ DOMAIN joined = DOMAIN Idle /\ joined.outcome = "none" /\ joined.pc = "ingest"
       /\ joined.files = files /\ joined.diagnostics = noted
       /\ joined.parsed = {} /\ joined.syntax = <<>>
  BY <1>2, <1>3 DEF Idle, Untouched
<1>11. CASE r.root \in Present(r)
  <2>1. call'[c] = begun
    BY <1>1, <1>9, <1>11, OneCall
  <2>2. /\ begun.pc = "closure" /\ begun.outcome = "none" /\ begun.files = files
        /\ begun.pending = {r.root} /\ begun.parsed = {} /\ begun.syntax = <<>>
        /\ begun.diagnostics = noted
    BY <1>10 DEF Idle
  <2> HIDE DEF begun, noted, files, r
  <2>3. AtClosure(r, begun)
    BY <1>7, <1>11, <2>2, ClosureCloses DEF AtClosure
  <2> QED
    BY <1>6, <2>1, <2>2, <2>3 DEF Answer, r
<1>12. CASE r.root \notin Present(r)
  <2>1. /\ DOMAIN end = DOMAIN Idle /\ end.outcome = "none" /\ end.files = files
        /\ end.parsed = {} /\ end.syntax = <<>> /\ end.diagnostics # {}
    BY <1>10 DEF Idle
  <2> HIDE DEF end, noted, files
  <2>2. Answered(r, end)
    BY <1>6, <1>12, <2>1 DEF Answered, Whole, Acceptable, FrontEndClean
  <2> QED
    BY <1>1, <1>9, <1>12, <2>1, <2>2, ConcludesAnswer
<1> QED
  BY <1>11, <1>12

-----------------------------------------------------------------------------
(* The closure.                                                            *)
LEMMA ParsesLarge ==
  ASSUME NEW r, NEW p, ~ Scanned(r, p) PROVE Follows(r, p) = {} /\ ~ CleanModule(r, p)
  BY DEF Follows, ImportsOf, CleanModule

LEMMA ParsesModule ==
  ASSUME NEW c, IsRequest(request[c]), Joined(request[c], call[c].files),
         NEW path \in Present(request[c]), ~ call[c].files[path].large
  PROVE  /\ (Imports(c, path) \cap Known(c)) \ Forbidden(c, path) = Follows(request[c], path)
         /\ ParseDiagnostics(c, path) = {} <=> CleanModule(request[c], path)
<1> DEFINE r == request[c]
<1>1. Known(c) = Present(r)
  BY DEF Known, Joined
<1>2. /\ call[c].files[path].authenticated <=> Authenticated(r, path)
      /\ Scanned(r, path)
      /\ Imports(c, path) = ImportsOf(r, path)
      /\ call[c].files[path].clean <=> (path \in Paths(r) => FileAt(r, path).clean)
  BY JoinedEntries DEF Imports
<1>3. \A p \in Present(r) : call[c].files[p].authenticated <=> Authenticated(r, p)
  BY JoinedEntries
<1>4. (Imports(c, path) \cap Known(c)) \ Forbidden(c, path) = Follows(r, path)
  BY <1>1, <1>2, <1>3 DEF Follows, Forbidden
<1>5. ParseDiagnostics(c, path) = {} <=> /\ Forbidden(c, path) = {}
                                         /\ Imports(c, path) \subseteq Known(c)
                                         /\ call[c].files[path].clean
  BY DEF ParseDiagnostics, When
<1>6. Imports(c, path) = Follows(r, path) <=> /\ Forbidden(c, path) = {}
                                              /\ Imports(c, path) \subseteq Known(c)
  BY <1>4 DEF Forbidden
<1> QED
  BY <1>2, <1>4, <1>5, <1>6 DEF CleanModule

LEMMA ParseAnswers ==
  ASSUME Shape, TypeOK, NEW c \in Made, Answer(request[c], call[c]), NEW path, Parse(c, path)
  PROVE  Answer(request[c], call'[c])
<1> DEFINE r     == request[c]
           rest  == call[c].pending \ {path}
           found == (Imports(c, path) \cap Known(c)) \ Forbidden(c, path)
           read  == call[c].parsed \cup {path}
           noted == call[c].diagnostics \cup ParseDiagnostics(c, path)
           skip  == [call[c] EXCEPT !.pending = rest]
           large == [call[c] EXCEPT !.pending = rest, !.parsed = read,
                                    !.diagnostics = Diagnosed(c, "source_too_large", path)]
           next  == [call[c] EXCEPT !.pending = rest \cup found, !.parsed = read,
                                    !.diagnostics = noted]
<1>1. c \in Call /\ IsRequest(r)
  BY MadeRequests
<1>2. call[c].pc = "closure" /\ DOMAIN call[c] = DOMAIN Idle /\ call[c].outcome = "none"
  BY <1>1, Running DEF Parse, Inner, Shape
<1>3. AtClosure(r, call[c]) /\ Joined(r, call[c].files) /\ call[c].syntax = <<>>
  BY <1>2 DEF Answer
<1>4. path \in call[c].pending /\ path \in Closure(r) /\ path \in Present(r)
  BY <1>3, ClosureCloses DEF Parse, IsFirst, AtClosure
<1>5. call[c].files[path].large <=> ~ Scanned(r, path)
  BY <1>1, <1>3, <1>4, JoinedEntries
<1>6. ASSUME NEW state, Becomes(c, state), state.pc = "closure", state.outcome = "none",
             state.files = call[c].files, state.syntax = call[c].syntax, AtClosure(r, state)
      PROVE  Answer(r, call'[c])
  <2>1. call'[c] = state
    BY <1>1, <1>6, OneCall
  <2> QED
    BY <1>3, <1>6, <2>1 DEF Answer
<1>7. CASE path \in call[c].parsed
  <2>1. Becomes(c, skip)
    BY <1>7 DEF Parse
  <2>2. /\ skip.pc = "closure" /\ skip.outcome = "none" /\ skip.files = call[c].files
        /\ skip.syntax = call[c].syntax /\ skip.pending = rest
        /\ skip.parsed = call[c].parsed /\ skip.diagnostics = call[c].diagnostics
    BY <1>2 DEF Idle
  <2> HIDE DEF skip, r
  <2>3. AtClosure(r, skip)
    BY <1>3, <1>7, <2>2 DEF AtClosure
  <2> QED
    BY <1>6, <2>1, <2>2, <2>3 DEF r
<1>8. CASE path \notin call[c].parsed /\ call[c].files[path].large
  <2>1. Becomes(c, large)
    BY <1>8 DEF Parse
  <2>2. /\ large.pc = "closure" /\ large.outcome = "none" /\ large.files = call[c].files
        /\ large.syntax = call[c].syntax /\ large.pending = rest /\ large.parsed = read
        /\ large.diagnostics # {}
    BY <1>2 DEF Idle, Diagnosed
  <2>3. Follows(r, path) = {} /\ ~ CleanModule(r, path)
    BY <1>5, <1>8, ParsesLarge
  <2> HIDE DEF large, r
  <2>4. AtClosure(r, large)
    BY <1>3, <1>4, <2>2, <2>3 DEF AtClosure
  <2> QED
    BY <1>6, <2>1, <2>2, <2>4 DEF r
<1>9. CASE path \notin call[c].parsed /\ ~ call[c].files[path].large
  <2>1. (cancelled[c] /\ Outcome(c, "Cancelled")) \/ Becomes(c, next)
    BY <1>9 DEF Parse, Checkpoint
  <2>2. /\ next.pc = "closure" /\ next.outcome = "none" /\ next.files = call[c].files
        /\ next.syntax = call[c].syntax /\ next.pending = rest \cup found
        /\ next.parsed = read /\ next.diagnostics = noted
    BY <1>2 DEF Idle
  <2>3. found = Follows(r, path) /\ (ParseDiagnostics(c, path) = {} <=> CleanModule(r, path))
    BY <1>1, <1>3, <1>4, <1>9, ParsesModule
  <2>4. found \subseteq Closure(r)
    BY <1>3, <1>4, <2>3, ClosureCloses DEF AtClosure
  <2> HIDE DEF next, found, r
  <2>5. AtClosure(r, next)
    BY <1>3, <1>4, <2>2, <2>3, <2>4 DEF AtClosure
  <2> QED
    BY <1>1, <1>6, <2>1, <2>2, <2>5, Withholds DEF r
<1> QED
  BY <1>7, <1>8, <1>9

LEMMA FiniteProgram == ASSUME NEW r, IsRequest(r) PROVE IsFiniteSet(Present(r))
<1> DEFINE path == [i \in DOMAIN r.files |-> r.files[i].path]
<1>1. IsFiniteSet(DOMAIN r.files)
  BY FileTypes, FS_Interval
<1>2. IsFiniteSet({path[i] : i \in DOMAIN r.files})
  BY <1>1, FiniteImage
<1>3. {path[i] : i \in DOMAIN r.files} = Paths(r)
  BY DEF Paths
<1> QED
  BY <1>2, <1>3, DistributionAssumption, FS_Union DEF Present, Paths

(* The import graph has a cycle when it is not layered.                    *)
LEMMA CycleFound ==
  ASSUME NEW c, IsRequest(request[c]), Joined(request[c], call[c].files),
         request[c].root \in Present(request[c]),
         call[c].parsed = Closure(request[c])
  PROVE  HasCycle(c) <=> ~ Layered(request[c], Closure(request[c]))
<1> DEFINE r == request[c]
           V == call[c].parsed
           e == [p \in V |-> Edges(c, p)]
<1>1. V \subseteq Present(r) /\ IsFiniteSet(V)
  <2>1. V \subseteq Present(r)
    BY ClosureCloses
  <2> QED
    BY <2>1, FiniteProgram, FS_Subset
<1>2. e \in [V -> SUBSET V]
  BY DEF Edges
<1>3. ASSUME NEW p \in V PROVE e[p] = ImportsOf(r, p) \cap V
  BY <1>1, JoinedEntries DEF Edges, Imports
<1>4. ASSUME NEW p \in V PROVE Reaches(c, p) = Reach(e, p)
  BY DEF Reaches, Reach
<1>5. HasCycle(c) <=> \E p \in V : p \in Reach(e, p)
  <2>1. ASSUME NEW p \in V
        PROVE  Cardinality(Component(c, p)) > 1 \/ p \in Edges(c, p) <=> p \in Reach(e, p)
    <3>1. Component(c, p) = {p} \cup {q \in Reach(e, p) : p \in Reach(e, q)}
      BY <1>2, <1>4, ReachCloses DEF Component
    <3>2. Edges(c, p) = e[p]
      OBVIOUS
    <3> HIDE DEF e, V
    <3> QED
      BY <1>1, <1>2, <3>1, <3>2, CyclicNode
  <2> QED
    BY <2>1 DEF HasCycle
<1>6. (\E T \in SUBSET V : T # {} /\ \A p \in T : e[p] \cap T # {}) <=> ~ Layered(r, V)
  <2>1. ASSUME NEW T \in SUBSET V, NEW p \in T
        PROVE  e[p] \cap T = ImportsOf(r, p) \cap T
    BY <1>3
  <2> HIDE DEF e, V
  <2> QED
    BY <2>1 DEF Layered
<1>7. (\E p \in V : p \in Reach(e, p))
        <=> \E T \in SUBSET V : T # {} /\ \A p \in T : e[p] \cap T # {}
  <2> HIDE DEF e, V
  <2> QED
    BY <1>1, <1>2, CyclesOrLayers
<1> QED
  BY <1>5, <1>6, <1>7

LEMMA CleanProgram ==
  ASSUME NEW r, IsRequest(r), r.root \in Present(r)
  PROVE  FrontEndClean(r) <=> /\ CleanSources(r)
                              /\ \A p \in Closure(r) : CleanModule(r, p)
                              /\ Layered(r, Closure(r))
  BY FileTypes DEF FrontEndClean, CleanSources, CleanFiles, CleanModule

LEMMA ClosedAnswers ==
  ASSUME Shape, TypeOK, NEW c \in Made, Answer(request[c], call[c]), Closed(c)
  PROVE  Answer(request[c], call'[c])
<1> DEFINE r      == request[c]
           cycles == IF HasCycle(c) THEN Diagnosed(c, "import_cycle", r.root)
                     ELSE call[c].diagnostics
           pc     == IF cycles = {} THEN "select" ELSE "catalog"
           state  == [call[c] EXCEPT !.diagnostics = cycles, !.pc = pc]
<1>1. c \in Call /\ IsRequest(r)
  BY MadeRequests
<1>2. call[c].pc = "closure" /\ DOMAIN call[c] = DOMAIN Idle /\ call[c].outcome = "none"
  BY <1>1, Running DEF Closed, Inner, Shape
<1>3. AtClosure(r, call[c]) /\ Joined(r, call[c].files) /\ call[c].syntax = <<>>
  BY <1>2 DEF Answer
<1>4. call[c].parsed = Closure(r)
  <2>1. call[c].pending = {}
    BY DEF Closed
  <2>2. /\ call[c].parsed \subseteq Closure(r) /\ r.root \in call[c].parsed
        /\ \A p \in call[c].parsed : Follows(r, p) \subseteq call[c].parsed
    BY <1>3, <2>1 DEF AtClosure
  <2>3. Closure(r) \subseteq Present(r)
    BY <1>3, ClosureCloses DEF AtClosure
  <2>4. Closure(r) \subseteq call[c].parsed
    BY <2>2, <2>3, ClosureLeast
  <2> QED
    BY <2>2, <2>4
<1>5. cycles = {} <=> FrontEndClean(r)
  <2>1. HasCycle(c) <=> ~ Layered(r, Closure(r))
    BY <1>1, <1>3, <1>4, CycleFound DEF AtClosure
  <2>2. cycles = {} <=> call[c].diagnostics = {} /\ ~ HasCycle(c)
    BY DEF Diagnosed
  <2> HIDE DEF cycles, r
  <2> QED
    BY <1>1, <1>3, <1>4, <2>1, <2>2, CleanProgram DEF AtClosure
<1>6. call'[c] = state
  <2>1. Becomes(c, state)
    BY DEF Closed
  <2> QED
    BY <1>1, <2>1, OneCall
<1> HIDE DEF cycles
<1>7. /\ state.pc = pc /\ state.outcome = "none" /\ state.files = call[c].files
      /\ state.syntax = <<>> /\ state.parsed = call[c].parsed /\ state.diagnostics = cycles
  BY <1>2, <1>3 DEF Idle
<1> HIDE DEF state
<1>8. CASE cycles = {}
  <2>1. AtSelect(r, state)
    BY <1>5, <1>7, <1>8 DEF AtSelect
  <2> QED
    BY <1>3, <1>4, <1>6, <1>7, <1>8, <2>1 DEF Answer, AtClosure
<1>9. CASE cycles # {}
  <2>1. AtCatalog(r, state)
    BY <1>5, <1>7, <1>9 DEF AtCatalog
  <2> QED
    BY <1>3, <1>4, <1>6, <1>7, <1>9, <2>1 DEF Answer, AtClosure
<1> QED
  BY <1>8, <1>9

-----------------------------------------------------------------------------
(* The phases behind the front end.                                        *)

(* A step of a phase changes the program counter and the diagnostics.      *)
PhaseState(c, state) ==
  /\ DOMAIN state = DOMAIN Idle /\ state.outcome = "none" /\ state.files = call[c].files
  /\ state.parsed = call[c].parsed /\ state.syntax = call[c].syntax

LEMMA SelectAnswers ==
  ASSUME Shape, TypeOK, NEW c \in Made, Answer(request[c], call[c]), Select(c)
  PROVE  Answer(request[c], call'[c])
<1> DEFINE r     == request[c]
           after == [call[c] EXCEPT !.pc = "catalog"]
           noted == [after EXCEPT !.diagnostics = Diagnosed(c, "selection", r.root)]
<1>1. c \in Call /\ IsRequest(r)
  BY MadeRequests
<1>2. call[c].pc = "select" /\ DOMAIN call[c] = DOMAIN Idle /\ call[c].outcome = "none"
  BY <1>1, Running DEF Select, Inner, Shape
<1>3. /\ AtSelect(r, call[c]) /\ Joined(r, call[c].files) /\ call[c].syntax = <<>>
      /\ r.root \in Present(r) /\ call[c].parsed = Closure(r)
  BY <1>2 DEF Answer
<1>4. \/ Outcome(c, "Cancelled") \/ Outcome(c, "Defect")
      \/ r.selection \in {"none", "selected"} /\ Becomes(c, after)
      \/ r.selection = "diagnostic" /\ Becomes(c, noted)
  BY <1>1 DEF Select, Checkpoint, IsRequest
<1>5. CASE Outcome(c, "Cancelled") \/ Outcome(c, "Defect")
  BY <1>1, <1>5, Withholds
<1>6. ASSUME NEW state, Becomes(c, state), PhaseState(c, state), state.pc = "catalog",
             AtCatalog(r, state)
      PROVE  Answer(r, call'[c])
  <2>1. call'[c] = state
    BY <1>1, <1>6, OneCall
  <2> QED
    BY <1>3, <1>6, <2>1 DEF Answer, PhaseState
<1>7. CASE r.selection \in {"none", "selected"} /\ Becomes(c, after)
  <2>1. PhaseState(c, after) /\ after.pc = "catalog" /\ after.diagnostics = call[c].diagnostics
    BY <1>2 DEF Idle, PhaseState
  <2> HIDE DEF after, r
  <2>2. AtCatalog(r, after)
    BY <1>3, <1>7, <2>1 DEF AtSelect, AtCatalog
  <2> QED
    BY <1>6, <1>7, <2>1, <2>2 DEF r
<1>8. CASE r.selection = "diagnostic" /\ Becomes(c, noted)
  <2>1. PhaseState(c, noted) /\ noted.pc = "catalog" /\ noted.diagnostics # {}
    BY <1>2 DEF Idle, PhaseState, Diagnosed
  <2> HIDE DEF noted, r
  <2>2. AtCatalog(r, noted)
    BY <1>8, <2>1 DEF AtCatalog
  <2> QED
    BY <1>6, <1>8, <2>1, <2>2 DEF r
<1> QED
  BY <1>4, <1>5, <1>7, <1>8

LEMMA CatalogAnswers ==
  ASSUME Shape, TypeOK, NEW c \in Made, Answer(request[c], call[c]), Catalog(c)
  PROVE  Answer(request[c], call'[c])
<1> DEFINE r     == request[c]
           state == [call[c] EXCEPT !.pc = "analyze"]
<1>1. c \in Call /\ IsRequest(r)
  BY MadeRequests
<1>2. call[c].pc = "catalog" /\ DOMAIN call[c] = DOMAIN Idle /\ call[c].outcome = "none"
  BY <1>1, Running DEF Catalog, Inner, Shape
<1>3. /\ AtCatalog(r, call[c]) /\ Joined(r, call[c].files) /\ call[c].syntax = <<>>
      /\ r.root \in Present(r) /\ call[c].parsed = Closure(r)
  BY <1>2 DEF Answer
<1>4. \/ Outcome(c, "Cancelled") \/ Outcome(c, "Defect")
      \/ r.catalog = "identified" /\ Becomes(c, state)
  BY <1>1 DEF Catalog, Checkpoint, IsRequest
<1>5. CASE Outcome(c, "Cancelled") \/ Outcome(c, "Defect")
  BY <1>1, <1>5, Withholds
<1>6. CASE r.catalog = "identified" /\ Becomes(c, state)
  <2>1. PhaseState(c, state) /\ state.pc = "analyze" /\ state.diagnostics = call[c].diagnostics
    BY <1>2 DEF Idle, PhaseState
  <2>2. call'[c] = state
    BY <1>1, <1>6, OneCall
  <2> HIDE DEF state, r
  <2>3. AtAnalyze(r, state)
    BY <1>3, <1>6, <2>1 DEF AtAnalyze, AtCatalog
  <2> QED
    BY <1>3, <2>1, <2>2, <2>3 DEF Answer, PhaseState, r
<1> QED
  BY <1>4, <1>5, <1>6

LEMMA AnalyzeAnswers ==
  ASSUME Shape, TypeOK, NEW c \in Made, Answer(request[c], call[c]), Analyze(c)
  PROVE  Answer(request[c], call'[c])
<1> DEFINE r     == request[c]
           noted == [call[c] EXCEPT !.diagnostics = Diagnosed(c, "semantic", r.root)]
<1>1. c \in Call /\ IsRequest(r)
  BY MadeRequests
<1>2. call[c].pc = "analyze" /\ DOMAIN call[c] = DOMAIN Idle /\ call[c].outcome = "none"
  BY <1>1, Running DEF Analyze, Inner, Shape
<1>3. /\ AtAnalyze(r, call[c]) /\ Joined(r, call[c].files) /\ call[c].syntax = <<>>
      /\ r.root \in Present(r) /\ call[c].parsed = Closure(r)
  BY <1>2 DEF Answer
<1>4. \/ Outcome(c, "Cancelled") \/ Outcome(c, "Defect")
      \/ r.analysis = "diagnostic" /\ Conclude(c, noted)
      \/ r.analysis = "clean" /\ Conclude(c, call[c])
  BY <1>1 DEF Analyze, Checkpoint, IsRequest
<1>5. CASE Outcome(c, "Cancelled") \/ Outcome(c, "Defect")
  BY <1>1, <1>5, Withholds
<1>6. CASE r.analysis = "diagnostic" /\ Conclude(c, noted)
  <2>1. PhaseState(c, noted) /\ noted.diagnostics # {}
    BY <1>2 DEF Idle, PhaseState, Diagnosed
  <2> HIDE DEF noted
  <2>2. Answered(r, noted)
    BY <1>3, <1>6, <2>1 DEF Answered, Whole, PhaseState, Acceptable
  <2> QED
    BY <1>1, <1>3, <1>6, <2>1, <2>2, ConcludesAnswer DEF PhaseState
<1>7. CASE r.analysis = "clean" /\ Conclude(c, call[c])
  <2>1. Answered(r, call[c])
    BY <1>3, <1>7 DEF Answered, Whole, AtAnalyze, AtCatalog, Acceptable
  <2> QED
    BY <1>1, <1>2, <1>3, <1>7, <2>1, ConcludesAnswer
<1> QED
  BY <1>4, <1>5, <1>6, <1>7

-----------------------------------------------------------------------------
(* Inspected syntax.                                                       *)
LEMMA ShowsNext ==
  ASSUME NEW r, NEW i \in Nat \ {0}, NEW s, Shown(r, s, i - 1), NEW t,
         t.parsed = s.parsed,
         t.syntax = IF Reachable(r, s, i) THEN s.syntax ELSE Append(s.syntax, i)
  PROVE  Shown(r, t, i)
<1>1. /\ s.syntax \in Seq(1..(i - 1))
      /\ \A k, l \in DOMAIN s.syntax : s.syntax[k] = s.syntax[l] => k = l
      /\ \A n \in 1..(i - 1) :
           ~ Reachable(r, s, n) <=> \E k \in DOMAIN s.syntax : s.syntax[k] = n
  BY DEF Shown
<1>2. \A n : Reachable(r, t, n) <=> Reachable(r, s, n)
  BY DEF Reachable
<1>3. 1..i = (1..(i - 1)) \cup {i} /\ i \notin 1..(i - 1)
  OBVIOUS
<1>4. Len(s.syntax) \in Nat /\ DOMAIN s.syntax = 1..Len(s.syntax)
  BY <1>1
<1>5. \A k \in DOMAIN s.syntax : s.syntax[k] \in 1..(i - 1)
  BY <1>1
<1>6. CASE Reachable(r, s, i)
  <2>1. t.syntax = s.syntax
    BY <1>6
  <2>2. t.syntax \in Seq(1..i)
    BY <1>3, <1>4, <1>5, <2>1, <1>1
  <2> QED
    BY <1>1, <1>2, <1>3, <1>5, <1>6, <2>1, <2>2 DEF Shown
<1>7. CASE ~ Reachable(r, s, i)
  <2> DEFINE n == Len(s.syntax) + 1
  <2>1. t.syntax = Append(s.syntax, i)
    BY <1>7
  <2>2. /\ DOMAIN t.syntax = (DOMAIN s.syntax) \cup {n}
        /\ n \notin DOMAIN s.syntax
        /\ t.syntax[n] = i
        /\ \A k \in DOMAIN s.syntax : t.syntax[k] = s.syntax[k]
    BY <1>1, <1>4, <2>1
  <2>3. t.syntax \in Seq(1..i)
    <3>1. s.syntax \in Seq(1..i)
      BY <1>1, <1>3, <1>4, <1>5
    <3>2. i \in 1..i
      OBVIOUS
    <3>3. Append(s.syntax, i) \in Seq(1..i)
      BY <3>1, <3>2
    <3> QED
      BY <2>1, <3>3
  <2> HIDE DEF n
  <2>4. ASSUME NEW k \in DOMAIN t.syntax, NEW l \in DOMAIN t.syntax,
               t.syntax[k] = t.syntax[l]
        PROVE  k = l
    <3>1. \A m \in DOMAIN s.syntax : t.syntax[m] # i
      BY <1>3, <1>5, <2>2
    <3>2. CASE k = n \/ l = n
      BY <2>2, <2>4, <3>1, <3>2
    <3>3. CASE k # n /\ l # n
      BY <1>1, <2>2, <2>4, <3>3
    <3> QED
      BY <3>2, <3>3
  <2>5. \A m \in 1..i : ~ Reachable(r, t, m) <=> \E k \in DOMAIN t.syntax : t.syntax[k] = m
    BY <1>1, <1>2, <1>3, <1>5, <1>7, <2>2
  <2> QED
    BY <2>3, <2>4, <2>5 DEF Shown
<1> QED
  BY <1>6, <1>7

LEMMA ReachableFiles ==
  ASSUME NEW c, IsRequest(request[c]), Joined(request[c], call[c].files),
         NEW i \in DOMAIN Files(c)
  PROVE  IsReachable(c, i) <=> Reachable(request[c], call[c], i)
<1> DEFINE r    == request[c]
           path == r.files[i].path
<1>1. path \in Paths(r)
  BY DEF Paths, Files
<1>2. PICK k \in DOMAIN r.files : FirstFile(r, path, k) /\ call[c].files[path] = FileEntry(r, k)
  BY <1>1 DEF Joined
<1>3. call[c].files[path].source = k
  BY <1>2 DEF FileEntry
<1>4. k = i <=> FirstFile(r, path, i)
  BY <1>2, OneFirstFile
<1>5. FirstFile(r, path, i) <=> \A j \in 1..(i - 1) : r.files[j].path # path
  BY DEF FirstFile, Files
<1> QED
  BY <1>3, <1>4, <1>5 DEF IsReachable, Reachable, Files

LEMMA ObserveAnswers ==
  ASSUME Shape, TypeOK, NEW c \in Made, Answer(request[c], call[c]), Observe(c)
  PROVE  Answer(request[c], call'[c])
<1> DEFINE r    == request[c]
           i    == call[c].index
           skip == [call[c] EXCEPT !.index = i + 1]
           seen == [skip EXCEPT !.syntax = Append(call[c].syntax, i)]
<1>1. c \in Call /\ IsRequest(r)
  BY MadeRequests
<1>2. call[c].pc = "sources" /\ DOMAIN call[c] = DOMAIN Idle /\ call[c].outcome = "none"
  BY <1>1, Running DEF Observe, Inner, Shape
<1>3. AtSources(r, call[c])
  BY <1>2 DEF Answer
<1>4. i \in DOMAIN r.files /\ i \in Nat \ {0} /\ i + 1 \in 1..(Len(r.files) + 1) /\ (i + 1) - 1 = i
  <2>1. i <= Len(r.files)
    BY DEF Observe, Files
  <2>2. i \in 1..(Len(r.files) + 1)
    BY <1>3 DEF AtSources
  <2> HIDE DEF i, r
  <2> QED
    BY <1>1, <2>1, <2>2, FileTypes
<1>5. IsReachable(c, i) <=> Reachable(r, call[c], i)
  BY <1>1, <1>3, <1>4, ReachableFiles DEF AtSources, Answered, Files
<1>6. \/ Outcome(c, "Cancelled")
      \/ Becomes(c, IF IsReachable(c, i) THEN skip ELSE seen)
  <2>1. seen = [[call[c] EXCEPT !.index = i + 1] EXCEPT !.syntax = Append(skip.syntax, i)]
    BY <1>2 DEF Idle
  <2> QED
    BY <2>1 DEF Observe, Checkpoint
<1>7. CASE Outcome(c, "Cancelled")
  BY <1>1, <1>7, Withholds
<1>8. CASE Becomes(c, IF IsReachable(c, i) THEN skip ELSE seen)
  <2> DEFINE state == IF IsReachable(c, i) THEN skip ELSE seen
  <2>1. call'[c] = state
    BY <1>1, <1>8, OneCall
  <2>2. /\ state.pc = "sources" /\ state.outcome = "none" /\ state.index = i + 1
        /\ state.files = call[c].files /\ state.parsed = call[c].parsed
        /\ state.diagnostics = call[c].diagnostics
        /\ state.syntax = IF IsReachable(c, i) THEN call[c].syntax ELSE Append(call[c].syntax, i)
    BY <1>2 DEF Idle
  <2> HIDE DEF state, i, r
  <2>3. Answered(r, state)
    BY <1>3, <2>2 DEF AtSources, Answered, Whole
  <2>4. Shown(r, state, i)
    BY <1>3, <1>4, <1>5, <2>2, ShowsNext DEF AtSources, i
  <2> QED
    BY <1>4, <2>1, <2>2, <2>3, <2>4 DEF Answer, AtSources, r
<1> QED
  BY <1>6, <1>7, <1>8

LEMMA EndObserveAnswers ==
  ASSUME Shape, TypeOK, NEW c \in Made, Answer(request[c], call[c]), EndObserve(c)
  PROVE  Answer(request[c], call'[c])
<1> DEFINE r == request[c]
<1>1. c \in Call /\ IsRequest(r)
  BY MadeRequests
<1>2. call[c].pc = "sources" /\ DOMAIN call[c] = DOMAIN Idle
  BY <1>1 DEF EndObserve, Inner, Shape
<1>3. AtSources(r, call[c])
  BY <1>2 DEF Answer
<1>4. call[c].index - 1 = Len(r.files)
  <2>1. call[c].index > Len(r.files)
    BY DEF EndObserve, Files
  <2>2. call[c].index \in 1..(Len(r.files) + 1) /\ Len(r.files) \in Nat
    BY <1>1, <1>3, FileTypes DEF AtSources
  <2> HIDE DEF r
  <2> QED
    BY <2>1, <2>2
<1>5. Publish(c, call[c])
  BY DEF EndObserve
<1> QED
  BY <1>1, <1>2, <1>3, <1>4, <1>5, PublishesAnswer DEF AtSources

-----------------------------------------------------------------------------
(* Every step keeps the answers, and what other calls do changes none.     *)
LEMMA CompileAnswers ==
  ASSUME Shape, TypeOK, NEW c \in Made, Answer(request[c], call[c]), Compile(c)
  PROVE  Answer(request[c], call'[c])
<1>1. CASE Begin(c) \/ Poll(c)
  BY <1>1, StartAnswers
<1>2. CASE FrontEnd(c)
  BY <1>2, IngestAnswers, JoinAnswers, ParseAnswers, ClosedAnswers DEF FrontEnd
<1>3. CASE BackEnd(c)
  BY <1>3, SelectAnswers, CatalogAnswers, AnalyzeAnswers, ObserveAnswers,
     EndObserveAnswers DEF BackEnd
<1> QED
  BY <1>1, <1>2, <1>3 DEF Compile

(* A step of one call changes no request and no other call.                *)
LEMMA OneCallSteps ==
  ASSUME IInv, NEW c \in Made, Compile(c) \/ Panic(c)
  PROVE  request' = request /\ \A d \in Made \ {c} : call'[d] = call[d]
<1>1. c \in Call /\ Made \subseteq Call
  BY MadeCalls DEF IInv
<1>2. CASE Begin(c)
  <2>1. PICK state : Becomes(c, state)
    BY <1>2 DEF Begin, Outcome
  <2> QED
    BY <1>1, <1>2, <2>1, OneCall DEF Begin, IInv
<1>3. CASE Panic(c)
  BY <1>1, <1>3, OneCall DEF Panic, Outcome, IInv
<1>4. CASE Poll(c) \/ FrontEnd(c) \/ BackEnd(c)
  BY <1>1, <1>4, CompileAdvances DEF Advances, IInv
<1> QED
  BY <1>2, <1>3, <1>4 DEF Compile

LEMMA AnswersInitially == Init => Answers
<1> SUFFICES ASSUME Init, NEW c \in Made PROVE Answer(request[c], call[c])
  BY DEF Answers
<1>1. call[c] = Idle
  BY MadeCalls DEF Init, Shape
<1> QED
  BY <1>1 DEF Idle, Answer, Untouched, AtStart

LEMMA AnswersInductive == IInv /\ Answers /\ [Next]_vars => Answers'
<1> SUFFICES ASSUME IInv, Answers, [Next]_vars PROVE Answers'
  OBVIOUS
<1>1. ASSUME NEW c \in Made, Compile(c) \/ Panic(c) PROVE Answers'
  <2>1. request' = request /\ \A d \in Made \ {c} : call'[d] = call[d]
    BY <1>1, OneCallSteps
  <2>2. c \in Call
    BY MadeCalls DEF IInv
  <2>3. Answer(request[c], call'[c])
    BY <1>1, <2>2, CompileAnswers, Withholds DEF IInv, Answers, Panic
  <2>4. \A d \in Made : Answer(request[d], call'[d])
    BY <2>1, <2>3 DEF Answers
  <2> QED
    BY <2>1, <2>4 DEF Answers, Made
<1>2. CASE UNCHANGED <<request, call>>
  BY <1>2 DEF Answers, Made
<1> QED
  BY <1>1, <1>2 DEF Next, vars, Cancel

LEMMA AlwaysAnswers == Spec => [](TypeOK /\ Answers)
<1>1. Init => IInv /\ Answers
  BY Initially, AnswersInitially
<1>2. IInv /\ Answers /\ [Next]_vars => (IInv /\ Answers)'
  BY Inductive, AnswersInductive
<1>3. IInv => TypeOK
  BY DEF IInv
<1> QED
  BY <1>1, <1>2, <1>3, PTL DEF Spec

-----------------------------------------------------------------------------
(* What is published is the closure of the root under imports, however its *)
(* modules were found.  (compiler.rs, parse_reachable.)                    *)
THEOREM PublishesClosure == Spec => []ClosureExact
<1>1. Answers => ClosureExact
  BY DEF Answers, Answer, AtEnd, Whole, ClosureExact, Published
<1> QED
  BY <1>1, AlwaysAnswers, PTL

(* Order of files, other calls, panics elsewhere and late cancellations do *)
(* not change an answer: it is the one the request deserves.  (compiler.rs,*)
(* compile_inner.)                                                         *)
THEOREM AnswersCanonically == Spec => []OutcomeCanonical
<1>1. Answers => OutcomeCanonical
  BY DEF Answers, Answer, AtEnd, OutcomeCanonical, Published
<1> QED
  BY <1>1, AlwaysAnswers, PTL

(* Inspected syntax shows each captured file exactly once.  (compiler.rs,  *)
(* parse_unreachable_project_syntax.)                                      *)
THEOREM ShowsEveryFile == Spec => []SyntaxWhole
<1>1. Answers /\ Shape => SyntaxWhole
  <2> SUFFICES ASSUME Shape, NEW c \in Made, Answer(request[c], call[c]),
                      Published(c), request[c].inspectsSyntax, NEW i \in DOMAIN Files(c)
               PROVE  Cardinality({k \in DOMAIN call[c].syntax : call[c].syntax[k] = i})
                        = IF Reachable(request[c], call[c], i) THEN 0 ELSE 1
    BY DEF Answers, SyntaxWhole, Reachable, Files
  <2> DEFINE shown == {k \in DOMAIN call[c].syntax : call[c].syntax[k] = i}
  <2>1. Shown(request[c], call[c], Len(Files(c)))
    BY DEF Answer, AtEnd, Published, Files
  <2>2. i \in 1..Len(Files(c))
    BY MadeRequests, FileTypes DEF Files
  <2>3. CASE Reachable(request[c], call[c], i)
    <3>1. shown = {}
      BY <2>1, <2>2, <2>3 DEF Shown
    <3> QED
      BY <2>3, <3>1, FS_EmptySet
  <2>4. CASE ~ Reachable(request[c], call[c], i)
    <3>1. PICK k \in DOMAIN call[c].syntax : call[c].syntax[k] = i
      BY <2>1, <2>2, <2>4 DEF Shown
    <3>2. shown = {k}
      BY <2>1, <3>1 DEF Shown
    <3> QED
      BY <2>4, <3>2, FS_Singleton
  <2> QED
    BY <2>3, <2>4
<1>2. IInv => Shape
  BY DEF IInv
<1> QED
  BY <1>1, <1>2, Always, AlwaysAnswers, PTL
=============================================================================
