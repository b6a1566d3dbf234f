--------------------------- MODULE MultiResultProofs ---------------------------
(***************************************************************************)
(* Theorems about MultiResult, for batches of any length.                  *)
(***************************************************************************)
EXTENDS MultiResult, TLAPS

LEMMA MaxOfTwo ==
    ASSUME NEW m \in Nat, NEW n \in Nat
    PROVE  /\ Max({m, n}) = IF m >= n THEN m ELSE n
           /\ Min({m, n}) = IF m <= n THEN m ELSE n
  BY DEF Max, Min

PCs == {"call", "execute", "advance", "at", "result", "failed", "done"}

Outcomes == {"none", "lost", "interrupted", "statement", "ArgumentError", "executed",
             "TypeError", "ValueError", "returned", "close failed"}

Control ==
    /\ pc \in PCs /\ outcome \in Outcomes /\ link \in Links
    /\ mode \in {"none", "script", "skip", "read"}
    /\ cursor \in {"none", "open", "closed"}

Places ==
    /\ Len(batch) \in Nat /\ batch \in [1..Len(batch) -> Statements]
    /\ pos \in 0..(Len(batch) + 1) /\ ran \in 0..Len(batch)

\* The driver has not taken a killed session for the end of the results.
Told == link # "killed" \/ pos <= Len(batch)

\* Where the client is in the batch, by where it is in its code.
PositionInv ==
    /\ pc = "call" => pos = 0 /\ ran = 0 /\ cursor = "none" /\ mode = "none" /\ outcome = "none"
    /\ pc = "execute" => pos = 0
    /\ pc \in {"execute", "advance"} => pos <= Len(batch)
    /\ pc \in {"at", "advance", "result"} => pos > 0
    /\ pc \in {"execute", "at", "advance"} => outcome = "none"
    /\ pc \in {"execute", "at", "advance"} => mode # "none"
    /\ Told => pos <= ran \/ (pos = Len(batch) + 1 /\ ran = Len(batch))

\* The client has left no failed statement behind unnoticed.
CleanInv ==
    Told /\ outcome # "statement" =>
        \A i \in DOMAIN batch : i < pos \/ (i = pos /\ ~batch[i].rowset) => ~batch[i].fails

\* While it skips row counts, it leaves nothing else behind.
SkipInv ==
    Told /\ mode = "skip" /\ call.option = "true" =>
        \A i \in DOMAIN batch : i < pos \/ (i = pos /\ pc = "advance") => ~batch[i].rowset

\* What an outcome says about where the client is.
OutcomeInv ==
    /\ outcome = "executed" =>
           /\ pc \in {"result", "done"} /\ mode = "skip" /\ pos > 0
           /\ call.option = "true" /\ pos <= Len(batch) => batch[pos].rowset
    /\ outcome \in {"returned", "close failed"} => pos > Len(batch)
    /\ outcome = "statement" => \E i \in 1..ran : batch[i].fails
    /\ outcome = "ArgumentError" => ran = 0 /\ cursor = "none"
    /\ outcome \in {"statement", "returned", "close failed", "ArgumentError"} =>
           pc \in {"failed", "done"}
    /\ outcome = "ArgumentError" => pc = "done"

CursorInv ==
    /\ cursor = "closed" => closes = 1
    /\ cursor # "closed" => closes = 0
    /\ pc \in {"execute", "at", "advance"} => cursor = "open"
    /\ pc = "result" => mode = "skip" /\ outcome = "executed"
    /\ pc \in {"result", "failed"} => cursor # "none" /\ mode # "none"
    /\ pc = "failed" /\ mode = "script" => cursor = "open"
    /\ outcome \in {"lost", "interrupted"} => link = "lost"
    /\ mode = "script" /\ pc = "done" /\ outcome \in {"lost", "interrupted"} => cursor = "open"
    /\ pc = "done" /\ cursor = "open" => link = "lost"

IInv == Control /\ Places /\ PositionInv /\ CleanInv /\ SkipInv /\ OutcomeInv /\ CursorInv

LEMMA PlaceFacts ==
    ASSUME Places
    PROVE  /\ pos \in Nat /\ ran \in Nat /\ Len(batch) \in Nat
           /\ pos <= Len(batch) + 1 /\ ran <= Len(batch)
           /\ DOMAIN batch = 1..Len(batch)
           /\ \A i \in DOMAIN batch : i \in Nat /\ i > 0
  BY DEF Places

LEMMA MultiResultInitInv == Init => IInv
  <1> SUFFICES ASSUME Init PROVE IInv
    OBVIOUS
  <1>1. PICK n \in 1..MaxStatements : batch \in [1..n -> Statements]
    BY DEF Init
  <1>2. Len(batch) = n /\ n \in Nat
    <2>1. ASSUME NEW S, NEW k \in Nat, NEW f \in [1..k -> S] PROVE Len(f) = k
      OBVIOUS
    <2> QED
      BY <1>1, <2>1, MultiResultAssumption
  <1>3. Control /\ Places
    BY <1>1, <1>2 DEF Init, Control, Places, PCs, Outcomes, Links
  <1>4. \A i \in DOMAIN batch : i > 0
    BY <1>1, <1>2
  <1>5. PositionInv
    BY <1>2 DEF Init, PositionInv, Told
  <1>6. CleanInv /\ SkipInv
    BY <1>4 DEF Init, CleanInv, SkipInv
  <1>7. OutcomeInv /\ CursorInv
    BY DEF Init, OutcomeInv, CursorInv
  <1> QED
    BY <1>3, <1>5, <1>6, <1>7 DEF IInv

-----------------------------------------------------------------------------
(* The steps.                                                              *)

LEMMA CleanStays ==
    ASSUME CleanInv, UNCHANGED <<batch, pos>>,
           Told' /\ outcome' # "statement" => Told /\ outcome # "statement"
    PROVE  CleanInv'
  BY DEF CleanInv

LEMMA SkipStays ==
    ASSUME SkipInv, UNCHANGED <<call, batch, pos>>,
           Told' /\ mode' = "skip" => Told /\ mode = "skip",
           mode' = "skip" /\ call.option = "true" /\ pc' = "advance" =>
               pc = "advance" \/ ~batch[pos].rowset
    PROVE  SkipInv'
  BY DEF SkipInv

\* Steps that leave the cursor and what the server has run as they are.
Staying ==
    \/ QueryRejected \/ QueryAccepted
    \/ ScriptRejected \/ ScriptOpensCursor \/ ScriptGetsNoCursor
    \/ \E error \in {"lost", "interrupted"} : DriverCallFails(error)
    \/ KillMidResults
    \/ SkipLeadingRowcount \/ ResultMade \/ ResultClosed
    \/ ReadAllBegins \/ ReadAllRefused \/ ReadResultSet \/ FetchRaises
    \/ ReadAllReturns \/ ReadAllFails
    \/ FetchMany \/ ResultDrained
    \/ \E result \in {"returned", "close failed"} : ScriptCompletes(result)
    \/ CloseAfterFailure

LEMMA StayingStep ==
    ASSUME IInv, Staying
    PROVE  IInv'
  <1> DEFINE Kept == UNCHANGED <<call, batch, pos, ran>>
             Cursor == CursorInv' /\ Control'
             Moves == /\ pc' # "call"
                      /\ pc' \in {"at", "advance", "result"} => pos > 0
                      /\ pc' = "execute" => pos = 0
                      /\ pc' = "advance" => pos <= Len(batch)
                      /\ pc' \in {"execute", "at", "advance"} =>
                             outcome' = "none" /\ mode' # "none"
             Knows == /\ Told' => Told
                      /\ outcome' # "statement" => outcome # "statement"
                      /\ mode' = "skip" => mode = "skip" \/ pos = 0
                      /\ mode' = "skip" /\ call.option = "true" /\ pc' = "advance" =>
                             pc = "advance" \/ ~batch[pos].rowset
             Tells == OutcomeInv'
             Goal == Kept /\ Cursor /\ Moves /\ Knows /\ Tells
  <1>1. /\ Control /\ Places
        /\ PositionInv /\ CleanInv /\ SkipInv /\ OutcomeInv /\ CursorInv
        /\ pos \in Nat /\ ran \in Nat /\ Len(batch) \in Nat
        /\ pos <= Len(batch) + 1 /\ ran <= Len(batch)
        /\ AtEnd <=> ~(pos <= Len(batch))
        /\ cursor = "open" => closes + 1 = 1
    <2>1. /\ Control /\ Places
          /\ PositionInv /\ CleanInv /\ SkipInv /\ OutcomeInv /\ CursorInv
      BY DEF IInv
    <2>2. /\ pos \in Nat /\ ran \in Nat /\ Len(batch) \in Nat
          /\ pos <= Len(batch) + 1 /\ ran <= Len(batch)
      BY <2>1, PlaceFacts
    <2>3. AtEnd <=> ~(pos <= Len(batch))
      BY <2>2 DEF AtEnd
    <2>4. cursor = "open" => closes + 1 = 1
      BY <2>1 DEF CursorInv
    <2> QED
      BY <2>1, <2>2, <2>3, <2>4
  <1> USE DEF Transition, Ends, Fails, ExecuteOrNextset, Here, position, handle
  <1>2. ASSUME QueryRejected PROVE Goal
    <2>1. Kept
      BY <1>2 DEF QueryRejected
    <2>2. Cursor
      <3>1. CursorInv'
        BY <1>1, <1>2 DEF QueryRejected, CursorInv, PositionInv
      <3>2. Control'
        BY <1>1, <1>2 DEF QueryRejected, Control, PCs, Outcomes, Links
      <3> QED
        BY <3>1, <3>2
    <2>3. Moves
      BY <1>1, <1>2 DEF QueryRejected, PositionInv
    <2>4. Knows
      BY <1>1, <1>2
      DEF QueryRejected, PositionInv, OutcomeInv, CursorInv, Told, SkipsResult,
          SkipRowcountsRequested
    <2>5. Tells
      BY <1>1, <1>2
      DEF QueryRejected, PositionInv, OutcomeInv, CursorInv, RaisesLeaving, SkipsResult,
          SkipRowcountsRequested, Told
    <2> QED
      BY <2>1, <2>2, <2>3, <2>4, <2>5
  <1>3. ASSUME QueryAccepted PROVE Goal
    <2>1. Kept
      BY <1>3 DEF QueryAccepted
    <2>2. Cursor
      <3>1. CursorInv'
        BY <1>1, <1>3 DEF QueryAccepted, CursorInv, PositionInv
      <3>2. Control'
        BY <1>1, <1>3 DEF QueryAccepted, Control, PCs, Outcomes, Links
      <3> QED
        BY <3>1, <3>2
    <2>3. Moves
      BY <1>1, <1>3 DEF QueryAccepted, PositionInv
    <2>4. Knows
      BY <1>1, <1>3
      DEF QueryAccepted, PositionInv, OutcomeInv, CursorInv, Told, SkipsResult,
          SkipRowcountsRequested
    <2>5. Tells
      BY <1>1, <1>3
      DEF QueryAccepted, PositionInv, OutcomeInv, CursorInv, RaisesLeaving, SkipsResult,
          SkipRowcountsRequested, Told
    <2> QED
      BY <2>1, <2>2, <2>3, <2>4, <2>5
  <1>4. ASSUME ScriptRejected PROVE Goal
    <2>1. Kept
      BY <1>4 DEF ScriptRejected
    <2>2. Cursor
      <3>1. CursorInv'
        BY <1>1, <1>4 DEF ScriptRejected, CursorInv, PositionInv
      <3>2. Control'
        BY <1>1, <1>4 DEF ScriptRejected, Control, PCs, Outcomes, Links
      <3> QED
        BY <3>1, <3>2
    <2>3. Moves
      BY <1>1, <1>4 DEF ScriptRejected, PositionInv
    <2>4. Knows
      BY <1>1, <1>4
      DEF ScriptRejected, PositionInv, OutcomeInv, CursorInv, Told, SkipsResult,
          SkipRowcountsRequested
    <2>5. Tells
      BY <1>1, <1>4
      DEF ScriptRejected, PositionInv, OutcomeInv, CursorInv, RaisesLeaving, SkipsResult,
          SkipRowcountsRequested, Told
    <2> QED
      BY <2>1, <2>2, <2>3, <2>4, <2>5
  <1>5. ASSUME ScriptOpensCursor PROVE Goal
    <2>1. Kept
      BY <1>5 DEF ScriptOpensCursor
    <2>2. Cursor
      <3>1. CursorInv'
        BY <1>1, <1>5 DEF ScriptOpensCursor, CursorInv, PositionInv
      <3>2. Control'
        BY <1>1, <1>5 DEF ScriptOpensCursor, Control, PCs, Outcomes, Links
      <3> QED
        BY <3>1, <3>2
    <2>3. Moves
      BY <1>1, <1>5 DEF ScriptOpensCursor, PositionInv
    <2>4. Knows
      BY <1>1, <1>5
      DEF ScriptOpensCursor, PositionInv, OutcomeInv, CursorInv, Told, SkipsResult,
          SkipRowcountsRequested
    <2>5. Tells
      BY <1>1, <1>5
      DEF ScriptOpensCursor, PositionInv, OutcomeInv, CursorInv, RaisesLeaving, SkipsResult,
          SkipRowcountsRequested, Told
    <2> QED
      BY <2>1, <2>2, <2>3, <2>4, <2>5
  <1>6. ASSUME ScriptGetsNoCursor PROVE Goal
    <2>1. Kept
      BY <1>6 DEF ScriptGetsNoCursor
    <2>2. Cursor
      <3>1. CursorInv'
        BY <1>1, <1>6 DEF ScriptGetsNoCursor, CursorInv, PositionInv
      <3>2. Control'
        BY <1>1, <1>6 DEF ScriptGetsNoCursor, Control, PCs, Outcomes, Links
      <3> QED
        BY <3>1, <3>2
    <2>3. Moves
      BY <1>1, <1>6 DEF ScriptGetsNoCursor, PositionInv
    <2>4. Knows
      BY <1>1, <1>6
      DEF ScriptGetsNoCursor, PositionInv, OutcomeInv, CursorInv, Told, SkipsResult,
          SkipRowcountsRequested
    <2>5. Tells
      BY <1>1, <1>6
      DEF ScriptGetsNoCursor, PositionInv, OutcomeInv, CursorInv, RaisesLeaving, SkipsResult,
          SkipRowcountsRequested, Told
    <2> QED
      BY <2>1, <2>2, <2>3, <2>4, <2>5
  <1>7. ASSUME NEW error \in {"lost", "interrupted"}, DriverCallFails(error) PROVE Goal
    <2>1. Kept
      BY <1>7 DEF DriverCallFails
    <2>2. Cursor
      <3>1. CursorInv'
        BY <1>1, <1>7 DEF DriverCallFails, CursorInv, PositionInv
      <3>2. Control'
        BY <1>1, <1>7 DEF DriverCallFails, Control, PCs, Outcomes, Links
      <3> QED
        BY <3>1, <3>2
    <2>3. Moves
      BY <1>1, <1>7 DEF DriverCallFails, PositionInv
    <2>4. Knows
      BY <1>1, <1>7
      DEF DriverCallFails, PositionInv, OutcomeInv, CursorInv, Told, SkipsResult,
          SkipRowcountsRequested
    <2>5. Tells
      BY <1>1, <1>7
      DEF DriverCallFails, PositionInv, OutcomeInv, CursorInv, RaisesLeaving, SkipsResult,
          SkipRowcountsRequested, Told
    <2> QED
      BY <2>1, <2>2, <2>3, <2>4, <2>5
  <1>8. ASSUME KillMidResults PROVE Goal
    <2>1. Kept
      BY <1>8 DEF KillMidResults
    <2>2. Cursor
      <3>1. CursorInv'
        BY <1>1, <1>8 DEF KillMidResults, CursorInv, PositionInv
      <3>2. Control'
        BY <1>1, <1>8 DEF KillMidResults, Control, PCs, Outcomes, Links
      <3> QED
        BY <3>1, <3>2
    <2>3. Moves
      BY <1>1, <1>8 DEF KillMidResults, PositionInv
    <2>4. Knows
      BY <1>1, <1>8
      DEF KillMidResults, PositionInv, OutcomeInv, CursorInv, Told, SkipsResult,
          SkipRowcountsRequested
    <2>5. Tells
      BY <1>1, <1>8
      DEF KillMidResults, PositionInv, OutcomeInv, CursorInv, RaisesLeaving, SkipsResult,
          SkipRowcountsRequested, Told
    <2> QED
      BY <2>1, <2>2, <2>3, <2>4, <2>5
  <1>9. ASSUME SkipLeadingRowcount PROVE Goal
    <2>1. Kept
      BY <1>9 DEF SkipLeadingRowcount
    <2>2. Cursor
      <3>1. CursorInv'
        BY <1>1, <1>9 DEF SkipLeadingRowcount, CursorInv, PositionInv
      <3>2. Control'
        BY <1>1, <1>9 DEF SkipLeadingRowcount, Control, PCs, Outcomes, Links
      <3> QED
        BY <3>1, <3>2
    <2>3. Moves
      BY <1>1, <1>9 DEF SkipLeadingRowcount, PositionInv, SkipsResult
    <2>4. Knows
      BY <1>1, <1>9
      DEF SkipLeadingRowcount, PositionInv, OutcomeInv, CursorInv, Told, SkipsResult,
          SkipRowcountsRequested
    <2>5. Tells
      BY <1>1, <1>9
      DEF SkipLeadingRowcount, PositionInv, OutcomeInv, CursorInv, RaisesLeaving, SkipsResult,
          SkipRowcountsRequested, Told
    <2> QED
      BY <2>1, <2>2, <2>3, <2>4, <2>5
  <1>10. ASSUME ResultMade PROVE Goal
    <2>1. Kept
      BY <1>10 DEF ResultMade
    <2>2. Cursor
      <3>1. CursorInv'
        BY <1>1, <1>10 DEF ResultMade, CursorInv, PositionInv
      <3>2. Control'
        BY <1>1, <1>10 DEF ResultMade, Control, PCs, Outcomes, Links
      <3> QED
        BY <3>1, <3>2
    <2>3. Moves
      BY <1>1, <1>10 DEF ResultMade, PositionInv
    <2>4. Knows
      BY <1>1, <1>10
      DEF ResultMade, PositionInv, OutcomeInv, CursorInv, Told, SkipsResult,
          SkipRowcountsRequested
    <2>5. Tells
      BY <1>1, <1>10
      DEF ResultMade, PositionInv, OutcomeInv, CursorInv, RaisesLeaving, SkipsResult,
          SkipRowcountsRequested, Told
    <2> QED
      BY <2>1, <2>2, <2>3, <2>4, <2>5
  <1>11. ASSUME ResultClosed PROVE Goal
    <2>1. Kept
      BY <1>11 DEF ResultClosed
    <2>2. Cursor
      <3>1. CursorInv'
        BY <1>1, <1>11 DEF ResultClosed, CursorInv, PositionInv
      <3>2. Control'
        BY <1>1, <1>11 DEF ResultClosed, Control, PCs, Outcomes, Links
      <3> QED
        BY <3>1, <3>2
    <2>3. Moves
      BY <1>1, <1>11 DEF ResultClosed, PositionInv
    <2>4. Knows
      BY <1>1, <1>11
      DEF ResultClosed, PositionInv, OutcomeInv, CursorInv, Told, SkipsResult,
          SkipRowcountsRequested
    <2>5. Tells
      BY <1>1, <1>11
      DEF ResultClosed, PositionInv, OutcomeInv, CursorInv, RaisesLeaving, SkipsResult,
          SkipRowcountsRequested, Told
    <2> QED
      BY <2>1, <2>2, <2>3, <2>4, <2>5
  <1>12. ASSUME ReadAllBegins PROVE Goal
    <2>1. Kept
      BY <1>12 DEF ReadAllBegins
    <2>2. Cursor
      <3>1. CursorInv'
        BY <1>1, <1>12 DEF ReadAllBegins, CursorInv, PositionInv
      <3>2. Control'
        BY <1>1, <1>12 DEF ReadAllBegins, Control, PCs, Outcomes, Links
      <3> QED
        BY <3>1, <3>2
    <2>3. Moves
      BY <1>1, <1>12 DEF ReadAllBegins, PositionInv
    <2>4. Knows
      BY <1>1, <1>12
      DEF ReadAllBegins, PositionInv, OutcomeInv, CursorInv, Told, SkipsResult,
          SkipRowcountsRequested
    <2>5. Tells
      BY <1>1, <1>12
      DEF ReadAllBegins, PositionInv, OutcomeInv, CursorInv, RaisesLeaving, SkipsResult,
          SkipRowcountsRequested, Told
    <2> QED
      BY <2>1, <2>2, <2>3, <2>4, <2>5
  <1>13. ASSUME ReadAllRefused PROVE Goal
    <2>1. Kept
      BY <1>13 DEF ReadAllRefused
    <2>2. Cursor
      <3>1. CursorInv'
        BY <1>1, <1>13 DEF ReadAllRefused, CursorInv, PositionInv
      <3>2. Control'
        BY <1>1, <1>13 DEF ReadAllRefused, Control, PCs, Outcomes, Links
      <3> QED
        BY <3>1, <3>2
    <2>3. Moves
      BY <1>1, <1>13 DEF ReadAllRefused, PositionInv
    <2>4. Knows
      BY <1>1, <1>13
      DEF ReadAllRefused, PositionInv, OutcomeInv, CursorInv, Told, SkipsResult,
          SkipRowcountsRequested
    <2>5. Tells
      BY <1>1, <1>13
      DEF ReadAllRefused, PositionInv, OutcomeInv, CursorInv, RaisesLeaving, SkipsResult,
          SkipRowcountsRequested, Told
    <2> QED
      BY <2>1, <2>2, <2>3, <2>4, <2>5
  <1>14. ASSUME ReadResultSet PROVE Goal
    <2>1. Kept
      BY <1>14 DEF ReadResultSet
    <2>2. Cursor
      <3>1. CursorInv'
        BY <1>1, <1>14 DEF ReadResultSet, CursorInv, PositionInv
      <3>2. Control'
        BY <1>1, <1>14 DEF ReadResultSet, Control, PCs, Outcomes, Links
      <3> QED
        BY <3>1, <3>2
    <2>3. Moves
      BY <1>1, <1>14 DEF ReadResultSet, PositionInv
    <2>4. Knows
      BY <1>1, <1>14
      DEF ReadResultSet, PositionInv, OutcomeInv, CursorInv, Told, SkipsResult,
          SkipRowcountsRequested
    <2>5. Tells
      BY <1>1, <1>14
      DEF ReadResultSet, PositionInv, OutcomeInv, CursorInv, RaisesLeaving, SkipsResult,
          SkipRowcountsRequested, Told
    <2> QED
      BY <2>1, <2>2, <2>3, <2>4, <2>5
  <1>15. ASSUME FetchRaises PROVE Goal
    <2>1. Kept
      BY <1>15 DEF FetchRaises
    <2>2. Cursor
      <3>1. CursorInv'
        BY <1>1, <1>15 DEF FetchRaises, CursorInv, PositionInv
      <3>2. Control'
        BY <1>1, <1>15 DEF FetchRaises, Control, PCs, Outcomes, Links
      <3> QED
        BY <3>1, <3>2
    <2>3. Moves
      BY <1>1, <1>15 DEF FetchRaises, PositionInv
    <2>4. Knows
      BY <1>1, <1>15
      DEF FetchRaises, PositionInv, OutcomeInv, CursorInv, Told, SkipsResult,
          SkipRowcountsRequested
    <2>5. Tells
      BY <1>1, <1>15
      DEF FetchRaises, PositionInv, OutcomeInv, CursorInv, RaisesLeaving, SkipsResult,
          SkipRowcountsRequested, Told
    <2> QED
      BY <2>1, <2>2, <2>3, <2>4, <2>5
  <1>16. ASSUME ReadAllReturns PROVE Goal
    <2>1. Kept
      BY <1>16 DEF ReadAllReturns
    <2>2. Cursor
      <3>1. CursorInv'
        BY <1>1, <1>16 DEF ReadAllReturns, CursorInv, PositionInv
      <3>2. Control'
        BY <1>1, <1>16 DEF ReadAllReturns, Control, PCs, Outcomes, Links
      <3> QED
        BY <3>1, <3>2
    <2>3. Moves
      BY <1>1, <1>16 DEF ReadAllReturns, PositionInv
    <2>4. Knows
      BY <1>1, <1>16
      DEF ReadAllReturns, PositionInv, OutcomeInv, CursorInv, Told, SkipsResult,
          SkipRowcountsRequested
    <2>5. Tells
      BY <1>1, <1>16
      DEF ReadAllReturns, PositionInv, OutcomeInv, CursorInv, RaisesLeaving, SkipsResult,
          SkipRowcountsRequested, Told
    <2> QED
      BY <2>1, <2>2, <2>3, <2>4, <2>5
  <1>17. ASSUME ReadAllFails PROVE Goal
    <2>1. Kept
      BY <1>17 DEF ReadAllFails
    <2>2. Cursor
      <3>1. CursorInv'
        BY <1>1, <1>17 DEF ReadAllFails, CursorInv, PositionInv
      <3>2. Control'
        BY <1>1, <1>17 DEF ReadAllFails, Control, PCs, Outcomes, Links
      <3> QED
        BY <3>1, <3>2
    <2>3. Moves
      BY <1>1, <1>17 DEF ReadAllFails, PositionInv
    <2>4. Knows
      BY <1>1, <1>17
      DEF ReadAllFails, PositionInv, OutcomeInv, CursorInv, Told, SkipsResult,
          SkipRowcountsRequested
    <2>5. Tells
      BY <1>1, <1>17
      DEF ReadAllFails, PositionInv, OutcomeInv, CursorInv, RaisesLeaving, SkipsResult,
          SkipRowcountsRequested, Told
    <2> QED
      BY <2>1, <2>2, <2>3, <2>4, <2>5
  <1>18. ASSUME FetchMany PROVE Goal
    <2>1. Kept
      BY <1>18 DEF FetchMany
    <2>2. Cursor
      <3>1. CursorInv'
        BY <1>1, <1>18 DEF FetchMany, CursorInv, PositionInv
      <3>2. Control'
        BY <1>1, <1>18 DEF FetchMany, Control, PCs, Outcomes, Links
      <3> QED
        BY <3>1, <3>2
    <2>3. Moves
      BY <1>1, <1>18 DEF FetchMany, PositionInv
    <2>4. Knows
      BY <1>1, <1>18
      DEF FetchMany, PositionInv, OutcomeInv, CursorInv, Told, SkipsResult,
          SkipRowcountsRequested
    <2>5. Tells
      BY <1>1, <1>18
      DEF FetchMany, PositionInv, OutcomeInv, CursorInv, RaisesLeaving, SkipsResult,
          SkipRowcountsRequested, Told
    <2> QED
      BY <2>1, <2>2, <2>3, <2>4, <2>5
  <1>19. ASSUME ResultDrained PROVE Goal
    <2>1. Kept
      BY <1>19 DEF ResultDrained
    <2>2. Cursor
      <3>1. CursorInv'
        BY <1>1, <1>19 DEF ResultDrained, CursorInv, PositionInv
      <3>2. Control'
        BY <1>1, <1>19 DEF ResultDrained, Control, PCs, Outcomes, Links
      <3> QED
        BY <3>1, <3>2
    <2>3. Moves
      BY <1>1, <1>19 DEF ResultDrained, PositionInv
    <2>4. Knows
      BY <1>1, <1>19
      DEF ResultDrained, PositionInv, OutcomeInv, CursorInv, Told, SkipsResult,
          SkipRowcountsRequested
    <2>5. Tells
      BY <1>1, <1>19
      DEF ResultDrained, PositionInv, OutcomeInv, CursorInv, RaisesLeaving, SkipsResult,
          SkipRowcountsRequested, Told
    <2> QED
      BY <2>1, <2>2, <2>3, <2>4, <2>5
  <1>20. ASSUME NEW result \in {"returned", "close failed"}, ScriptCompletes(result) PROVE Goal
    <2>1. Kept
      BY <1>20 DEF ScriptCompletes
    <2>2. Cursor
      <3>1. CursorInv'
        BY <1>1, <1>20 DEF ScriptCompletes, CursorInv, PositionInv
      <3>2. Control'
        BY <1>1, <1>20 DEF ScriptCompletes, Control, PCs, Outcomes, Links
      <3> QED
        BY <3>1, <3>2
    <2>3. Moves
      BY <1>1, <1>20 DEF ScriptCompletes, PositionInv
    <2>4. Knows
      BY <1>1, <1>20
      DEF ScriptCompletes, PositionInv, OutcomeInv, CursorInv, Told, SkipsResult,
          SkipRowcountsRequested
    <2>5. Tells
      <3>1. outcome' \in {"returned", "close failed"} /\ pc' = "done" /\ pos' > Len(batch')
        BY <1>1, <1>20, <2>1 DEF ScriptCompletes, AtEnd
      <3> QED
        BY <3>1 DEF OutcomeInv
    <2> QED
      BY <2>1, <2>2, <2>3, <2>4, <2>5
  <1>21. ASSUME CloseAfterFailure PROVE Goal
    <2>1. Kept
      BY <1>21 DEF CloseAfterFailure
    <2>2. Cursor
      <3>1. CursorInv'
        BY <1>1, <1>21 DEF CloseAfterFailure, CursorInv, PositionInv
      <3>2. Control'
        BY <1>1, <1>21 DEF CloseAfterFailure, Control, PCs, Outcomes, Links
      <3> QED
        BY <3>1, <3>2
    <2>3. Moves
      BY <1>1, <1>21 DEF CloseAfterFailure, PositionInv
    <2>4. Knows
      BY <1>1, <1>21
      DEF CloseAfterFailure, PositionInv, OutcomeInv, CursorInv, Told, SkipsResult,
          SkipRowcountsRequested
    <2>5. Tells
      BY <1>1, <1>21
      DEF CloseAfterFailure, PositionInv, OutcomeInv, CursorInv, RaisesLeaving, SkipsResult,
          SkipRowcountsRequested, Told
    <2> QED
      BY <2>1, <2>2, <2>3, <2>4, <2>5
  <1>22. Goal
    <2> HIDE DEF Goal
    <2> QED
      BY <1>2, <1>3, <1>4, <1>5, <1>6, <1>7, <1>8, <1>9, <1>10, <1>11,
         <1>12, <1>13, <1>14, <1>15, <1>16, <1>17, <1>18, <1>19, <1>20, <1>21
      DEF Staying
  <1>23. Control' /\ Places'
    BY <1>1, <1>22 DEF Places
  <1>24. PositionInv'
    BY <1>1, <1>22 DEF PositionInv
  <1>25. CleanInv'
    BY <1>1, <1>22, CleanStays
  <1>26. SkipInv'
    <2>1. CASE mode = "skip"
      BY <1>1, <1>22, <2>1, SkipStays
    <2>2. CASE mode # "skip"
      <3>1. \A k \in DOMAIN batch : k > 0
        BY <1>1, PlaceFacts
      <3> QED
        BY <1>1, <1>22, <2>2, <3>1 DEF SkipInv
    <2> QED
      BY <2>1, <2>2
  <1> QED
    BY <1>22, <1>23, <1>24, <1>25, <1>26 DEF IInv

\* A call of the driver that moves the cursor to the next result, or fails there.
LEMMA AdvancingStep ==
    ASSUME IInv, Advance \/ AdvanceRaises
    PROVE  IInv'
  <1>1. /\ Control /\ Places
        /\ PositionInv /\ CleanInv /\ SkipInv /\ OutcomeInv /\ CursorInv
    BY DEF IInv
  <1>2. /\ pos \in Nat /\ ran \in Nat /\ Len(batch) \in Nat
        /\ pos <= Len(batch) /\ ran <= Len(batch)
        /\ DOMAIN batch = 1..Len(batch)
        /\ pc \in {"execute", "advance"} /\ outcome = "none" /\ cursor = "open"
        /\ mode # "none" /\ link = "up" /\ (pc = "execute" => pos = 0)
        /\ pos <= ran
    BY <1>1, PlaceFacts
    DEF Advance, AdvanceRaises, ExecuteOrNextset, PositionInv, CursorInv, Told
  <1>3. /\ UNCHANGED <<call, batch, mode, link, cursor, closes>>
        /\ \/ /\ pc' = "at" /\ outcome' = "none" /\ ~RaisesLeaving /\ ~RaisesAt(pos + 1)
              /\ Reach(pos + 1)
           \/ /\ pc' = "failed" /\ outcome' = "statement"
              /\ \/ RaisesLeaving /\ pos' = pos /\ ran' = ran
                 \/ RaisesAt(pos + 1) /\ Reach(pos + 1)
    BY <1>2 DEF Advance, AdvanceRaises, Fails, Ends, handle, position
  <1>4. ASSUME Reach(pos + 1)
        PROVE  /\ pos' = pos + 1 /\ ran' \in Nat /\ ran' <= Len(batch) /\ ran <= ran'
               /\ pos + 1 <= Len(batch) => pos + 1 <= ran'
               /\ pos + 1 > Len(batch) => ran' = Len(batch)
    <2> DEFINE reached == IF pos + 1 <= Len(batch) THEN pos + 1 ELSE Len(batch)
    <2>1. Min({pos + 1, Len(batch)}) = reached /\ reached \in Nat
      <3>1. pos + 1 \in Nat
        BY <1>2
      <3> QED
        BY <1>2, <3>1, MaxOfTwo
    <2>2. ran' = IF ran >= reached THEN ran ELSE reached
      BY <1>2, <1>4, <2>1, MaxOfTwo DEF Reach
    <2> QED
      BY <1>2, <1>4, <2>2 DEF Reach
  <1>5. /\ pos' \in Nat /\ ran' \in Nat /\ ran' <= Len(batch) /\ ran <= ran'
        /\ pos' = pos \/ pos' = pos + 1
        /\ pos' <= ran' \/ (pos' = Len(batch) + 1 /\ ran' = Len(batch))
        /\ outcome' = "none" => pos' = pos + 1
    BY <1>2, <1>3, <1>4
  <1>6. Control' /\ Places'
    <2>1. Control'
      BY <1>1, <1>3 DEF Control, PCs, Outcomes
    <2>2. pos' \in 0..(Len(batch) + 1) /\ ran' \in 0..Len(batch)
      BY <1>2, <1>5
    <2> QED
      BY <1>1, <1>3, <2>1, <2>2 DEF Places
  <1>7. PositionInv'
    BY <1>2, <1>3, <1>5 DEF PositionInv
  <1>8. CleanInv'
    <2> SUFFICES ASSUME outcome' = "none", NEW i \in DOMAIN batch,
                        i < pos' \/ (i = pos' /\ ~batch[i].rowset)
                 PROVE  ~batch[i].fails
      BY <1>3 DEF CleanInv
    <2>1. pos' = pos + 1 /\ ~RaisesLeaving /\ ~RaisesAt(pos + 1) /\ i \in Nat /\ i > 0
      BY <1>2, <1>3, <1>5
    <2>2. CASE i = pos'
      BY <1>2, <2>1, <2>2 DEF RaisesAt
    <2>3. CASE i < pos'
      <3>1. i < pos \/ i = pos
        BY <1>2, <2>1, <2>3
      <3> QED
        BY <1>1, <1>2, <2>1, <3>1 DEF CleanInv, Told, RaisesLeaving, Here
    <2> QED
      BY <2>2, <2>3
  <1>9. SkipInv'
    <2> SUFFICES ASSUME mode = "skip", call.option = "true", NEW i \in DOMAIN batch, i < pos'
                 PROVE  ~batch[i].rowset
      BY <1>3 DEF SkipInv
    <2>1. i \in Nat /\ i > 0 /\ (i < pos \/ i = pos)
      BY <1>2, <1>5
    <2> QED
      BY <1>1, <1>2, <2>1 DEF SkipInv, Told
  <1>10. OutcomeInv'
    <2>1. ASSUME outcome' = "statement" PROVE \E i \in 1..ran' : batch[i].fails
      <3>1. CASE RaisesLeaving
        <4>1. pos \in 1..ran' /\ batch[pos].fails
          BY <1>2, <1>5, <3>1 DEF RaisesLeaving, Here
        <4> QED
          BY <4>1
      <3>2. CASE RaisesAt(pos + 1) /\ Reach(pos + 1)
        <4>1. pos + 1 \in 1..ran' /\ batch[pos + 1].fails
          BY <1>2, <1>4, <3>2 DEF RaisesAt
        <4> QED
          BY <4>1
      <3> QED
        BY <1>3, <2>1, <3>1, <3>2
    <2> QED
      BY <1>3, <2>1 DEF OutcomeInv
  <1>11. CursorInv'
    BY <1>1, <1>2, <1>3 DEF CursorInv
  <1> QED
    BY <1>6, <1>7, <1>8, <1>9, <1>10, <1>11 DEF IInv

\* The server goes on, or the results seem to be at their end.
LEMMA AheadStep ==
    ASSUME IInv, ServerRunsAhead \/ AdvanceSeesEnd
    PROVE  IInv'
  <1>1. /\ Control /\ Places
        /\ PositionInv /\ CleanInv /\ SkipInv /\ OutcomeInv /\ CursorInv
    BY DEF IInv
  <1>2. /\ pos \in Nat /\ ran \in Nat /\ Len(batch) \in Nat
        /\ pos <= Len(batch) + 1 /\ ran <= Len(batch)
    BY <1>1, PlaceFacts
  <1>3. ASSUME ServerRunsAhead PROVE IInv'
    <2>1. /\ UNCHANGED <<pc, call, batch, mode, pos, link, cursor, closes, outcome>>
          /\ ran' = ran + 1 /\ ran + 1 <= Len(batch) /\ pc \in {"at", "advance", "result"}
          /\ link = "up"
      BY <1>2, <1>3 DEF ServerRunsAhead, handle
    <2>2. Control' /\ CleanInv' /\ SkipInv' /\ CursorInv'
      BY <1>1, <2>1 DEF Control, CleanInv, SkipInv, CursorInv, Told
    <2>3. Places'
      <3>1. ran + 1 \in 0..Len(batch)
        BY <1>2, <2>1
      <3> QED
        BY <1>1, <2>1, <3>1 DEF Places
    <2>4. PositionInv'
      <3>1. pos <= ran
        BY <1>1, <1>2, <2>1 DEF PositionInv, Told
      <3>2. pos <= ran + 1
        BY <1>2, <3>1
      <3> QED
        BY <1>1, <2>1, <3>2 DEF PositionInv
    <2>5. OutcomeInv'
      BY <1>1, <2>1 DEF OutcomeInv
    <2> QED
      BY <2>2, <2>3, <2>4, <2>5 DEF IInv
  <1>4. ASSUME AdvanceSeesEnd PROVE IInv'
    <2>1. /\ UNCHANGED <<call, batch, mode, ran, link, cursor, closes, outcome>>
          /\ pc = "advance" /\ pc' = "at" /\ link = "killed" /\ pos' = Len(batch) + 1
      BY <1>4 DEF AdvanceSeesEnd, Transition, handle
    <2>2. ~Told'
      BY <1>2, <2>1 DEF Told
    <2>3. Control' /\ CleanInv' /\ SkipInv' /\ CursorInv'
      BY <1>1, <2>1, <2>2 DEF Control, PCs, CleanInv, SkipInv, CursorInv
    <2>4. Places'
      <3>1. Len(batch) + 1 \in 0..(Len(batch) + 1)
        BY <1>2
      <3> QED
        BY <1>1, <2>1, <3>1 DEF Places
    <2>5. PositionInv'
      <3>1. Len(batch) + 1 > 0
        BY <1>2
      <3> QED
        BY <1>1, <2>1, <2>2, <3>1 DEF PositionInv
    <2>6. OutcomeInv'
      BY <1>1, <2>1 DEF OutcomeInv, PositionInv
    <2> QED
      BY <2>3, <2>4, <2>5, <2>6 DEF IInv
  <1> QED
    BY <1>3, <1>4

LEMMA MultiResultStepInv == IInv /\ [Next]_vars => IInv'
  <1> SUFFICES ASSUME IInv, [Next]_vars PROVE IInv'
    OBVIOUS
  <1>1. ASSUME Next PROVE IInv'
    <2>1. Staying \/ Advance \/ AdvanceRaises \/ ServerRunsAhead \/ AdvanceSeesEnd
      BY <1>1 DEF Next, Staying
    <2> QED
      BY <2>1, StayingStep, AdvancingStep, AheadStep
  <1>2. ASSUME UNCHANGED vars PROVE IInv'
    <2>1. UNCHANGED <<pc, call, batch, mode, pos, ran, link, cursor, closes, outcome>>
      BY <1>2 DEF vars, position, handle
    <2>2. Control' /\ Places' /\ CursorInv'
      BY <2>1 DEF IInv, Control, Places, CursorInv
    <2>3. PositionInv' /\ CleanInv' /\ SkipInv'
      BY <2>1 DEF IInv, PositionInv, CleanInv, SkipInv, Told
    <2>4. OutcomeInv'
      BY <2>1 DEF IInv, OutcomeInv
    <2> QED
      BY <2>2, <2>3, <2>4 DEF IInv
  <1> QED
    BY <1>1, <1>2

LEMMA MultiResultInvariance == Spec => []IInv
  BY MultiResultInitInv, MultiResultStepInv, PTL DEF Spec

\* No statement's error is lost, for batches of any length and however far the
\* server has run ahead of the client.
THEOREM NoErrorLost == Spec => []NothingLost
  <1>1. ASSUME IInv PROVE NothingLost
    <2> SUFFICES ASSUME Told PROVE
            /\ outcome \in {"returned", "close failed"} => AllRan
            /\ outcome = "executed" /\ call.option = "true" =>
                   IF HasRowset THEN Here.rowset /\ \A i \in 1..pos - 1 : ~batch[i].fails
                   ELSE AllRan
            /\ outcome = "statement" => \E i \in 1..ran : batch[i].fails
            /\ outcome = "ArgumentError" => ran = 0 /\ cursor = "none"
      BY DEF NothingLost, Told
    <2>1. /\ pos \in Nat /\ ran \in Nat /\ Len(batch) \in Nat
          /\ pos <= Len(batch) + 1 /\ ran <= Len(batch) /\ DOMAIN batch = 1..Len(batch)
          /\ \A i \in DOMAIN batch : i \in Nat /\ i > 0
          /\ PositionInv /\ CleanInv /\ SkipInv /\ OutcomeInv
      BY <1>1, PlaceFacts DEF IInv
    <2>2. ASSUME pos > Len(batch), outcome # "statement" PROVE AllRan
      <3>1. ran = Len(batch)
        <4>1. pos <= ran \/ (pos = Len(batch) + 1 /\ ran = Len(batch))
          BY <2>1 DEF PositionInv
        <4>2. pos \in Nat /\ ran \in Nat /\ Len(batch) \in Nat /\ ran <= Len(batch)
          BY <2>1
        <4>3. ~(pos <= ran)
          BY <2>2, <4>2
        <4> QED
          BY <4>1, <4>3
      <3>2. \A i \in DOMAIN batch : i < pos
        BY <2>1, <2>2
      <3> QED
        BY <2>1, <2>2, <3>1, <3>2 DEF AllRan, CleanInv
    <2>3. ASSUME outcome = "executed", call.option = "true"
          PROVE  IF HasRowset THEN Here.rowset /\ \A i \in 1..pos - 1 : ~batch[i].fails
                 ELSE AllRan
      <3>1. mode = "skip" /\ pos > 0
        BY <2>1, <2>3 DEF OutcomeInv
      <3>2. CASE pos <= Len(batch)
        <4>1. pos \in DOMAIN batch /\ batch[pos].rowset
          BY <2>1, <2>3, <3>1, <3>2 DEF OutcomeInv
        <4>2. \A i \in 1..pos - 1 : i \in DOMAIN batch /\ i < pos
          BY <2>1, <3>2
        <4> QED
          BY <2>1, <2>3, <4>1, <4>2 DEF CleanInv, HasRowset, Here
      <3>3. CASE pos > Len(batch)
        <4>1. \A i \in DOMAIN batch : i < pos
          BY <2>1, <3>3
        <4>2. ~HasRowset
          BY <2>1, <2>3, <3>1, <4>1 DEF SkipInv, HasRowset
        <4> QED
          BY <2>2, <2>3, <3>3, <4>2
      <3> QED
        BY <2>1, <3>2, <3>3
    <2>4. outcome \in {"returned", "close failed"} => AllRan
      BY <2>1, <2>2 DEF OutcomeInv
    <2> QED
      BY <2>1, <2>3, <2>4 DEF OutcomeInv
  <1> QED
    BY <1>1, MultiResultInvariance, PTL

\* A cursor is closed once, whatever fails, and a script's never over a lost
\* connection.
THEOREM OneClose == Spec => []ClosedOnce
  <1>1. ASSUME IInv PROVE ClosedOnce
    BY <1>1 DEF IInv, CursorInv, ClosedOnce
  <1> QED
    BY <1>1, MultiResultInvariance, PTL

-----------------------------------------------------------------------------
(* What read_all_result_sets has collected.                                *)

\* The data are the places of the result sets behind the cursor, in their order.
DataInv ==
    /\ data \in Seq(Nat)
    /\ \A i, j \in DOMAIN data : i < j => data[i] < data[j]
    /\ \A i \in DOMAIN data : data[i] <= pos /\ (pc = "at" => data[i] < pos)
    /\ mode # "read" => data = << >>
    /\ pc = "execute" => mode # "read"
    /\ Told /\ mode = "read" /\ pc \in {"at", "advance"} =>
           ToSet(data) = {i \in DOMAIN batch :
                              Collects(i) /\ (i < pos \/ (i = pos /\ pc = "advance"))}
    /\ mode = "read" /\ pc = "done" =>
           IF outcome = "returned" THEN Told => ToSet(data) = {i \in DOMAIN batch : Collects(i)}
           ELSE data = << >>
    /\ pc = "failed" => outcome # "returned"
    /\ mode = "skip" /\ pc \in {"at", "result"} => call.option = "true" \/ pos = 1
    /\ mode = "skip" /\ pc = "advance" => call.option = "true"

\* Steps of a call that collects nothing, and those that fail.
LEMMA CollectsNothing ==
    ASSUME IInv, DataInv, UNCHANGED <<data, call, batch, pos>>,
           \/ /\ mode # "read" /\ mode' # "read" /\ pc' # "failed"
              /\ mode' = "skip" /\ pc' \in {"at", "result"} => mode = "skip" /\ pc \in {"at", "result"}
              /\ mode' = "skip" /\ pc' = "advance" => call.option = "true"
           \/ pc' = "failed" /\ outcome' # "returned" /\ (mode' # "read" => mode # "read")
    PROVE  DataInv'
  <1>1. CASE mode # "read" /\ mode' # "read" /\ pc' # "failed"
    <2>1. data = << >> /\ data' = << >> /\ DOMAIN data' = {}
      BY <1>1 DEF DataInv
    <2> QED
      BY <1>1, <2>1 DEF DataInv
  <1>2. CASE pc' = "failed"
    BY <1>2 DEF DataInv
  <1> QED
    BY <1>1, <1>2

LEMMA ReadResultSetStep ==
    ASSUME IInv, DataInv, ReadResultSet
    PROVE  DataInv'
  <1>1. /\ pc = "at" /\ pc' = "advance" /\ mode = "read" /\ pos <= Len(batch)
        /\ UNCHANGED <<mode, call, batch, pos, link, outcome>>
        /\ data' = IF Collects(pos) THEN Append(data, pos) ELSE data
    <2>1. ~AtEnd <=> pos <= Len(batch)
      BY PlaceFacts DEF AtEnd, IInv
    <2>2. Omits <=> ~Collects(pos)
      BY PlaceFacts DEF Omits, SkipRowcountsRequested, Collects, Here, IInv
    <2> QED
      BY <2>1, <2>2 DEF ReadResultSet, Transition
  <1>2. /\ pos \in DOMAIN batch /\ pos \in Nat /\ \A i \in DOMAIN batch : i \in Nat
        /\ Told /\ Told'
    <2>1. pos > 0 /\ pos \in Nat /\ Len(batch) \in Nat /\ DOMAIN batch = 1..Len(batch)
      BY <1>1, PlaceFacts DEF IInv, PositionInv
    <2> QED
      BY <1>1, <2>1 DEF Told
  <1>3. /\ data \in Seq(Nat) /\ \A i, j \in DOMAIN data : i < j => data[i] < data[j]
        /\ \A i \in DOMAIN data : data[i] < pos
        /\ ToSet(data) = {i \in DOMAIN batch : Collects(i) /\ i < pos}
    BY <1>1, <1>2 DEF DataInv
  <1>4. CASE Collects(pos)
    <2>1. data' = Append(data, pos)
      BY <1>1, <1>4
    <2>2. /\ data' \in Seq(Nat) /\ DOMAIN data = 1..Len(data) /\ Len(data) \in Nat
          /\ DOMAIN data' = 1..Len(data) + 1
          /\ \A i \in DOMAIN data : data'[i] = data[i]
          /\ data'[Len(data) + 1] = pos
      BY <1>2, <1>3, <2>1
    <2>3. \A i \in DOMAIN data' : i \in DOMAIN data \/ i = Len(data) + 1
      BY <2>2
    <2>4. \A i, j \in DOMAIN data' : i < j => data'[i] < data'[j]
      BY <1>3, <2>2, <2>3
    <2>5. \A i \in DOMAIN data' : data'[i] <= pos
      BY <1>2, <1>3, <2>2, <2>3
    <2>6. ToSet(data') = ToSet(data) \union {pos}
      BY <2>2, <2>3 DEF ToSet
    <2>7. ToSet(data') = {i \in DOMAIN batch : Collects(i) /\ (i < pos \/ i = pos)}
      BY <1>2, <1>3, <1>4, <2>6
    <2> QED
      BY <1>1, <2>2, <2>4, <2>5, <2>7 DEF DataInv, Collects
  <1>5. CASE ~Collects(pos)
    <2>1. data' = data
      BY <1>1, <1>5
    <2>2. ToSet(data) = {i \in DOMAIN batch : Collects(i) /\ (i < pos \/ i = pos)}
      BY <1>3, <1>5
    <2>3. \A i \in DOMAIN data : data[i] <= pos
      BY <1>2, <1>3
    <2> QED
      BY <1>1, <1>3, <2>1, <2>2, <2>3 DEF DataInv, Collects
  <1> QED
    BY <1>4, <1>5

LEMMA DataStep ==
    ASSUME IInv, DataInv, [Next]_vars
    PROVE  DataInv'
  <1> USE DEF Transition, Ends, Fails, position, handle
  <1>1. /\ PositionInv /\ SkipInv /\ OutcomeInv /\ CursorInv
        /\ pos \in Nat /\ Len(batch) \in Nat /\ pos <= Len(batch) + 1
        /\ DOMAIN batch = 1..Len(batch)
        /\ \A i \in DOMAIN batch : i \in Nat /\ i > 0
        /\ AtEnd <=> ~(pos <= Len(batch))
    <2>1. /\ PositionInv /\ SkipInv /\ OutcomeInv /\ CursorInv
          /\ pos \in Nat /\ Len(batch) \in Nat /\ pos <= Len(batch) + 1
          /\ DOMAIN batch = 1..Len(batch)
          /\ \A i \in DOMAIN batch : i \in Nat /\ i > 0
      BY PlaceFacts DEF IInv
    <2> QED
      BY <2>1 DEF AtEnd
  <1>2. CASE QueryRejected \/ QueryAccepted \/ ScriptRejected \/ ScriptOpensCursor \/ ScriptGetsNoCursor
    BY <1>1, <1>2, CollectsNothing
    DEF QueryRejected, QueryAccepted, ScriptRejected, ScriptOpensCursor, ScriptGetsNoCursor, PositionInv
  <1>3. CASE Advance
    <2>1. /\ UNCHANGED <<call, batch, mode, link, data, outcome>> /\ link = "up"
          /\ pc \in {"execute", "advance"} /\ pc' = "at" /\ pos' = pos + 1
      BY <1>3 DEF Advance, ExecuteOrNextset, Reach
    <2>2. \A i \in DOMAIN data : data[i] \in Nat /\ data[i] <= pos
      BY DEF DataInv
    <2>3. \A i \in DOMAIN data : data[i] <= pos + 1 /\ data[i] < pos + 1
      BY <1>1, <2>2
    <2>5. mode = "skip" => call.option = "true" \/ pos' = 1
      BY <1>1, <2>1 DEF DataInv, PositionInv
    <2>6. ASSUME mode = "read"
          PROVE  ToSet(data) = {i \in DOMAIN batch : Collects(i) /\ i < pos + 1}
      <3>1. pc = "advance"
        BY <2>1, <2>6 DEF DataInv
      <3>2. ToSet(data) = {i \in DOMAIN batch : Collects(i) /\ (i < pos \/ i = pos)}
        BY <2>1, <2>6, <3>1 DEF DataInv, Told
      <3> QED
        BY <1>1, <3>2
    <2> QED
      BY <2>1, <2>3, <2>5, <2>6 DEF DataInv, Collects
  <1>4. CASE AdvanceRaises
    <2>1. /\ UNCHANGED <<call, batch, mode, data>> /\ pc' = "failed" /\ outcome' = "statement"
          /\ pos' = pos \/ pos' = pos + 1
      BY <1>4 DEF AdvanceRaises, Reach
    <2>2. \A i \in DOMAIN data : data[i] \in Nat /\ data[i] <= pos
      BY DEF DataInv
    <2>3. \A i \in DOMAIN data : data[i] <= pos'
      BY <1>1, <2>1, <2>2
    <2> QED
      BY <2>1, <2>3 DEF DataInv
  <1>5. CASE AdvanceSeesEnd
    <2>1. /\ UNCHANGED <<call, batch, mode, data, link>> /\ pc = "advance" /\ pc' = "at"
          /\ link = "killed" /\ pos' = Len(batch) + 1
      BY <1>5 DEF AdvanceSeesEnd
    <2>2. ~Told'
      BY <1>1, <2>1 DEF Told
    <2>3. \A i \in DOMAIN data : data[i] \in Nat /\ data[i] <= pos
      BY DEF DataInv
    <2>4. pos <= Len(batch)
      BY <1>1, <2>1 DEF PositionInv
    <2>5. \A i \in DOMAIN data : data[i] <= pos' /\ data[i] < pos'
      BY <1>1, <2>1, <2>3, <2>4
    <2> QED
      BY <2>1, <2>2, <2>5 DEF DataInv
  <1>6. ASSUME NEW error \in {"lost", "interrupted"}, DriverCallFails(error) PROVE DataInv'
    BY <1>6, CollectsNothing DEF DriverCallFails
  <1>7. CASE ServerRunsAhead \/ KillMidResults \/ UNCHANGED vars
    <2>1. UNCHANGED <<pc, call, batch, mode, pos, data, outcome>>
      BY <1>7 DEF ServerRunsAhead, KillMidResults, vars
    <2>2. Told' => Told
      BY <1>1, <1>7, <2>1 DEF ServerRunsAhead, KillMidResults, vars, Told, PositionInv
    <2> QED
      BY <2>1, <2>2 DEF DataInv, Collects
  <1>8. CASE SkipLeadingRowcount \/ ResultMade \/ ResultClosed
    BY <1>1, <1>8, CollectsNothing
    DEF SkipLeadingRowcount, SkipsResult, SkipRowcountsRequested, ResultMade, ResultClosed, CursorInv
  <1>9. CASE ReadAllBegins
    <2>1. /\ UNCHANGED <<call, batch, pos, data, link>> /\ pc = "result" /\ pc' = "at"
          /\ mode = "skip" /\ mode' = "read"
      BY <1>1, <1>9 DEF ReadAllBegins, CursorInv
    <2>2. data = << >> /\ DOMAIN data = {} /\ ToSet(data) = {}
      BY <2>1 DEF DataInv, ToSet
    <2>3. Told' => \A i \in DOMAIN batch : i < pos => ~Collects(i)
      BY <1>1, <2>1 DEF DataInv, SkipInv, Told, Collects
    <2> QED
      BY <2>1, <2>2, <2>3 DEF DataInv, Collects
  <1>10. CASE ReadAllRefused \/ FetchRaises
    BY <1>1, <1>10, CollectsNothing DEF ReadAllRefused, FetchRaises
  <1>11. CASE ReadResultSet
    BY <1>11, ReadResultSetStep
  <1>12. CASE ReadAllReturns
    <2>1. /\ UNCHANGED <<call, batch, pos, mode, data, link>> /\ pc = "at" /\ pc' = "done"
          /\ mode = "read" /\ pos > Len(batch) /\ outcome' = "returned"
      BY <1>1, <1>12 DEF ReadAllReturns
    <2>2. Told' => Told
      BY <2>1 DEF Told
    <2>3. \A i \in DOMAIN batch : i < pos
      BY <1>1, <2>1
    <2>4. Told => ToSet(data) = {i \in DOMAIN batch : Collects(i)}
      BY <2>1, <2>3 DEF DataInv
    <2> QED
      BY <2>1, <2>2, <2>4 DEF DataInv, Collects
  <1>13. CASE ReadAllFails
    <2>1. /\ UNCHANGED <<call, batch, pos, mode, outcome>> /\ pc = "failed" /\ pc' = "done"
          /\ data' = << >>
      BY <1>13 DEF ReadAllFails
    <2>2. data' \in Seq(Nat) /\ DOMAIN data' = {}
      BY <2>1
    <2> QED
      BY <2>1, <2>2 DEF DataInv
  <1>14. CASE FetchMany \/ ResultDrained
    BY <1>14, CollectsNothing DEF FetchMany, ResultDrained
  <1>15. CASE CloseAfterFailure \/ \E result \in {"returned", "close failed"} : ScriptCompletes(result)
    BY <1>15, CollectsNothing DEF ScriptCompletes, CloseAfterFailure
  <1> QED
    BY <1>2, <1>3, <1>4, <1>5, <1>6, <1>7, <1>8, <1>9, <1>10, <1>11, <1>12, <1>13, <1>14, <1>15
    DEF Next

LEMMA DataInvariance == Spec => [](IInv /\ DataInv)
  <1>1. Init => DataInv
    <2> SUFFICES ASSUME Init PROVE DataInv
      OBVIOUS
    <2>1. data = << >> /\ data \in Seq(Nat) /\ DOMAIN data = {}
      BY DEF Init
    <2> QED
      BY <2>1 DEF Init, DataInv
  <1> QED
    BY <1>1, DataStep, MultiResultInitInv, MultiResultStepInv, PTL DEF Spec

\* read_all_result_sets returns each result set once and in its place, or raises
\* and returns none, for batches of any length.
THEOREM ReadsAllResultSets == Spec => []DataIsComplete
  <1>1. IInv /\ DataInv => DataIsComplete
    BY DEF DataInv, DataIsComplete, Told
  <1> QED
    BY <1>1, DataInvariance, PTL

=============================================================================
