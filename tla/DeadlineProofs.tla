---------------------------- MODULE DeadlineProofs ----------------------------
(***************************************************************************)
(* The schedule and the deadlines for every data.txt, every maximal score  *)
(* and every course of the clock.                                          *)
(***************************************************************************)
EXTENDS Deadlines, NumberLemmas, TLAPS

-------------------------------------------------------------------------------
(* Types and the index. *)

\* The connection is given up at 0 and the next one starts half way up.
ScoreKept ==
    /\ pc \in {"min", "max", "scan", "sleep", "poll"} => connection_score >= 1
    /\ pc = "loop" /\ ~connection_first_loop => connection_score >= 1
    /\ pc = "away" => connection_first_loop

\* No time of the walk lies behind the end of the last row.
WithinPeriod == relative_time_duration < End(N)

\* A score is stamped after the last cycle that has ended, and before now.
StampsInOrder == last_end <= time_now /\ time_now <= now

Inv == TypeOK /\ IndexInRange /\ WithinPeriod /\ ScoreKept /\ StampsInOrder

LEMMA Schedule ==
    /\ N \in Nat \ {0} /\ End(N) \in Nat \ {0}
    /\ \A i \in 1 .. N : Lines[i] \in Rows /\ End(i) \in Nat
  <1>1. N \in Nat /\ \A i \in 1 .. N : Lines[i] \in Rows
    BY LinesAssumption DEF N
  <1>2. \A i \in 1 .. N : End(i) \in Nat
    BY <1>1 DEF End, Rows
  <1> QED BY <1>1, <1>2, LinesAssumption

LEMMA RelativeRange == \A t \in Nat : Relative(t) \in 0 .. End(N) - 1
  BY Schedule, ModRange DEF Relative

LEMMA InitInv == Init => Inv
  <1> SUFFICES ASSUME Init PROVE Inv
    OBVIOUS
  <1>0. connection_first_loop \in BOOLEAN /\ missed_latest_end_time \in BOOLEAN
    BY DEF Init
  <1>3. regular \in BOOLEAN
    BY DEF Init
  <1>1. TypeOK
    BY <1>0, <1>3 DEF Init, TypeOK
  <1>4. ScoreKept
    BY DEF Init, ScoreKept
  <1>5. StampsInOrder
    BY DEF Init, StampsInOrder
  <1>2. IndexInRange /\ WithinPeriod
    BY Schedule DEF Init, IndexInRange, WithinPeriod
  <1> QED BY <1>1, <1>2, <1>4, <1>5 DEF Inv

\* A look-up stays within the schedule.
LEMMA LookUpInRange ==
    ASSUME NEW what \in {"none", "min", "max", "push"}, Inv, LookUp(what)
    PROVE  /\ IndexInRange' /\ WithinPeriod'
           /\ threshold_current_index' \in Nat
           /\ relative_time_duration' \in Nat
           /\ last_look' \in Nat /\ regular' \in BOOLEAN
           /\ looking' = what /\ pc' = "scan"
  <1>1. now \in Nat /\ threshold_current_index \in 1 .. N /\ regular \in BOOLEAN
    BY DEF Inv, TypeOK, IndexInRange
  <1>2. /\ relative_time_duration' = Relative(now)
        /\ threshold_current_index' \in {threshold_current_index, 1}
        /\ last_look' = now /\ looking' = what /\ pc' = "scan"
        /\ regular' \in BOOLEAN
    BY <1>1 DEF LookUp, Rewound
  <1>3. threshold_current_index' \in 1 .. N
    BY <1>1, <1>2, Schedule
  <1>4. Relative(now) \in 0 .. End(N) - 1
    BY <1>1, RelativeRange
  <1>5. IndexInRange' /\ threshold_current_index' \in Nat
    BY <1>3, Schedule DEF IndexInRange
  <1>6. WithinPeriod' /\ relative_time_duration' \in Nat
    BY <1>2, <1>4, Schedule DEF WithinPeriod
  <1> QED BY <1>1, <1>2, <1>5, <1>6

\* The row that is found has thresholds.
LEMMA RowIsRow == Inv => Row \in Rows
  BY Schedule DEF Inv, IndexInRange, Row

LEMMA NextInv == Inv /\ [Next]_vars => Inv'
  <1> SUFFICES ASSUME Inv, [Next]_vars PROVE Inv'
    OBVIOUS
  <1>0. TypeOK /\ IndexInRange /\ WithinPeriod /\ ScoreKept /\ StampsInOrder
    BY DEF Inv
  <1>r. Row.min \in Nat /\ Row.max \in Nat
    BY RowIsRow DEF Rows
  <1> USE DEF TypeOK, IndexInRange, WithinPeriod, ScoreKept, StampsInOrder
  <1> USE DEF lookVars, scoreVars, timeVars, stampVars, obsVars
  <1>1. CASE LoopDisconnected
    BY <1>0, <1>1 DEF LoopDisconnected, Inv
  <1>2. CASE Connected
    BY <1>0, <1>2 DEF Connected, Inv
  <1>3. CASE StartCycle
    <2>1. connection_score' \in Nat /\ connection_score' >= 1
      BY <1>0, <1>3, TimeAssumption DEF StartCycle
    <2>2. time_now' \in Nat /\ stamp' \in Nat /\ last_end' <= time_now'
          /\ time_now' <= now'
      BY <1>0, <1>3 DEF StartCycle
    <2> QED BY <1>0, <1>3, <2>1, <2>2 DEF StartCycle, Inv
  <1>4. CASE LookUpMin
    <2>1. LookUp("min")
      BY <1>4 DEF LookUpMin
    <2>2. pc = "min"
      BY <1>4 DEF LookUpMin
    <2> HIDE DEF LookUp
    <2> QED BY <1>0, <1>4, <2>1, <2>2, LookUpInRange DEF LookUpMin, Inv
  <1>5. CASE LookUpMax
    <2>1. LookUp("max")
      BY <1>5 DEF LookUpMax
    <2>2. pc = "max"
      BY <1>5 DEF LookUpMax
    <2> QED BY <1>0, <1>5, <2>1, <2>2, LookUpInRange DEF LookUpMax, Inv
  <1>6. CASE Advance
    <2>1. threshold_current_index # N
      BY <1>0, <1>6, Schedule DEF Advance
    <2>2. threshold_current_index' \in 1 .. N
      BY <1>0, <1>6, <2>1, Schedule DEF Advance
    <2> QED BY <1>0, <1>6, <2>2 DEF Advance, Inv
  <1>7. CASE FoundMin
    BY <1>0, <1>r, <1>7 DEF FoundMin, Found, Inv
  <1>8. CASE FoundMax
    <2>1. app_latest_end_time' \in Nat
      BY <1>0, <1>r, <1>8 DEF FoundMax
    <2>2. missed_latest_end_time' \in BOOLEAN
      BY <1>8 DEF FoundMax
    <2> QED BY <1>0, <1>8, <2>1, <2>2 DEF FoundMax, Found, Inv
  <1>9. CASE SleptUntilEarliest
    BY <1>0, <1>9 DEF SleptUntilEarliest, Inv
  <1>10. CASE FinishedConnected
    BY <1>0, <1>10 DEF FinishedConnected, Inv
  <1>11. CASE FinishedLost
    BY <1>0, <1>11 DEF FinishedLost, Inv
  <1>12. CASE PollAgain
    BY <1>0, <1>12 DEF PollAgain, Inv
  <1>13. CASE MissDeadline
    <2>1. /\ pc = "poll" /\ time_now' = now /\ stamp' = now
          /\ connection_score' = connection_score - 1
          /\ missed_latest_end_time' = TRUE
          /\ UNCHANGED <<now, connection_first_loop, timeVars, before, last_end>>
      BY <1>13 DEF MissDeadline, MissedDownTo
    <2>2. connection_score' \in Nat
      BY <1>0, <2>1
    <2>3. CASE connection_score' <= 0
      <3>1. pc' = "lost" /\ UNCHANGED <<lookVars, last_look, regular>>
        BY <1>13, <2>3 DEF MissDeadline, MissedDownTo
      <3> QED BY <1>0, <2>1, <2>2, <3>1 DEF Inv
    <2>4. CASE ~(connection_score' <= 0)
      <3>1. LookUp("push")
        BY <1>13, <2>4 DEF MissDeadline, MissedDownTo
      <3>2. connection_score' >= 1
        BY <2>2, <2>4
      <3> QED BY <1>0, <2>1, <2>2, <3>1, <3>2, LookUpInRange DEF Inv
    <2> QED BY <2>3, <2>4
  <1>14. CASE FoundPush
    BY <1>0, <1>r, <1>14 DEF FoundPush, Found, Inv
  <1>15. CASE Tick
    <2>1. now' \in Nat /\ now <= now'
      BY <1>0, <1>15, TimeAssumption DEF Tick
    <2> QED BY <1>0, <1>15, <2>1 DEF Tick, Inv
  <1>16. CASE UNCHANGED vars
    BY <1>0, <1>16 DEF vars, Inv
  <1> QED
    BY <1>1, <1>2, <1>3, <1>4, <1>5, <1>6, <1>7, <1>8, <1>9, <1>10, <1>11,
       <1>12, <1>13, <1>14, <1>15, <1>16
    DEF Next, MainThread

LEMMA Invariance == Spec => []Inv
  BY InitInv, NextInv, PTL DEF Spec

\* Every variable keeps its type, for every data.txt and every maximal score:
\* in particular no step takes the score below 0.
THEOREM TypeCorrect == Spec => []TypeOK
  BY Invariance, PTL DEF Inv

\* The walk of correct_threshold_index never leaves the list of rows, whether
\* or not their ends are sorted, whatever the clock does between look-ups.
THEOREM WalkStaysInList == Spec => []IndexInRange
  BY Invariance, PTL DEF Inv

\* A score that rises is stamped no earlier than the last cycle ended.
THEOREM StampsFollow == Spec => StampFollowsCycle
  <1>1. Inv /\ Inv' /\ [Next]_vars
        => [connection_score' > connection_score => stamp' >= last_end]_vars
    <2> SUFFICES ASSUME Inv, Inv', [Next]_vars,
                        connection_score' > connection_score
                 PROVE  stamp' >= last_end
      OBVIOUS
    <2> USE DEF Inv, TypeOK, StampsInOrder
    <2>1. CASE StartCycle
      BY <2>1 DEF StartCycle
    <2>2. CASE FinishedConnected
      BY <2>2 DEF FinishedConnected
    <2>3. CASE LoopDisconnected \/ MissDeadline
      <3>1. connection_score' <= connection_score
        BY <2>3 DEF LoopDisconnected, MissDeadline, MissedDownTo
      <3> QED BY <3>1
    <2>4. CASE \/ Connected \/ LookUpMin \/ FoundMin \/ LookUpMax
               \/ FoundMax \/ Advance \/ SleptUntilEarliest
               \/ FinishedLost \/ PollAgain \/ FoundPush \/ Tick
               \/ UNCHANGED vars
      <3>1. connection_score' = connection_score
        BY <2>4 DEF Connected, LookUpMin, FoundMin, LookUpMax, FoundMax,
           Advance, SleptUntilEarliest, FinishedLost, PollAgain, FoundPush,
           Tick, vars, scoreVars
      <3> QED BY <3>1
    <2> QED BY <2>1, <2>2, <2>3, <2>4 DEF Next, MainThread
  <1> QED BY <1>1, Invariance, PTL DEF Spec, StampFollowsCycle

-------------------------------------------------------------------------------
(* The right row. *)

\* Every row ends no earlier than the rows before it.
Sorted == \A i, j \in 1 .. N : i <= j => End(i) <= End(j)

\* While look-ups are close enough, the time of the last one is not before
\* the row the index is at, nor after it once the walk is over.
RowFits ==
    /\ last_look \in Nat /\ last_look <= now
    /\ relative_time_duration = Relative(last_look)
    /\ regular =>
        /\ threshold_current_index = 1
           \/ End(threshold_current_index - 1) <= relative_time_duration
        /\ pc # "scan" =>
            relative_time_duration <= End(threshold_current_index)

\* A look-up less than the last row's length after the one before does not
\* start behind the row of its time: either it is in the same period, or the
\* one before was in the last row and the schedule is started over.
LEMMA LookUpFits ==
    ASSUME Sorted, Inv, RowFits, pc # "scan", NEW what, LookUp(what),
           now' = now
    PROVE  RowFits'
  <1> DEFINE i == threshold_current_index
  <1> DEFINE g == now - last_look
  <1>1. /\ now \in Nat /\ last_look \in Nat /\ last_look <= now
        /\ i \in 1 .. N /\ regular \in BOOLEAN
    BY DEF Inv, TypeOK, IndexInRange, RowFits
  <1>2. /\ relative_time_duration' = Relative(now) /\ last_look' = now
        /\ pc' = "scan" /\ now' = now
    BY DEF LookUp
  <1>p. PICK previous \in EndsBeforeLast : i' = Rewound(i, now, previous)
    BY DEF LookUp
  <1>r. regular' => regular /\ g < LastLength
    BY DEF LookUp
  <1> SUFFICES ASSUME regular, g < LastLength, i' # 1
               PROVE  End(i' - 1) <= Relative(now)
    <2>1. regular' => i' = 1 \/ End(i' - 1) <= relative_time_duration'
      BY <1>2, <1>r
    <2>2. /\ last_look' \in Nat /\ last_look' <= now'
          /\ relative_time_duration' = Relative(last_look')
      BY <1>1, <1>2
    <2> QED BY <1>2, <2>1, <2>2 DEF RowFits
  <1>3. /\ i' = i /\ i # 1
        /\ ~(i = N /\ N > 1 /\ Relative(now) < End(N - 1))
    BY <1>p DEF Rewound, EndsBeforeLast
  <1>4. N > 1 /\ i - 1 \in 1 .. N /\ N - 1 \in 1 .. N
    BY <1>1, <1>3, Schedule
  <1>5. /\ End(i - 1) <= Relative(last_look) /\ Relative(last_look) <= End(i)
    BY <1>3 DEF RowFits
  <1>6. /\ End(N) \in Nat /\ End(N - 1) \in Nat /\ End(i) \in Nat
        /\ End(i - 1) \in Nat
    BY <1>1, <1>4, Schedule
  <1>7. g < End(N) - End(N - 1) /\ g < End(N) /\ g \in Nat
    BY <1>1, <1>4, <1>6 DEF LastLength
  <1>8. Relative(now) \in Nat /\ Relative(last_look) \in Nat
    BY <1>1, RelativeRange
  <1>9. \/ Relative(now) = Relative(last_look) + g
        \/ Relative(now) = Relative(last_look) + g - End(N)
    BY <1>1, <1>7, Schedule, ModStep DEF Relative
  <1>10. CASE Relative(now) = Relative(last_look) + g
    BY <1>3, <1>5, <1>6, <1>7, <1>8, <1>10
  <1>11. CASE Relative(now) = Relative(last_look) + g - End(N)
    <2>1. CASE i = N
      BY <1>3, <1>4, <1>6, <1>8, <2>1
    <2>2. CASE i # N
      <3>1. End(i) <= End(N - 1)
        BY <1>1, <1>4, <2>2, Schedule DEF Sorted
      <3>2. Relative(now) < 0
        BY <1>5, <1>6, <1>7, <1>8, <1>11, <3>1
      <3> QED BY <1>8, <3>2
    <2> QED BY <2>1, <2>2
  <1> QED BY <1>9, <1>10, <1>11

LEMMA StepFits ==
    ASSUME Sorted, Inv, Inv', RowFits, [Next]_vars
    PROVE  RowFits'
  <1> USE DEF lookVars, scoreVars, timeVars, stampVars, obsVars
  <1>1. CASE LookUpMin
    BY <1>1, LookUpFits DEF LookUpMin
  <1>2. CASE LookUpMax
    BY <1>2, LookUpFits DEF LookUpMax
  <1>3. CASE Advance
    <2>1. /\ End(threshold_current_index) < relative_time_duration
          /\ pc = "scan"
          /\ threshold_current_index' = threshold_current_index + 1
          /\ UNCHANGED <<now, pc, last_look, regular, relative_time_duration>>
      BY <1>3, Schedule DEF Advance, Inv, TypeOK, IndexInRange
    <2>2. threshold_current_index' - 1 = threshold_current_index
      BY <2>1 DEF Inv, TypeOK
    <2>3. /\ threshold_current_index \in 1 .. N
          /\ End(threshold_current_index) \in Nat
          /\ relative_time_duration \in Nat
      BY Schedule DEF Inv, TypeOK, IndexInRange
    <2> QED BY <2>1, <2>2, <2>3 DEF RowFits
  <1>4. CASE FoundMin \/ FoundMax \/ FoundPush
    <2>1. /\ relative_time_duration <= End(threshold_current_index)
          /\ UNCHANGED <<now, threshold_current_index, last_look, regular,
                         relative_time_duration>>
      BY <1>4 DEF FoundMin, FoundMax, FoundPush, Found
    <2> QED BY <2>1 DEF RowFits
  <1>5. CASE MissDeadline
    <2>1. CASE UNCHANGED <<lookVars, last_look, regular>>
      <3>1. pc = "poll" /\ UNCHANGED now
        BY <1>5 DEF MissDeadline, MissedDownTo
      <3> QED BY <2>1, <3>1 DEF RowFits
    <2>2. CASE LookUp("push")
      <3>1. pc = "poll"
        BY <1>5 DEF MissDeadline, MissedDownTo
      <3>2. now' = now
        BY <1>5 DEF MissDeadline, MissedDownTo
      <3> QED BY <2>2, <3>1, <3>2, LookUpFits
    <2> QED BY <1>5, <2>1, <2>2 DEF MissDeadline, MissedDownTo
  <1>6. CASE \/ LoopDisconnected \/ Connected \/ StartCycle
             \/ SleptUntilEarliest \/ FinishedConnected \/ FinishedLost
             \/ PollAgain \/ UNCHANGED vars
    <2>1. /\ pc # "scan" \/ pc' = pc
          /\ UNCHANGED <<now, threshold_current_index, last_look, regular,
                         relative_time_duration>>
      BY <1>6 DEF LoopDisconnected, Connected, StartCycle, SleptUntilEarliest,
         FinishedConnected, FinishedLost, PollAgain, vars
    <2> QED BY <2>1 DEF RowFits
  <1>7. CASE Tick
    <2>1. now <= now' /\ UNCHANGED <<pc, lookVars, last_look, regular>>
      BY <1>7, TimeAssumption DEF Tick, Inv, TypeOK
    <2> QED BY <2>1 DEF RowFits, Inv, TypeOK
  <1> QED
    BY <1>1, <1>2, <1>3, <1>4, <1>5, <1>6, <1>7 DEF Next, MainThread

\* The thresholds a cycle is judged by are those of its time, for every
\* sorted schedule, as long as no two look-ups are further apart than the
\* last row lasts.
THEOREM RightRow ==
    ASSUME Sorted
    PROVE  Spec => []RightInterval
  <1>1. Init => RowFits
    <2>1. Relative(0) = 0
      BY Schedule, ModStep DEF Relative
    <2>2. 0 <= End(1)
      BY Schedule
    <2> QED BY <2>1, <2>2 DEF Init, RowFits
  <1>2. RowFits => RightInterval
    BY DEF RowFits, RightInterval, Interval
  <1> QED BY <1>1, <1>2, StepFits, Invariance, PTL DEF Spec

-------------------------------------------------------------------------------
(* What a cycle is charged. *)

\* k points cost k deadlines, none shorter than L: the deadline that is set
\* lies one more deadline ahead.
Charged(L) ==
    /\ pc \in {"min", "max"} \/ (pc = "scan" /\ looking # "push") =>
            connection_score = before
    /\ pc \in {"max", "sleep"} => looking # "push"
    /\ pc \in {"sleep", "poll"} =>
            /\ connection_score <= before
            /\ app_latest_end_time
                    >= app_start_time + (before - connection_score + 1) * L
    /\ pc = "scan" /\ looking = "push" =>
            /\ connection_score <= before
            /\ app_latest_end_time
                    >= app_start_time + (before - connection_score) * L
    /\ pc \in {"scan", "poll"} /\ looking = "push" =>
            now - app_start_time > (before - connection_score) * L

LEMMA OneMore == \A k, L \in Nat : k * L \in Nat /\ (k + 1) * L = k * L + L
  OBVIOUS

\* One of the rows allows no more time than any other.
LEMMA ShortestRow ==
    \E i \in 1 .. N : \A j \in 1 .. N : Lines[i].max <= Lines[j].max
  <1> DEFINE S == {Lines[i].max : i \in 1 .. N}
  <1>1. S \in SUBSET Nat /\ S # {}
    BY Schedule DEF Rows
  <1>2. PICK x \in S : \A y \in S : x <= y
    BY <1>1, LeastExists
  <1> QED BY <1>2

LEMMA StepCharged ==
    ASSUME NEW L \in Nat, \A j \in 1 .. N : L <= Lines[j].max,
           Inv, Inv', Charged(L), [Next]_vars
    PROVE  Charged(L)'
  <1>0. /\ now \in Nat /\ connection_score \in Nat /\ before \in Nat
        /\ app_start_time \in Nat /\ app_latest_end_time \in Nat
    BY DEF Inv, TypeOK
  <1>r. Row.max \in Nat /\ L <= Row.max
    BY RowIsRow, Schedule DEF Inv, IndexInRange, Row, Rows
  <1> USE DEF lookVars, scoreVars, timeVars, stampVars, obsVars
  <1>1. CASE StartCycle
    BY <1>1 DEF StartCycle, Charged
  <1>2. CASE LookUpMin
    BY <1>2 DEF LookUpMin, LookUp, Charged
  <1>3. CASE LookUpMax
    BY <1>3 DEF LookUpMax, LookUp, Charged
  <1>4. CASE FoundMin
    BY <1>4 DEF FoundMin, Found, Charged
  <1>5. CASE FoundMax
    <2>1. /\ pc' = "sleep" /\ looking' = "max"
          /\ connection_score' = before' /\ before' = before
          /\ app_latest_end_time' = app_start_time + Row.max
          /\ app_start_time' = app_start_time
      BY <1>5 DEF FoundMax, Found, Charged
    <2>2. (before' - connection_score' + 1) * L = L
      BY <1>0, <2>1
    <2> QED BY <1>0, <1>r, <2>1, <2>2 DEF Charged
  <1>6. CASE Advance
    BY <1>6 DEF Advance, Charged
  <1>7. CASE MissDeadline
    <2>1. /\ pc = "poll" /\ now > app_latest_end_time
          /\ connection_score' = connection_score - 1
          /\ UNCHANGED <<now, timeVars, before>>
      BY <1>7 DEF MissDeadline, MissedDownTo
    <2>2. pc' = "lost" \/ (pc' = "scan" /\ looking' = "push")
      BY <1>7 DEF MissDeadline, MissedDownTo, LookUp
    <2>3. before' - connection_score' = before - connection_score + 1
      BY <1>0, <2>1
    <2>4. /\ connection_score <= before
          /\ app_latest_end_time
                >= app_start_time + (before - connection_score + 1) * L
      BY <2>1 DEF Charged
    <2>5. (before - connection_score + 1) * L \in Nat
      BY <1>0, <2>4, OneMore
    <2> QED BY <1>0, <2>1, <2>2, <2>3, <2>4, <2>5 DEF Charged
  <1>8. CASE FoundPush
    <2>1. /\ pc = "scan" /\ looking = "push" /\ pc' = "poll"
          /\ app_latest_end_time' = app_latest_end_time + Row.max
          /\ UNCHANGED <<now, looking, app_start_time, before,
                         connection_score>>
      BY <1>8 DEF FoundPush, Found
    <2>2. /\ connection_score <= before
          /\ app_latest_end_time
                >= app_start_time + (before - connection_score) * L
          /\ now - app_start_time > (before - connection_score) * L
      BY <2>1 DEF Charged
    <2>3. /\ (before - connection_score) * L \in Nat
          /\ (before - connection_score + 1) * L
                = (before - connection_score) * L + L
      BY <1>0, <2>2, OneMore
    <2> QED BY <1>0, <1>r, <2>1, <2>2, <2>3 DEF Charged
  <1>9. CASE Tick
    <2>1. now' \in Nat /\ now <= now'
      BY <1>0, <1>9, TimeAssumption DEF Tick
    <2>2. /\ UNCHANGED <<pc, looking, connection_score, before, app_start_time,
                         app_latest_end_time>>
          /\ (before - connection_score) * L \in Int
      BY <1>0, <1>9 DEF Tick
    <2> DEFINE X == (before - connection_score) * L
    <2>3. pc \in {"scan", "poll"} /\ looking = "push" => now - app_start_time > X
      BY DEF Charged
    <2>4. X \in Int
      BY <2>2
    <2>5. \A x \in Int, n, t \in Nat :
            n <= t /\ n - app_start_time > x => t - app_start_time > x
      BY <1>0
    <2>6. pc \in {"scan", "poll"} /\ looking = "push" => now' - app_start_time > X
      BY <1>0, <2>1, <2>3, <2>4, <2>5
    <2> QED BY <2>2, <2>6 DEF Charged
  <1>10. CASE SleptUntilEarliest
    BY <1>10 DEF SleptUntilEarliest, Charged
  <1>11. CASE PollAgain
    BY <1>11 DEF PollAgain, Charged
  <1>12. CASE LoopDisconnected \/ Connected \/ FinishedConnected \/ FinishedLost
    BY <1>12 DEF LoopDisconnected, Connected, FinishedConnected, FinishedLost,
       Charged
  <1>13. CASE UNCHANGED vars
    BY <1>13 DEF vars, Charged
  <1> QED
    BY <1>1, <1>2, <1>3, <1>4, <1>5, <1>6, <1>7, <1>8, <1>9, <1>10, <1>11,
       <1>12, <1>13
    DEF Next, MainThread

\* However short the deadlines and however often they are pushed, a cycle that
\* has cost k points has lasted longer than k times the shortest of them.
THEOREM ChargedFairly == Spec => []NeverOvercharged
  <1>1. PICK i \in 1 .. N : \A j \in 1 .. N : Lines[i].max <= Lines[j].max
    BY ShortestRow
  <1> DEFINE L == Lines[i].max
  <1>2. L \in Nat /\ \A j \in 1 .. N : L <= Lines[j].max
    BY <1>1, Schedule DEF Rows
  <1>3. Init => Charged(L)
    BY DEF Init, Charged
  <1>4. Charged(L) => NeverOvercharged
    BY DEF Charged, NeverOvercharged
  <1> HIDE DEF L
  <1>5. Inv /\ Inv' /\ Charged(L) /\ [Next]_vars => Charged(L)'
    BY <1>2, StepCharged
  <1> QED BY <1>3, <1>4, <1>5, Invariance, PTL DEF Spec
===============================================================================
