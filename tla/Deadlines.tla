------------------------------- MODULE Deadlines -------------------------------
(***************************************************************************)
(* The timing of a client's cycles: the schedule of the simulated          *)
(* application (src/src/client/simulated_application/application.cpp),     *)
(* looked up three times a cycle at least, and the deadlines the main      *)
(* thread (src/src/client/client.cpp) makes of it.  ClientLoop lets        *)
(* deadlines pass at any moment; here they pass when the clock says so.    *)
(*                                                                         *)
(* The clock advances by any amount between two steps, as the scheduler of *)
(* the machine has it; times are milliseconds since the application was    *)
(* initialized.  The list is indexed from 1.                               *)
(***************************************************************************)
EXTENDS Integers, Sequences

CONSTANTS
    File,           \* the rows of data.txt, as read
    MaxScore,       \* max_connection_score
    Horizon         \* bound on the clock

\* Rows that are not separated by commas are read and left out.
Lines == SelectSeq(File, LAMBDA row : row.commas)
N == Len(Lines)
End(i) == Lines[i].end

Rows == [min : Nat, max : Nat, end : Nat, commas : BOOLEAN]

ASSUME LinesAssumption ==
    /\ Lines \in Seq(Rows) /\ N > 0
    /\ End(N) > 0
ASSUME TimeAssumption == Horizon \in Nat /\ MaxScore \in Nat /\ MaxScore >= 2

VARIABLES
    now, pc,
    \* the application
    threshold_current_index, relative_time_duration,
    \* the main thread; looking is what the look-up under way is for
    looking, connection_first_loop, connection_score, missed_latest_end_time,
    app_start_time, app_earliest_end_time, app_latest_end_time, time_now,
    \* the time stamp of the last score queued
    stamp,
    \* observers, read by no step: the score at the start of the cycle, the
    \* end of the last successful cycle, the time of the last look-up, and
    \* whether all look-ups so far were close enough to see every period end
    before, last_end, last_look, regular

clockVars == <<now>>
lookVars == <<threshold_current_index, relative_time_duration, looking>>
scoreVars == <<connection_first_loop, connection_score, missed_latest_end_time>>
timeVars == <<app_start_time, app_earliest_end_time, app_latest_end_time>>
stampVars == <<time_now, stamp>>
obsVars == <<before, last_end, last_look, regular>>
vars == <<now, pc, lookVars, scoreVars, timeVars, stampVars, obsVars>>

Init ==
    /\ now = 0 /\ pc = "lost"
    /\ threshold_current_index = 1 /\ relative_time_duration = 0
    /\ looking = "none"
    /\ connection_first_loop = TRUE /\ connection_score = 0
    /\ missed_latest_end_time = FALSE
    /\ app_start_time = 0
    /\ app_earliest_end_time = 0 /\ app_latest_end_time = 0
    /\ time_now = 0 /\ stamp = 0
    /\ before = 0 /\ last_end = 0 /\ last_look = 0 /\ regular = TRUE

-------------------------------------------------------------------------------
(* correct_threshold_index. *)

\* Mutant of Relative: periods are not folded onto the first.
RelativeUnfolded(t) == t

Relative(t) == t % End(N)

\* The element before the last row's end.  With a single row it lies before
\* the list: undefined, it is less than any time of the schedule or more.
EndsBeforeLast == IF N > 1 THEN {End(N - 1)} ELSE {0, End(N)}

\* Mutant of Rewound: the schedule is not started over.
RewoundNever(i, t, previous) == i

\* From the last row back to the first.
Rewound(i, t, previous) == IF i = N /\ Relative(t) < previous THEN 1 ELSE i

\* Gaps between look-ups that cannot skip the last row of the schedule.
LastLength == End(N) - (IF N > 1 THEN End(N - 1) ELSE 0)

\* The look-up reads the clock and starts over if it must ...
LookUp(what) ==
    /\ pc' = "scan" /\ looking' = what
    /\ relative_time_duration' = Relative(now)
    /\ \E previous \in EndsBeforeLast :
        threshold_current_index' = Rewound(threshold_current_index, now, previous)
    /\ last_look' = now
    /\ regular' = (regular /\ now - last_look < LastLength)

\* ... then walks on to the first row that is not over.
Advance ==
    /\ pc = "scan"
    /\ relative_time_duration > End(threshold_current_index)
    /\ threshold_current_index' = threshold_current_index + 1
    /\ UNCHANGED <<now, pc, relative_time_duration, looking, scoreVars,
                   timeVars, stampVars, obsVars>>

Row == Lines[threshold_current_index]
Found(what) ==
    /\ pc = "scan" /\ looking = what
    /\ relative_time_duration <= End(threshold_current_index)

-------------------------------------------------------------------------------
(* The main thread of the client. *)

\* The loop finds no connection, for the first time since there was one; a
\* connection that is lost before any cycle started on it counts as none.
LoopDisconnected ==
    /\ pc = "lost" \/ (pc = "loop" /\ ~connection_first_loop)
    /\ pc' = "away"
    /\ connection_first_loop' = TRUE
    /\ connection_score' = 0
    /\ time_now' = now /\ stamp' = now
    /\ UNCHANGED <<now, lookVars, missed_latest_end_time, timeVars, obsVars>>

\* connect_to_server has found a server, however long that took.
Connected ==
    /\ pc = "away" /\ pc' = "loop"
    /\ UNCHANGED <<now, lookVars, scoreVars, timeVars, stampVars, obsVars>>

\* A connection is there: the cycle starts; the first one is logged.
StartCycle ==
    /\ pc = "loop"
    /\ app_start_time' = now
    /\ connection_first_loop' = FALSE
    /\ IF connection_first_loop
       THEN /\ connection_score' = MaxScore \div 2
            /\ time_now' = now /\ stamp' = now
       ELSE UNCHANGED <<connection_score, time_now, stamp>>
    /\ before' = connection_score'
    /\ pc' = "min"
    /\ UNCHANGED <<now, lookVars, missed_latest_end_time, app_earliest_end_time,
                   app_latest_end_time, last_end, last_look, regular>>

\* get_min_threshold and get_max_threshold: two look-ups, each at its time.
LookUpMin ==
    /\ pc = "min" /\ LookUp("min")
    /\ UNCHANGED <<now, scoreVars, timeVars, stampVars, before, last_end>>

FoundMin ==
    /\ Found("min")
    /\ app_earliest_end_time' = app_start_time + Row.min
    /\ pc' = "max"
    /\ UNCHANGED <<now, lookVars, scoreVars, app_start_time,
                   app_latest_end_time, stampVars, obsVars>>

LookUpMax ==
    /\ pc = "max" /\ LookUp("max")
    /\ UNCHANGED <<now, scoreVars, timeVars, stampVars, before, last_end>>

FoundMax ==
    /\ Found("max")
    /\ app_latest_end_time' = app_start_time + Row.max
    /\ missed_latest_end_time' = FALSE
    /\ pc' = "sleep"
    /\ UNCHANGED <<now, lookVars, connection_first_loop, connection_score,
                   app_start_time, app_earliest_end_time, stampVars, obsVars>>

SleptUntilEarliest ==
    /\ pc = "sleep" /\ now >= app_earliest_end_time
    /\ pc' = "poll"
    /\ UNCHANGED <<now, lookVars, scoreVars, timeVars, stampVars, obsVars>>

\* Mutant of FinishedConnected: the clock is not read again after the cycle.
FinishedUnread ==
    /\ pc = "poll" /\ pc' = "loop"
    /\ IF ~missed_latest_end_time /\ connection_score < MaxScore
       THEN connection_score' = connection_score + 1 /\ stamp' = time_now
       ELSE UNCHANGED <<connection_score, stamp>>
    /\ last_end' = now
    /\ UNCHANGED <<now, lookVars, connection_first_loop, missed_latest_end_time,
                   timeVars, time_now, before, last_look, regular>>

\* The application has finished and is connected.  The score that rises is
\* queued with the time time_now was read last, before this cycle's end.
FinishedConnected ==
    /\ pc = "poll" /\ pc' = "loop"
    /\ IF ~missed_latest_end_time /\ connection_score < MaxScore
       THEN connection_score' = connection_score + 1 /\ stamp' = time_now
       ELSE UNCHANGED <<connection_score, stamp>>
    /\ time_now' = now /\ last_end' = now
    /\ UNCHANGED <<now, lookVars, connection_first_loop, missed_latest_end_time,
                   timeVars, before, last_look, regular>>

\* It has finished and is not.
FinishedLost ==
    /\ pc = "poll" /\ pc' = "lost"
    /\ UNCHANGED <<now, lookVars, scoreVars, timeVars, stampVars, obsVars>>

PollAgain ==
    /\ pc = "poll" /\ now <= app_latest_end_time
    /\ time_now' = now
    /\ UNCHANGED <<now, pc, lookVars, scoreVars, timeVars, stamp, obsVars>>

\* The latest end time has passed: the score falls, and at 0 the connection
\* is given up; otherwise the next deadline is looked up.
MissedDownTo(limit) ==
    /\ pc = "poll" /\ now > app_latest_end_time
    /\ time_now' = now /\ stamp' = now
    /\ connection_score' = connection_score - 1
    /\ missed_latest_end_time' = TRUE
    /\ IF connection_score' <= limit
       THEN pc' = "lost" /\ UNCHANGED <<lookVars, last_look, regular>>
       ELSE LookUp("push")
    /\ UNCHANGED <<now, connection_first_loop, timeVars, before, last_end>>

\* Mutant of MissDeadline: a connection is kept at 0.
MissDeadlineLate == MissedDownTo(-1)

MissDeadline == MissedDownTo(0)

\* Mutant of FoundPush: the deadline stays where it was.
FoundPushStays ==
    /\ Found("push") /\ pc' = "poll"
    /\ UNCHANGED <<now, lookVars, scoreVars, timeVars, stampVars, obsVars>>

FoundPush ==
    /\ Found("push")
    /\ app_latest_end_time' = app_latest_end_time + Row.max
    /\ pc' = "poll"
    /\ UNCHANGED <<now, lookVars, scoreVars, app_start_time,
                   app_earliest_end_time, stampVars, obsVars>>

MainThread ==
    \/ LoopDisconnected \/ Connected \/ StartCycle
    \/ LookUpMin \/ FoundMin \/ LookUpMax \/ FoundMax \/ Advance
    \/ SleptUntilEarliest \/ FinishedConnected \/ FinishedLost \/ PollAgain
    \/ MissDeadline \/ FoundPush

Tick ==
    /\ now' \in (now + 1) .. Horizon
    /\ UNCHANGED <<pc, lookVars, scoreVars, timeVars, stampVars, obsVars>>

Next == MainThread \/ Tick
Spec == Init /\ [][Next]_vars

-------------------------------------------------------------------------------
(* What the timing promises. *)

\* Every variable keeps its type.
TypeOK ==
    /\ now \in Nat
    /\ pc \in {"lost", "away", "loop", "min", "max", "scan", "sleep", "poll"}
    /\ threshold_current_index \in Nat /\ relative_time_duration \in Nat
    /\ looking \in {"none", "min", "max", "push"}
    /\ connection_first_loop \in BOOLEAN /\ missed_latest_end_time \in BOOLEAN
    /\ connection_score \in Nat
    /\ app_start_time \in Nat
    /\ app_earliest_end_time \in Nat /\ app_latest_end_time \in Nat
    /\ time_now \in Nat /\ stamp \in Nat
    /\ before \in Nat /\ last_end \in Nat /\ last_look \in Nat
    /\ regular \in BOOLEAN

\* The walk through the schedule never leaves the list, whatever the rows
\* say: application.cpp:171 has no other bound than the last row's end.  (With
\* a single row application.cpp:165 reads the element before the list all the
\* same: whatever it finds there, the row used is the only one there is.)
IndexInRange == threshold_current_index \in 1 .. N

\* The rows whose interval holds the time, the ends belonging to both sides.
Interval(i, rel) == (i = 1 \/ End(i - 1) <= rel) /\ rel <= End(i)

\* A row that has been found is the row of its time as long as no two
\* look-ups were further apart than the last row lasts: application.cpp:163
\* rewinds the schedule only if it is looked up during the last row.
RightInterval ==
    regular /\ pc \in {"max", "sleep", "poll"} =>
        Interval(threshold_current_index, relative_time_duration)

\* A cycle is charged one point for each deadline it lets pass, not for each
\* look at the clock: k points cost more than k times the shortest deadline.
NeverOvercharged ==
    pc \in {"scan", "poll"} /\ missed_latest_end_time /\ looking = "push" =>
        \E i \in 1 .. N :
            now - app_start_time > (before - connection_score) * Lines[i].max

\* A score that rises is stamped after the end of the cycle before, so the
\* plots drawn from the log never show a score before the one it replaced.
StampFollowsCycle ==
    [][connection_score' > connection_score => stamp' >= last_end]_vars
===============================================================================
