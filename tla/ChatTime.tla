------------------------------- MODULE ChatTime -------------------------------
(***************************************************************************)
(* ChatManager::FormatMsgTime (core/chat_manager.cpp): what the list of    *)
(* messages says of the time of a message, which is asked again and again  *)
(* while the clock goes on.  Times are minutes since 2021-01-01, a Friday; *)
(* the C library's local time is a calendar of five years, one of them a   *)
(* leap year.  A label is its kind, one per branch, and the numbers shown. *)
(***************************************************************************)
EXTENDS Integers, Sequences

CONSTANTS MsgDays,   \* days on which messages were sent, 0 for 2021-01-01
          Lags,      \* days between that and a look at the list, either way
          Minutes    \* minutes of those days

ASSUME TimeAssumption ==
    /\ MsgDays \subseteq Nat /\ Lags \subseteq Nat /\ Minutes \subseteq 0 .. 24 * 60 - 1

VARIABLES msgTimeStamp,  \* when the message was sent
          curTime        \* the clock when its label is asked for

timeVars == <<msgTimeStamp, curTime>>

-----------------------------------------------------------------------------
\* localtime.

Day == 24 * 60
Date(t) == t \div Day
YearStart == [y \in 2021 .. 2026 |-> 365 * (y - 2021) + (IF y > 2024 THEN 1 ELSE 0)]
\* The calendar ends before any look at the list that is gone through.
ASSUME CalendarAssumption ==
    \A day \in MsgDays, lag \in Lags : day + lag < YearStart[2026]

MonthLengths(y) == <<31, IF y = 2024 THEN 29 ELSE 28, 31, 30, 31, 30, 31, 31, 30, 31, 30, 31>>
MonthStart(y) ==
    LET start[m \in 1 .. 12] ==
            IF m = 1 THEN YearStart[y] ELSE start[m - 1] + MonthLengths(y)[m - 1]
    IN  start

localtime(t) ==
    LET year == CHOOSE y \in 2021 .. 2025 : YearStart[y] <= Date(t) /\ Date(t) < YearStart[y + 1]
        start == MonthStart(year)
        mon == CHOOSE m \in 1 .. 12 :
                   /\ start[m] <= Date(t)
                   /\ Date(t) < start[m] + MonthLengths(year)[m]
    IN  [tm_year |-> year, tm_mon |-> mon, tm_mday |-> Date(t) - start[mon] + 1,
         tm_wday |-> (Date(t) + 5) % 7]

-----------------------------------------------------------------------------
kTimeSpanHalfHour == 60
kTimeSpanMin == 10
Distance(a, b) == IF a < b THEN b - a ELSE a - b

\* Seeded fault: the same week is told by the days of the week.
LabelInYearByWeekDay(curDay, msgDay, t) ==
    CASE curDay.tm_mday = msgDay.tm_mday -> <<"clock", t % Day>>
      [] curDay.tm_mday # msgDay.tm_mday /\ curDay.tm_wday > msgDay.tm_wday
           -> <<"weekday", msgDay.tm_wday>>
      [] OTHER -> <<"monthDay", msgDay.tm_mon, msgDay.tm_mday>>

\* Within a year, the day of the month is compared, and its seventh; never
\* the month.
LabelInYear(curDay, msgDay, t) ==
    CASE curDay.tm_mday = msgDay.tm_mday -> <<"clock", t % Day>>
      [] curDay.tm_mday # msgDay.tm_mday /\ curDay.tm_mday \div 7 = msgDay.tm_mday \div 7
           -> <<"weekday", msgDay.tm_wday>>
      [] OTHER -> <<"monthDay", msgDay.tm_mon, msgDay.tm_mday>>

FormatMsgTime(t, now) ==
    LET curDay == localtime(now)
        msgDay == localtime(t)
        timeSpan == Distance(t, now)
    IN  IF timeSpan <= kTimeSpanMin THEN <<"now">>
        ELSE IF timeSpan <= kTimeSpanHalfHour THEN <<"minutes", timeSpan>>
        ELSE IF curDay.tm_year = msgDay.tm_year THEN LabelInYear(curDay, msgDay, t)
        ELSE IF Distance(msgDay.tm_year, curDay.tm_year) <= 1
             THEN <<"yearMonth", msgDay.tm_year, msgDay.tm_mon>>
        ELSE <<"longAgo">>

label == FormatMsgTime(msgTimeStamp, curTime)

-----------------------------------------------------------------------------
\* A message may come from a clock ahead of this one.
TimeInit ==
    /\ \E d \in MsgDays, m \in Minutes : msgTimeStamp = d * Day + m
    /\ \E lag \in Lags \cup {-l : l \in Lags}, m \in Minutes :
          curTime = (Date(msgTimeStamp) + lag) * Day + m
    /\ curTime >= 0

\* The list is looked at again in minute m of a day, later that day or on
\* another one.
Later(day, m) ==
    LET time == day * Day + m
    IN  /\ curTime < time
        /\ curTime' = time
        /\ UNCHANGED msgTimeStamp

TimeNext ==
    \/ \E lag \in Lags : Later(Date(msgTimeStamp) + lag, curTime % Day)
    \/ \E m \in Minutes : Later(Date(curTime), m)

\* A message in a list, by itself; Library has it among the other functions.
TimeSpec == TimeInit /\ [][TimeNext]_timeVars

-----------------------------------------------------------------------------
\* How coarse each kind of label is.
Coarseness == [now |-> 1, minutes |-> 2, clock |-> 3, weekday |-> 4,
               monthDay |-> 5, yearMonth |-> 6, longAgo |-> 7]

\* The label takes a day of an earlier month for one of the current month.
MonthMissed ==
    /\ label[1] \in {"clock", "weekday"}
    /\ localtime(msgTimeStamp).tm_mon # localtime(curTime).tm_mon

\* The label of a message of the past never becomes finer as the clock goes on
\* (from a date back to a weekday or a time of day), but in one way: when it is
\* looked at in another month of the same year, FormatMsgTime compares the days
\* of the two months as if they were of one (chat_manager.cpp:36, :44).
LabelAges ==
    [][msgTimeStamp <= curTime /\ curTime < curTime' =>
          Coarseness[label[1]] <= Coarseness[label'[1]] \/ MonthMissed']_timeVars
==============================================================================
