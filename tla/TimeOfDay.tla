----------------------------- MODULE TimeOfDay -----------------------------
(***************************************************************************)
(* The time of day: rtc.c reads the clock chip once, at boot, while the    *)
(* chip goes on; time.c finds the weekday; from then on update_system_time *)
(* of clock/clock.c counts timer interrupts.                               *)
(*                                                                         *)
(* A time is a record of six fields; the chip has a register for each.     *)
(***************************************************************************)
EXTENDS Integers, Sequences

CONSTANTS
    StartTimes,         \* what the chip shows at first
    Formats,            \* status register B: <<binary, twentyfour>>, two Booleans
    MSEC_PER_TICK,      \* what a timer interrupt adds, 10 in the code
    MaxUpdates,         \* bound: updates of the chip while it is read
    MaxTicks            \* bound: timer interrupts

VARIABLES
    chip,               \* the time on the chip
    updating,           \* the chip's update-in-progress flag
    updates,            \* how often the chip has been updated
    format,             \* its status register B
    stage,              \* where rtc_read_time is
    next,               \* the number of the field it reads next
    new, old,           \* its arrays: element 0 and element 1 of each
    shown,              \* history: what the chip has shown since the last pass began
    system_time,        \* get_gst()->system_time
    start,              \* history: what was read
    ticks               \* history: timer interrupts so far

vars == <<chip, updating, updates, format, stage, next, new, old, shown,
          system_time, start, ticks>>

Fields == <<"sec", "min", "hour", "day", "month", "year">>

\* A date of 2000 to 2098 to begin with, a tick that divides a second, and a chip
\* that is read within a minute.
Times ==
    [sec : 0 .. 59, min : 0 .. 59, hour : 0 .. 23, day : 1 .. 31, month : 1 .. 12, year : 0 .. 99]

TimeAssumption ==
    /\ \A t \in StartTimes : t \in Times /\ t.year < 99
    /\ Formats \subseteq BOOLEAN \X BOOLEAN
    /\ MSEC_PER_TICK \in Nat \ {0} /\ 1000 % MSEC_PER_TICK = 0
    /\ MaxUpdates \in 0 .. 60
    /\ MaxTicks \in Nat

-----------------------------------------------------------------------------
(* The calendar, 2000 to 2099: what the chip does.                         *)

DaysIn(month, year) ==
    CASE month \in {4, 6, 9, 11} -> 30
      [] month = 2 -> IF year % 4 = 0 THEN 29 ELSE 28
      [] OTHER -> 31

NextDay(t) ==
    IF t.day < DaysIn(t.month, t.year) THEN [t EXCEPT !.day = @ + 1]
    ELSE IF t.month < 12 THEN [t EXCEPT !.day = 1, !.month = @ + 1]
    ELSE [t EXCEPT !.day = 1, !.month = 1, !.year = @ + 1]

NextSecond(t) ==
    IF t.sec < 59 THEN [t EXCEPT !.sec = @ + 1]
    ELSE IF t.min < 59 THEN [t EXCEPT !.sec = 0, !.min = @ + 1]
    ELSE IF t.hour < 23 THEN [t EXCEPT !.sec = 0, !.min = 0, !.hour = @ + 1]
    ELSE NextDay([t EXCEPT !.sec = 0, !.min = 0, !.hour = 0])

\* Days from the first of January 2000 on, which was a Saturday; Sunday is 0.
DaysBeforeYear[year \in 0 .. 99] ==
    IF year = 0 THEN 0
    ELSE DaysBeforeYear[year - 1] + (IF (year - 1) % 4 = 0 THEN 366 ELSE 365)

DaysBeforeMonth(month, year) ==
    LET before[m \in 1 .. 12] ==
            IF m = 1 THEN 0 ELSE before[m - 1] + DaysIn(m - 1, year)
    IN  before[month]

Weekday(t) == (6 + DaysBeforeYear[t.year] + DaysBeforeMonth(t.month, t.year) + t.day - 1) % 7

\* A register holds two decimal digits unless the format is binary; the hours
\* may run from 1 to 12, with the uppermost bit set from noon on.
PM == 128
Bcd(n) == 16 * (n \div 10) + (n % 10)
Encoded(n) == IF format[1] THEN n ELSE Bcd(n)

Register(field) ==
    IF field = "hour" /\ ~format[2]
    THEN Encoded(IF chip.hour % 12 = 0 THEN 12 ELSE chip.hour % 12)
             + (IF chip.hour >= 12 THEN PM ELSE 0)
    ELSE Encoded(chip[field])

-----------------------------------------------------------------------------
(* rtc_read_time                                                           *)

NoTime == [field \in {"sec", "min", "hour", "day", "month", "year"} |-> 0]

Init ==
    /\ chip \in StartTimes
    /\ updating = FALSE
    /\ updates = 0
    /\ format \in Formats
    /\ stage = "first_wait"
    /\ next = 1
    /\ new = NoTime
    /\ old = NoTime
    /\ shown = {}
    /\ system_time = [msec |-> 0, time |-> NoTime, weekday |-> 0]
    /\ start = system_time
    /\ ticks = 0

\* The chip raises its flag some time before the registers change.
ChipUpdates ==
    /\ stage # "done"
    /\ updates < MaxUpdates
    /\ updating' = ~updating
    /\ IF updating
       THEN /\ chip' = NextSecond(chip)
            /\ updates' = updates + 1
            /\ shown' = shown \cup {chip'}
       ELSE UNCHANGED <<chip, updates, shown>>
    /\ UNCHANGED <<format, stage, next, new, old, system_time, start, ticks>>

\* while(rtc_read_prog_flag()), then the pass begins.
WaitForUpdate ==
    /\ stage \in {"first_wait", "wait"}
    /\ ~updating
    /\ stage' = IF stage = "wait" THEN "read" ELSE "first_read"
    /\ shown' = {chip}
    /\ UNCHANGED <<chip, updating, updates, format, next, new, old, system_time, start, ticks>>

ReadRegister ==
    /\ stage \in {"first_read", "read"}
    /\ next \in DOMAIN Fields
    /\ new' = [new EXCEPT ![Fields[next]] = Register(Fields[next])]
    /\ next' = next + 1
    /\ UNCHANGED <<chip, updating, updates, format, stage, old, shown, system_time, start, ticks>>

\* Faulty variant: the hours of the two passes are not compared.
SameButHour == \A field \in DOMAIN new \ {"hour"} : new[field] = old[field]

SameTwice == \A field \in DOMAIN new : new[field] = old[field]

\* The end of a pass: once more, unless the two passes saw the same.
EndPass ==
    /\ next \notin DOMAIN Fields
    /\ stage \in {"first_read", "read"}
    /\ IF stage = "read" /\ SameTwice
       THEN stage' = "convert" /\ UNCHANGED <<next, old>>
       ELSE stage' = "wait" /\ next' = 1 /\ old' = new
    /\ UNCHANGED <<chip, updating, updates, format, new, shown, system_time, start, ticks>>

to_binary(bcd) == 10 * (bcd \div 16) + (bcd % 16)

\* Schwerdtfeger's method; year is the register's, without the century, at most 99.
\* In January and February of year 0, year - 1 is 2^32 - 1 and the sum wraps.
time_get_weekday(year, month, day) ==
    LET e == <<0, 3, 2, 5, 0, 3, 5, 1, 4, 6, 2, 4>>
        g == IF month >= 3 THEN year ELSE year - 1
    IN  (day + e[month] + (IF g < 0 THEN 1073741822 ELSE g + g \div 4)) % 7

\* To binary, then to 24 hours: noon becomes 0, and 12 o'clock at night stays 12.
Convert ==
    LET binary ==
            IF format[1] THEN new
            ELSE [field \in DOMAIN new |->
                      IF field = "hour" THEN to_binary(new.hour % PM) + PM * (new.hour \div PM)
                      ELSE to_binary(new[field])]
        time == [binary EXCEPT
                    !.hour = IF ~format[2] /\ @ >= PM THEN ((@ % PM) + 12) % 24 ELSE @]
    IN  /\ stage = "convert"
        /\ stage' = "done"
        /\ system_time' = [msec |-> 0, time |-> time,
                           weekday |-> time_get_weekday(time.year, time.month, time.day)]
        /\ start' = system_time'
        /\ UNCHANGED <<chip, updating, updates, format, next, new, old, shown, ticks>>

-----------------------------------------------------------------------------
(* update_system_time                                                      *)

\* Faulty variant: the hour is not set back.
AddHourOnly(t) == [t EXCEPT !.time.hour = @ + 1]

\* Day and weekday only ever grow.
AddDay(t) == [t EXCEPT !.time.day = @ + 1, !.weekday = @ + 1]

AddHour(t) ==
    IF t.time.hour + 1 = 24 THEN AddDay([t EXCEPT !.time.hour = 0])
    ELSE [t EXCEPT !.time.hour = @ + 1]

AddMinute(t) ==
    IF t.time.min + 1 = 60 THEN AddHour([t EXCEPT !.time.min = 0])
    ELSE [t EXCEPT !.time.min = @ + 1]

AddSecond(t) ==
    IF t.time.sec + 1 >= 60 THEN AddMinute([t EXCEPT !.time.sec = 0])
    ELSE [t EXCEPT !.time.sec = @ + 1]

update_system_time ==
    /\ stage = "done"
    /\ ticks < MaxTicks
    /\ ticks' = ticks + 1
    /\ system_time' =
         IF system_time.msec + MSEC_PER_TICK >= 1000
         THEN AddSecond([system_time EXCEPT !.msec = 0])
         ELSE [system_time EXCEPT !.msec = @ + MSEC_PER_TICK]
    /\ UNCHANGED <<chip, updating, updates, format, stage, next, new, old, shown, start>>

Next ==
    ChipUpdates \/ WaitForUpdate \/ ReadRegister \/ EndPass \/ Convert \/ update_system_time

Spec == Init /\ [][Next]_vars

-----------------------------------------------------------------------------
(* Properties.                                                             *)

TypeOK ==
    /\ updating \in BOOLEAN
    /\ updates \in 0 .. MaxUpdates
    /\ stage \in {"first_wait", "first_read", "wait", "read", "convert", "done"}
    /\ next \in 1 .. Len(Fields) + 1
    /\ \A field \in DOMAIN new : new[field] \in 0 .. 255 /\ old[field] \in 0 .. 255
    /\ ticks \in 0 .. MaxTicks

\* The time is one that the chip has shown while it was read, never a mixture of
\* two, with its weekday.  Two exceptions: at 12 o'clock on a chip with twelve
\* hours the hour is wrong (rtc.c:83), in the first months of 2000 the weekday.
TimeIsWhole ==
    stage = "done" =>
        \E t \in shown :
            /\ \A field \in DOMAIN t \ {"hour"} : start.time[field] = t[field]
            /\ start.time.hour = (IF ~format[2] /\ t.hour % 12 = 0 THEN 12 - t.hour ELSE t.hour)
            /\ (t.year = 0 /\ t.month <= 2) \/ start.weekday = Weekday(t)

Msec(t) == t.msec + 1000 * (t.time.sec + 60 * (t.time.min + 60 * t.time.hour))

\* The time advances by what the ticks say, over every carry up to the day.
ClockFollowsTicks ==
    stage = "done" =>
        LET days == system_time.time.day - start.time.day IN
        /\ Msec(system_time) + 86400000 * days = Msec(start) + MSEC_PER_TICK * ticks
        /\ system_time.weekday - start.weekday = days
        /\ system_time.time.hour < 24

TimeIsRight == TimeIsWhole /\ ClockFollowsTicks
=============================================================================
