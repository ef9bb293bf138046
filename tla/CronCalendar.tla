---------------------------- MODULE CronCalendar ----------------------------
(***************************************************************************)
(* Cron expressions: what a five-field expression matches, its next run,   *)
(* the presets, the expressions the guided builder and the blueprints      *)
(* make, and the words an expression is described with.  A field is a list *)
(* of tokens.  The calendar is small: a constant is the last value of each *)
(* field, and an instant is the number of minutes since the first one.     *)
(***************************************************************************)
EXTENDS Integers, Sequences, FiniteSets, FiniteSetsExt, SequencesExt, Functions

CONSTANTS
    MinuteMax, HourMax,     \* 59 and 23
    Days, DayMax,           \* the days of a year, each <<month, day>>; 31
    DowMax,                 \* 6; 0 is Sunday
    SafeDay,                \* 28: a day every month has
    Nine, Quarter,          \* 9 o'clock and 15 minutes of the presets
    None

PerHour == MinuteMax + 1
PerDay == PerHour * (HourMax + 1)
Year == PerDay * Len(Days)

(* Date.getMinutes and its kin. *)
Minute(t) == t % PerHour
Hour(t) == (t \div PerHour) % (HourMax + 1)
Dow(t) == (t \div PerDay) % (DowMax + 1)
YearDay(t) == Days[((t \div PerDay) % Len(Days)) + 1]
Month(t) == YearDay(t)[1]
Day(t) == YearDay(t)[2]

-----------------------------------------------------------------------------
(* Tokens: "*", "a-b", "a", with or without "/n".  A number keeps whether it was written with
   two digits, as the presets are recognised by their text. *)
Star == [kind |-> "star", lo |-> 0, hi |-> 0, step |-> None, pad |-> FALSE]
Every(n) == [Star EXCEPT !.step = n]
One(n) == [Star EXCEPT !.kind = "one", !.lo = n, !.hi = n]
Padded(n) == [One(n) EXCEPT !.pad = n < 10]
Span(a, b) == [Star EXCEPT !.kind = "range", !.lo = a, !.hi = b]

Fields == {"min", "hour", "dom", "month", "dow"}
Spec(f) == CASE f = "min" -> <<0, MinuteMax>> [] f = "hour" -> <<0, HourMax>>
             [] f = "dom" -> <<1, DayMax>>    [] f = "month" -> <<1, Last(Days)[1]>>
             [] f = "dow" -> <<0, DowMax>>

(* parseField: "a/n" runs from a to the end of the field. *)
Bounds(tok, f) ==
    CASE tok.kind = "star" -> Spec(f)
      [] tok.kind = "one" /\ tok.step # None -> <<tok.lo, Spec(f)[2]>>
      [] OTHER -> <<tok.lo, tok.hi>>
Step(tok) == IF tok.step = None THEN 1 ELSE tok.step

TokenOk(tok, f) ==
    LET b == Bounds(tok, f) IN
    Step(tok) >= 1 /\ b[1] >= Spec(f)[1] /\ b[2] <= Spec(f)[2] /\ b[1] <= b[2]
TokenValues(tok, f) ==
    LET b == Bounds(tok, f) IN {v \in b[1]..b[2] : (v - b[1]) % Step(tok) = 0}

(* Any value of a field fits a star. *)
Fits(expr, f, v) ==
    \E n \in DOMAIN expr[f] : expr[f][n] = Star \/ v \in TokenValues(expr[f][n], f)
Valid(expr) ==
    /\ expr # None      \* a text that is not five fields
    /\ \A f \in Fields : expr[f] # <<>> /\ \A n \in DOMAIN expr[f] : TokenOk(expr[f][n], f)

(* cronMatches: when both the day of the month and the weekday are restricted, either will do. *)
Matches(expr, t) ==
    LET domHit == Fits(expr, "dom", Day(t))
        dowHit == Fits(expr, "dow", Dow(t))
        domStar == expr.dom = <<Star>>
        dowStar == expr.dow = <<Star>>
    IN  /\ Fits(expr, "min", Minute(t)) /\ Fits(expr, "hour", Hour(t))
        /\ Fits(expr, "month", Month(t))
        /\ CASE domStar /\ dowStar -> TRUE [] domStar -> dowHit [] dowStar -> domHit
             [] OTHER -> domHit \/ dowHit

(* nextCronRun: the first matching minute after now, within a year; 0 when there is none. *)
NextRun(expr, now) ==
    IF \E t \in now + 1 .. now + Year : Matches(expr, t)
    THEN CHOOSE t \in now + 1 .. now + Year :
            Matches(expr, t) /\ \A u \in now + 1 .. t - 1 : ~Matches(expr, u)
    ELSE 0

-----------------------------------------------------------------------------
Expr(min, hour, dom, month, dow) ==
    [min |-> <<min>>, hour |-> <<hour>>, dom |-> <<dom>>, month |-> <<month>>, dow |-> <<dow>>]

WeekDays == Span(1, DowMax - 1)
Presets ==
    {Expr(Every(Quarter), Star, Star, Star, Star), Expr(One(0), Star, Star, Star, Star),
     Expr(One(0), One(Nine), Star, Star, Star), Expr(One(0), One(Nine), Star, Star, WeekDays),
     Expr(One(0), One(Nine), Star, Star, One(1)), Expr(One(0), One(Nine), One(1), Star, Star)}

Clamp(n, lo, hi) == IF n < lo THEN lo ELSE IF n > hi THEN hi ELSE n

(* The guided builder. *)
ForInterval(n, unit) ==
    LET k == Clamp(n, 1, MinuteMax) IN
    IF unit = "hours" THEN Expr(One(0), Every(k), Star, Star, Star)
    ELSE Expr(Every(k), Star, Star, Star, Star)

ForDaily(at) == Expr(Padded(at[2]), Padded(at[1]), Star, Star, Star)
ForWeekly(dow, at) == Expr(Padded(at[2]), Padded(at[1]), Star, Star, One(dow))
ForMonthly(day, at) == Expr(Padded(at[2]), Padded(at[1]), One(Clamp(day, 1, SafeDay)), Star, Star)

(* resolveSchedule of a blueprint: a time with a recurrence or a weekday, or an interval of
   minutes, of any size. *)
Recurrences == {<<Star>>, <<WeekDays>>, <<One(0), One(DowMax)>>} \cup {<<One(d)>> : d \in 0..DowMax}
Blueprint(at, dow) == [Expr(One(at[2]), One(at[1]), Star, Star, Star) EXCEPT !.dow = dow]
BlueprintInterval(n) == Expr(Every(n), Star, Star, Star, Star)

-----------------------------------------------------------------------------
(* describeCronExpr: the shapes it has words for, in its order; None for any other. *)
IsNumber(field) == Len(field) = 1 /\ field[1].kind = "one" /\ field[1].step = None
IsEvery(field) == Len(field) = 1 /\ field[1].kind = "star" /\ field[1].step # None
Stars(expr, fields) == \A f \in fields : expr[f] = <<Star>>

Describe(expr) ==
    LET at == IF IsNumber(expr.hour) /\ IsNumber(expr.min)
              THEN <<expr.hour[1].lo, expr.min[1].lo>> ELSE None
        rest == {"dom", "month", "dow"}
    IN  CASE Stars(expr, Fields) -> [says |-> "minutes", n |-> 1]
          [] IsEvery(expr.min) /\ Stars(expr, Fields \ {"min"}) ->
                [says |-> "minutes", n |-> expr.min[1].step]
          [] IsEvery(expr.hour) /\ expr.min = <<One(0)>> /\ Stars(expr, rest) ->
                [says |-> "hours", n |-> expr.hour[1].step]
          [] expr.min = <<One(0)>> /\ Stars(expr, Fields \ {"min"}) -> [says |-> "hours", n |-> 1]
          [] at # None /\ Stars(expr, rest) -> [says |-> "daily", at |-> at]
          [] at # None /\ Stars(expr, {"dom", "month"})
                /\ expr.dow \in {<<WeekDays>>, [k \in 1..DowMax - 1 |-> One(k)]} ->
                [says |-> "weekdays", at |-> at]
          [] at # None /\ Stars(expr, {"dom", "month"}) /\ IsNumber(expr.dow) ->
                [says |-> "weekly", at |-> at, on |-> expr.dow[1].lo]
          [] at # None /\ Stars(expr, {"month", "dow"}) /\ IsNumber(expr.dom)
                /\ expr.dom[1].lo \in 1..SafeDay -> [says |-> "monthly", at |-> at, on |-> expr.dom[1].lo]
          [] at # None /\ Stars(expr, {"dom", "dow"}) /\ IsNumber(expr.month) ->
                [says |-> "in month", at |-> at, on |-> expr.month[1].lo]
          [] OTHER -> None

(* What the words mean, minute by minute.  "Every n minutes" can only be kept by an n that
   divides the hour, "every n hours" by one that divides the day; of the others the words are
   not held to anything. *)
AtTime(at, t) == Hour(t) = at[1] /\ Minute(t) = at[2]
Means(desc, t) ==
    CASE desc.says = "minutes" -> Minute(t) % desc.n = 0
      [] desc.says = "hours" -> Minute(t) = 0 /\ Hour(t) % desc.n = 0
      [] desc.says = "daily" -> AtTime(desc.at, t)
      [] desc.says = "weekdays" -> AtTime(desc.at, t) /\ Dow(t) \in 1..DowMax - 1
      [] desc.says = "weekly" -> AtTime(desc.at, t) /\ Dow(t) = desc.on
      [] desc.says = "monthly" -> AtTime(desc.at, t) /\ Day(t) = desc.on
      [] desc.says = "in month" -> AtTime(desc.at, t) /\ Month(t) = desc.on

Regular(desc) ==
    CASE desc.says = "minutes" -> PerHour % desc.n = 0
      [] desc.says = "hours" -> (HourMax + 1) % desc.n = 0
      [] OTHER -> TRUE

=============================================================================
