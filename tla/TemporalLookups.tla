--------------------------- MODULE TemporalLookups ---------------------------
(***************************************************************************)
(* Dates and times in the database: how DatabaseOperations stores them as  *)
(* texts, what SQL it writes for Trunc, Extract and the casts to a date or *)
(* a time, one around the other, and what comes of it when the engine      *)
(* evaluates that SQL with its parameters.                                 *)
(*                                                                         *)
(* A text keeps the day, the second of the day, the microsecond and how    *)
(* many digits of the second's fraction it shows.  A Python value has a    *)
(* time zone in place of the digits.                                       *)
(***************************************************************************)
EXTENDS Integers, Sequences, FiniteSetsExt

CONSTANTS Days,          \* the days of values, as numbers
          Clocks,        \* the times of values, as <<second of the day, microsecond>>
          Years,         \* the years that contain those days and all that is made of them
          MaxDepth       \* how many lookups surround each other

ASSUME DaysAssumption == Days \subseteq Nat \ {0} /\ Clocks \subseteq (0 .. 86399) \X (0 .. 999999)

VARIABLES use_tz,         \* settings.USE_TZ
          database_zone,  \* the TIME_ZONE of the database's settings
          active_zone,    \* the current time zone of the application
          row,            \* what the column of the row holds
          expression,     \* the SQL, its parameters and its output field
          depth,          \* how many lookups it consists of
          meaning         \* history: its value in Python

vars == <<use_tz, database_zone, active_zone, row, expression, depth, meaning>>

NULL == [null |-> TRUE]
NoDate == 0
NoTime == -1
Number(n) == [number |-> n]

-----------------------------------------------------------------------------
(* The calendar. *)

IsLeap(y) == (y % 4 = 0 /\ y % 100 # 0) \/ y % 400 = 0
FirstOf(y, month) ==
  365 * y + ((y - 1) \div 4) - ((y - 1) \div 100) + ((y - 1) \div 400)
    + <<0, 31, 59, 90, 120, 151, 181, 212, 243, 273, 304, 334>>[month]
    + (IF month > 2 /\ IsLeap(y) THEN 1 ELSE 0)

YearOf(day) == CHOOSE y \in Years : FirstOf(y, 1) <= day /\ day < FirstOf(y + 1, 1)
MonthOf(day) == Max({month \in 1 .. 12 : FirstOf(YearOf(day), month) <= day})
MonthStart(day) == FirstOf(YearOf(day), MonthOf(day))
Weekday(day) == ((day - 1) % 7) + 1      \* from Monday, 1, to Sunday, 7
Thursday(day) == day - Weekday(day) + 4  \* its year is that of the ISO week

Periods == {"year", "quarter", "month", "week", "day"}
Units == [hour |-> 3600, minute |-> 60, second |-> 1]

\* The day on which the period began that a day is in.
Latest(period, day) ==
  LET firstIn(months) == Max({first \in {FirstOf(YearOf(day), m) : m \in months} : first <= day})
  IN  CASE period = "year"    -> firstIn({1})
        [] period = "quarter" -> firstIn({1, 4, 7, 10})
        [] period = "month"   -> firstIn(1 .. 12)
        [] period = "week"    -> CHOOSE monday \in day - 6 .. day : Weekday(monday) = 1
        [] period = "day"     -> day

-----------------------------------------------------------------------------
(* Values, and the texts that stand for them. *)

Offset == [UTC |-> 0, Named |-> -25200]

\* The same moment in another time zone.
InZone(value, zone) ==
  LET s == value.s - Offset[value.zone] + Offset[zone]
  IN  [value EXCEPT !.s = s % 86400, !.day = @ + (s \div 86400), !.zone = zone]

Moment(value) == IF value.zone = "naive" THEN value ELSE InZone(value, "UTC")

isoformat(value) ==
  [day |-> value.day, s |-> value.s, us |-> value.us, digits |-> IF value.us = 0 THEN 0 ELSE 6]

\* adapt_datefield_value(), adapt_timefield_value(), adapt_datetimefield_value()
adapt(value) ==
  IF value = NULL THEN NULL
  ELSE IF value.zone = "naive" THEN isoformat(value)
  ELSE isoformat(InZone(value, database_zone))

\* convert_datetimefield_value() and its siblings
convert(text, field) ==
  IF text = NULL THEN NULL
  ELSE [day |-> text.day, s |-> text.s, us |-> text.us,
        zone |-> IF field = "datetime" /\ use_tz THEN database_zone ELSE "naive"]

\* What the application may store in, or compare with, a field.
Values(field) ==
  CASE field = "date" -> [day : Days, s : {NoTime}, us : {0}, zone : {"naive"}]
    [] field = "time" -> {[day |-> NoDate, s |-> c[1], us |-> c[2], zone |-> "naive"] : c \in Clocks}
    [] field = "datetime" ->
         {[day |-> d, s |-> c[1], us |-> c[2], zone |-> z] :
            d \in Days, c \in Clocks, z \in IF use_tz THEN {"UTC", "Named"} ELSE {"naive"}}

\* One text is less than another, as the engine compares texts.
Less(a, b) ==
  LET key(t) == <<t.day, t.s, t.us, t.digits>>
  IN  \E i \in 1 .. 4 : key(a)[i] < key(b)[i] /\ \A j \in 1 .. i - 1 : key(a)[j] = key(b)[j]

Earlier(a, b) == Less(isoformat(Moment(a)), isoformat(Moment(b)))

-----------------------------------------------------------------------------
(* SQL, and how the engine evaluates it. *)

Node(op, by, args) == [op |-> op, by |-> by, args |-> args]
Column == Node("column", "", <<>>)
Marker == Node("marker", "", <<>>)

RECURSIVE Markers(_)
Markers(sql) ==
  IF sql.op = "marker" THEN 1 ELSE MapThenSumSet(LAMBDA i : Markers(sql.args[i]), DOMAIN sql.args)

strftime(format, text) ==
  CASE format = "%Y" -> YearOf(text.day)
    [] format = "%G" -> YearOf(Thursday(text.day))
    [] format = "%m" -> MonthOf(text.day)
    [] format = "%d" -> text.day - MonthStart(text.day) + 1
    [] format = "%V" -> (Thursday(text.day) - FirstOf(YearOf(Thursday(text.day)), 1)) \div 7 + 1
    [] format = "%w" -> Weekday(text.day) % 7
    [] format = "%u" -> Weekday(text.day)
    [] format = "%H" -> text.s \div 3600
    [] format = "%M" -> (text.s \div 60) % 60
    [] format = "%S" -> text.s % 60

\* The SQL computes with numbers: the quarter of a month, its first month, the
\* days since Monday, the days of a week from Sunday.
Arithmetic(by, n) ==
  CASE by = "quarter"       -> (n + 2) \div 3
    [] by = "first month"   -> ((n - 1) \div 3) * 3 + 1
    [] by = "since Monday"  -> n - 1
    [] by = "from Sunday"   -> n + 1

\* A function of the engine, of one or two arguments that are not NULL.
Date(day) == [day |-> day, s |-> NoTime, us |-> 0, digits |-> 0]
Function(op, by, first, second) ==
  CASE op = "date"         -> Date(first.day)
    [] op = "date start"   -> Date(Latest(by, first.day))
    [] op = "date back"    -> Date(first.day - second.number)
    [] op = "printf date"  -> Date(FirstOf(first.number, second.number))
    [] op = "|| midnight"  -> [first EXCEPT !.s = 0]
    [] op = "strftime"     -> Number(strftime(by, first))
    [] op = "arithmetic"   -> Number(Arithmetic(by, first.number))
    [] op = "time"         -> [first EXCEPT !.day = NoDate, !.us = 0, !.digits = 0]
    [] op = "1970 ||"      -> [first EXCEPT !.day = 719527]
    [] op = "time_trunc"   -> IF by \in Periods
                              THEN [first EXCEPT !.day = Latest(by, @), !.s = 0, !.us = 0]
                              ELSE [first EXCEPT !.s = @ - (@ % Units[by]), !.us = 0]
    [] op = "time_fmt_iso" -> [first EXCEPT !.digits = IF first.us = 0 THEN 0 ELSE 9]
    [] op = "SUBSTR"       -> [first EXCEPT !.day = NoDate, !.digits = Min({@, 6})]

RECURSIVE Value(_, _)
Value(sql, params) ==
  LET split == Markers(sql.args[1])
      first == Value(sql.args[1], SubSeq(params, 1, split))
      second == Value(sql.args[2], SubSeq(params, split + 1, Len(params)))
  IN  CASE sql.op = "column"   -> row
        [] sql.op = "marker"   -> params[1]
        [] sql.op = "COALESCE" -> IF first = NULL THEN second ELSE first
        [] sql.op = "CASE"     -> IF first = NULL THEN NULL ELSE second
        [] OTHER -> IF first = NULL \/ (Len(sql.args) = 2 /\ second = NULL) THEN NULL
                    ELSE Function(sql.op, sql.by, first, second)

\* A statement whose parameters are too few or too many is refused.
Evaluate(sql, params) ==
  IF Len(params) # Markers(sql) THEN [error |-> TRUE] ELSE Value(sql, params)

-----------------------------------------------------------------------------
(* The SQL of DatabaseOperations. *)

\* Mutant: the parameters of an expression that is written three times come twice.
RepeatedTwice(params, n) == params \o params

\* An expression that the SQL repeats brings its parameters along each time.
Repeated(params, n) == [i \in 1 .. n * Len(params) |-> params[((i - 1) % Len(params)) + 1]]
strftime_of(format, sql) == Node("strftime", format, <<sql>>)
UnlessNull(sql, result) == Node("CASE", "", <<sql, result>>)

\* The names with which a value may be extracted: quarter and week_day compute.
formats == [year |-> "%Y", iso_year |-> "%G", month |-> "%m", day |-> "%d", week |-> "%V",
            iso_week_day |-> "%u", hour |-> "%H", minute |-> "%M", second |-> "%S"]

extract_sql(lookup, sql) ==
  CASE lookup = "quarter"  -> Node("arithmetic", "quarter", <<strftime_of("%m", sql)>>)
    [] lookup = "week_day" -> Node("arithmetic", "from Sunday", <<strftime_of("%w", sql)>>)
    [] OTHER -> strftime_of(formats[lookup], sql)

WeekStart(sql) ==
  Node("date back", "", <<sql, Node("arithmetic", "since Monday", <<strftime_of("%u", sql)>>)>>)
QuarterStart(sql) ==
  UnlessNull(sql, Node("printf date", "",
    <<strftime_of("%Y", sql), Node("arithmetic", "first month", <<strftime_of("%m", sql)>>)>>))

date_trunc_sql(lookup, e) ==
  CASE lookup = "week"    -> [sql |-> WeekStart(e.sql), params |-> Repeated(e.params, 2)]
    [] lookup = "quarter" -> [sql |-> QuarterStart(e.sql), params |-> Repeated(e.params, 3)]
    [] lookup = "day"     -> [sql |-> Node("date", "", <<e.sql>>), params |-> e.params]
    [] OTHER -> [sql |-> Node("date start", lookup, <<e.sql>>), params |-> e.params]

time_extension_input(sql, time_only) ==
  IF time_only THEN Node("1970 ||", "", <<sql>>) ELSE sql
format_time_extension(sql, time_only) ==
  LET formatted == Node("time_fmt_iso", "", <<sql>>)
  IN  IF time_only THEN Node("SUBSTR", "", <<formatted>>) ELSE formatted

datetime_trunc_sql(lookup, e) ==
  IF lookup = "week"
  THEN LET date == date_trunc_sql("week", e)
       IN  [date EXCEPT !.sql = Node("|| midnight", "", <<@>>)]
  ELSE [sql |-> UnlessNull(e.sql, format_time_extension(
                  Node("time_trunc", lookup, <<time_extension_input(e.sql, FALSE)>>), FALSE)),
        params |-> Repeated(e.params, 2)]

time_trunc_sql(lookup, e) ==
  LET parsed == time_extension_input(Node("time", "", <<e.sql>>), TRUE)
  IN  [sql |-> UnlessNull(e.sql, format_time_extension(Node("time_trunc", lookup, <<parsed>>), TRUE)),
       params |-> Repeated(e.params, 2)]

datetime_cast_date_sql(e) == [sql |-> Node("date", "", <<e.sql>>), params |-> e.params]
datetime_cast_time_sql(e) ==
  [sql |-> UnlessNull(e.sql, format_time_extension(time_extension_input(e.sql, FALSE), TRUE)),
   params |-> Repeated(e.params, 2)]

\* Django passes the time zone of a lookup for datetimes when it uses time zones.
tzname == IF use_tz /\ expression.field = "datetime" THEN active_zone ELSE "None"

\* Mutant: only the application's time zone counts, not that of the texts.
SqlIsInUtc == tzname \in {"None", "UTC"}

\* _validate_timezone()
ValidTimezone == tzname = "None" \/ (tzname = "UTC" /\ database_zone = "UTC")

-----------------------------------------------------------------------------
(* What the lookups mean in Python. *)

Local(value) == IF tzname = "None" THEN value ELSE InZone(value, tzname)

Truncated(lookup, output, value) ==
  LET v == Local(value)
  IN  CASE output = "date" -> [v EXCEPT !.day = Latest(lookup, @), !.s = NoTime, !.us = 0, !.zone = "naive"]
        [] output = "time" -> [v EXCEPT !.day = NoDate, !.s = @ - (@ % Units[lookup]), !.us = 0, !.zone = "naive"]
        [] OTHER -> IF lookup \in Periods THEN [v EXCEPT !.day = Latest(lookup, @), !.s = 0, !.us = 0]
                    ELSE [v EXCEPT !.s = @ - (@ % Units[lookup]), !.us = 0]

Part(lookup, value) ==
  LET v == Local(value)
      isoYear == YearOf(Thursday(v.day))
  IN  CASE lookup = "year"         -> YearOf(v.day)
        [] lookup = "iso_year"     -> isoYear
        [] lookup = "quarter"      -> Cardinality({month \in {1, 4, 7, 10} : month <= MonthOf(v.day)})
        [] lookup = "month"        -> MonthOf(v.day)
        [] lookup = "day"          -> v.day - MonthStart(v.day) + 1
        [] lookup = "week"         -> (Latest("week", v.day) - Latest("week", FirstOf(isoYear, 1) + 3)) \div 7 + 1
        [] lookup = "week_day"     -> IF Weekday(v.day) = 7 THEN 1 ELSE Weekday(v.day) + 1
        [] lookup = "iso_week_day" -> Weekday(v.day)
        [] lookup = "hour"         -> v.s \div 3600
        [] lookup = "minute"       -> (v.s % 3600) \div 60
        [] lookup = "second"       -> v.s % 60

-----------------------------------------------------------------------------
(* A query. *)

Plain == [field |-> "none", sql |-> Column, params |-> <<>>]
Fields == {"date", "time", "datetime"}

Init ==
  /\ use_tz \in BOOLEAN
  /\ database_zone \in IF use_tz THEN {"UTC", "Named"} ELSE {"naive"}
  /\ active_zone \in IF use_tz THEN {"UTC", "Named"} ELSE {"naive"}
  /\ row = NULL /\ meaning = NULL
  /\ expression = Plain
  /\ depth = 0

Means(e, value) ==
  /\ expression' = e
  /\ meaning' = value
  /\ UNCHANGED <<use_tz, database_zone, active_zone>>

\* A row is stored and its column read.
ReadColumn ==
  /\ expression.field = "none"
  /\ \E field \in Fields : \E value \in Values(field) \cup {NULL} :
       /\ row' = adapt(value)
       /\ Means([Plain EXCEPT !.field = field], value)
  /\ UNCHANGED depth

\* A value of the application takes the place of a column, or that of a NULL in it.
UseValue ==
  /\ expression.field = "none"
  /\ \E field \in Fields : \E value \in Values(field) \cup {NULL} :
       \E sql \in {Marker, Node("COALESCE", "", <<Column, Marker>>)} :
         Means([field |-> field, sql |-> sql, params |-> <<adapt(value)>>], value)
  /\ UNCHANGED <<row, depth>>

Surround(e, field, value) ==
  /\ depth < MaxDepth
  /\ depth' = depth + 1
  /\ ValidTimezone
  /\ Means([sql |-> e.sql, params |-> e.params, field |-> field], value)
  /\ UNCHANGED row

\* The output fields that Django allows for a truncation of a field.
Outputs == CASE expression.field = "datetime" -> Fields
             [] expression.field \in {"date", "time"} -> {expression.field}
             [] OTHER -> {}

Trunc ==
  \E output \in Outputs :
    \E lookup \in CASE output = "date" -> Periods [] output = "time" -> DOMAIN Units
                    [] OTHER -> Periods \cup DOMAIN Units :
      Surround(CASE output = "date" -> date_trunc_sql(lookup, expression)
                 [] output = "time" -> time_trunc_sql(lookup, expression)
                 [] OTHER -> datetime_trunc_sql(lookup, expression),
               output,
               IF meaning = NULL THEN NULL ELSE Truncated(lookup, output, meaning))

TruncDate ==
  /\ expression.field = "datetime"
  /\ Surround(datetime_cast_date_sql(expression), "date",
              IF meaning = NULL THEN NULL ELSE Truncated("day", "date", meaning))

TruncTime ==
  /\ expression.field = "datetime"
  /\ Surround(datetime_cast_time_sql(expression), "time",
              IF meaning = NULL THEN NULL ELSE [Local(meaning) EXCEPT !.day = NoDate, !.zone = "naive"])

Extract ==
  /\ expression.field \in Fields
  /\ \E lookup \in CASE expression.field = "time" -> DOMAIN Units
                     [] expression.field = "date" -> (DOMAIN formats \ DOMAIN Units) \cup {"quarter", "week_day"}
                     [] OTHER -> DOMAIN formats \cup {"quarter", "week_day"} :
       Surround([sql |-> extract_sql(lookup, expression.sql), params |-> expression.params], "integer",
                IF meaning = NULL THEN NULL ELSE Number(Part(lookup, meaning)))

Next == ReadColumn \/ UseValue \/ Trunc \/ TruncDate \/ TruncTime \/ Extract

Spec == Init /\ [][Next]_vars

-----------------------------------------------------------------------------
Answer == Evaluate(expression.sql, expression.params)

\* However lookups surround each other, the database computes what Python would
\* have computed from the value that was stored, NULL for None included, and the
\* answer is written as that value would be stored, so that it can be read back
\* as well as compared with parameters.
LookupsAgree ==
  LET answer == Answer
  IN  CASE expression.field = "none"    -> TRUE
        [] expression.field = "integer" -> answer = meaning
        [] OTHER ->
             /\ answer = adapt(meaning)
             /\ meaning # NULL => Moment(convert(answer, expression.field)) = Moment(meaning)

\* The engine compares texts.  An answer comes before a value of the application
\* in that order exactly when it is earlier, whatever time zones the values are
\* in and however many digits of a second they have.
ComparesAsValues ==
  LET answer == Answer
  IN  expression.field \in Fields /\ meaning # NULL =>
        \A value \in Values(expression.field) :
          /\ Less(answer, adapt(value)) <=> Earlier(meaning, value)
          /\ Less(adapt(value), answer) <=> Earlier(value, meaning)

=============================================================================
