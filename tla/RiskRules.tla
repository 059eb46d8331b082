----------------------------- MODULE RiskRules ------------------------------
(***************************************************************************)
(* The arithmetic of observation and detection: what recompute_aggregates  *)
(* (app/observation/aggregates.py) derives from the canonical rows of an   *)
(* item and what the six rules of app/analysis/rules.py make of it and of  *)
(* the rows they read themselves, as rows are reported and time passes.    *)
(*                                                                         *)
(* Time is counted in ticks, DayTicks of them to a day.  A Numeric(18, 4)  *)
(* column is an integer number of units, Scale of them to one (10^4 in the *)
(* code), and a value is rounded when it is stored.  The filters on        *)
(* observability # 'lost' are left out: no code ever writes 'lost'.        *)
(***************************************************************************)
EXTENDS Integers, FiniteSets, FiniteSetsExt

CONSTANTS
  Orders, Prices,  \* purchase orders of one supplier; price rows by supplier
  QualityRows, \* quality records of the item and one supplier, by as_of
  Quantities,  \* totals of the stock rows
  UsageRows,   \* consumption rows: quantity, and days of its period (0: no usable period)
  LeadTimes,   \* days
  NeedDates,   \* production_demand.need_by, as days
  OrderRows, PriceRows, DefectRates,
  DayTicks, Scale,
  MaxStored,   \* the largest number of units a column holds
  MaxReports, MaxTime,  \* bounds: rows that are reported, ticks that pass
  Null  \* of a column; also a row that is not there yet

VARIABLES
  stock, usage, lead, \* the stock total, newest consumption, latest lead time
  demands,   \* need_by of the production_demand rows
  order, price, \* rows by order and by supplier
  defects,   \* defects[r]: defect_rate, which may be Null
  agg,       \* the sku_aggregate row, Null before the first
  now, reports

reported == <<stock, usage, lead, demands, order, price, defects>>
rulesVars == <<reported, agg, now, reports>>

ASSUME RulesAssumption ==
  /\ DayTicks \in Nat \ {0} /\ Scale \in Nat \ {0} /\ MaxStored \in Nat
  /\ MaxReports \in Nat /\ MaxTime \in Nat
  /\ IsFiniteSet(Orders) /\ Null \notin Int /\ DefectRates \subseteq Int \cup {Null}
  /\ Quantities \subseteq Int /\ LeadTimes \subseteq Int /\ NeedDates \subseteq Int
  /\ \A o \in OrderRows : /\ o.status \in {"open", "received", "cancelled"}
                          /\ o.expected \in Int \cup {Null} /\ o.received \in Int \cup {Null}
  /\ \A u \in UsageRows : u.quantity \in Int /\ u.span \in Nat

RulesInit ==
  /\ stock = Null /\ usage = Null /\ lead = Null /\ demands = {}
  /\ order = [o \in Orders |-> Null] /\ price = [s \in Prices |-> Null]
  /\ defects = [r \in QualityRows |-> Null]
  /\ agg = Null /\ now = 0 /\ reports = 0

-----------------------------------------------------------------------------
\* What the database keeps of n / d, d > 0, in units: rounded half away from zero.
Rounded(n, d) == IF n >= 0 THEN (2 * Scale * n + d) \div (2 * d)
                 ELSE -((2 * Scale * (-n) + d) \div (2 * d))

\* Mutant of WholeDays: a begun day counts.
WholeDays_Up(t) == (t + DayTicks - 1) \div DayTicks

\* timedelta.days
WholeDays(t) == t \div DayTicks

\* The days that the quantity of a consumption row is spread over.
SpanOf(u) == IF u.span > 0 THEN u.span ELSE 30

Cover == IF usage = Null THEN Null
         ELSE IF usage.quantity <= 0 THEN Null
         ELSE Rounded(stock * SpanOf(usage), usage.quantity)

Expected == {order[o].expected : o \in {p \in Orders :
               order[p] # Null /\ order[p].status = "open" /\ order[p].expected # Null}}

NextDelivery == IF Expected = {} THEN Null ELSE Min(Expected)

\* valid_from DESC NULLS LAST; ties are broken by created_at, which is left open.
NotOlder(s, t) == IF price[t].from = Null THEN TRUE
                  ELSE price[s].from # Null /\ price[s].from >= price[t].from

Priced == {s \in Prices : price[s] # Null}

\* The trends that the two newest price rows may give.
Trends ==
  LET Newest(s, t) == /\ s # t /\ NotOlder(s, t)
                      /\ \A u \in Priced \ {s, t} : NotOlder(t, u)
      Of(s, t) == IF price[t].value = 0 THEN Null
                  ELSE Rounded(price[s].value - price[t].value, price[t].value)
  IN  IF Cardinality(Priced) < 2 THEN {Null}
      ELSE {Of(p[1], p[2]) : p \in {q \in Priced \X Priced : Newest(q[1], q[2])}}

\* A value that the column does not hold makes the flush raise.
Fits(n) == IF n = Null THEN TRUE ELSE -MaxStored <= n /\ n <= MaxStored

\* _recompute_one: without stock rows nothing is written.
Recompute ==
  /\ stock # Null /\ Fits(Cover)
  /\ \E trend \in Trends :
       /\ Fits(trend)
       /\ agg' = [cover |-> Cover, next |-> NextDelivery, trend |-> trend]
  /\ UNCHANGED <<reported, now, reports>>

\* A sync inserts or overwrites the row of an identity (SourceSync).  Those of a
\* price are item and supplier, those of a quality record also as_of.  A demand is
\* its item and need_by, so that demands are only ever added.
Reports ==
  \/ stock' \in Quantities /\ UNCHANGED <<usage, lead, demands, order, price, defects>>
  \/ usage' \in UsageRows /\ UNCHANGED <<stock, lead, demands, order, price, defects>>
  \/ lead' \in LeadTimes /\ UNCHANGED <<stock, usage, demands, order, price, defects>>
  \/ /\ \E d \in NeedDates : demands' = demands \cup {d}
     /\ UNCHANGED <<stock, usage, lead, order, price, defects>>
  \/ /\ \E o \in Orders, r \in OrderRows : order' = [order EXCEPT ![o] = r]
     /\ UNCHANGED <<stock, usage, lead, demands, price, defects>>
  \/ /\ \E s \in Prices, r \in PriceRows : price' = [price EXCEPT ![s] = r]
     /\ UNCHANGED <<stock, usage, lead, demands, order, defects>>
  \/ /\ \E r \in QualityRows, d \in DefectRates : defects' = [defects EXCEPT ![r] = d]
     /\ UNCHANGED <<stock, usage, lead, demands, order, price>>

Report ==
  /\ reports < MaxReports /\ reports' = reports + 1
  /\ Reports
  /\ UNCHANGED <<agg, now>>

Tick ==
  /\ now < MaxTime /\ now' = now + 1
  /\ UNCHANGED <<reported, agg, reports>>

RulesNext == Recompute \/ Report \/ Tick

RulesSpec == RulesInit /\ [][RulesNext]_rulesVars

-----------------------------------------------------------------------------
(* The rules.  Levels stand for severities: 1 low, 2 med, 3 high.          *)

\* _severity_from_ratio for the ratio n / d, d > 0; bounds are fractions.
Severity(n, d, high, med) ==
  IF n * high[2] >= high[1] * d THEN 3
  ELSE IF n * med[2] >= med[1] * d THEN 2 ELSE 1

\* Mutants of Shortfall: the day of the delivery is not counted; the severity is
\* taken of the part that is covered.
Shortfall_LastDay(cover, days) ==
  IF days <= 0 \/ cover >= (days - 1) * Scale THEN 0
  ELSE Severity(days * Scale - cover, days * Scale, <<3, 4>>, <<1, 4>>)
Shortfall_Covered(cover, days) ==
  IF days <= 0 \/ cover >= days * Scale THEN 0
  ELSE Severity(cover, days * Scale, <<3, 4>>, <<1, 4>>)

\* The three relational rules compare the cover with a number of days: 0 if they
\* do not fire, the severity of what is missing otherwise.
Shortfall(cover, days) ==
  IF days <= 0 \/ cover >= days * Scale THEN 0
  ELSE Severity(days * Scale - cover, days * Scale, <<3, 4>>, <<1, 4>>)

\* The systematic deviation of a sum of n values from the mean bound[1] / bound[2].
Excess(sum, n, bound) ==
  IF n = 0 \/ sum * bound[2] <= n * bound[1] THEN 0
  ELSE Severity(sum * bound[2], n * bound[1], <<2, 1>>, <<3, 2>>)

HasCover == agg # Null /\ agg.cover # Null

LikelyShortage == IF HasCover /\ lead # Null THEN Shortfall(agg.cover, lead) ELSE 0

InsufficientUntilDelivery ==
  IF HasCover /\ agg.next # Null THEN Shortfall(agg.cover, WholeDays(agg.next - now)) ELSE 0

ProductionStop ==
  IF HasCover /\ demands # {} THEN Shortfall(agg.cover, Min(demands) - WholeDays(now)) ELSE 0

Received == {o \in Orders : order[o] # Null /\ order[o].status = "received"
                            /\ order[o].expected # Null /\ order[o].received # Null}
Late(o) == order[o].received - order[o].expected

SupplierDelay ==
  IF Cardinality(Received) < 3 THEN 0
  ELSE Excess(MapThenSumSet(LAMBDA o : WholeDays(Late(o)), Received),
              Cardinality(Received), <<3, 1>>)

PriceAnomaly ==
  IF agg = Null THEN 0
  ELSE IF agg.trend = Null THEN 0
  ELSE LET t == IF agg.trend < 0 THEN -agg.trend ELSE agg.trend
       IN  IF 10 * t < Scale THEN 0 ELSE Severity(10 * t, Scale, <<2, 1>>, <<3, 2>>)

\* A record without a rate is no sample.
QualityDegradation ==
  LET Rated == {r \in QualityRows : defects[r] # Null}
  IN  Excess(MapThenSumSet(LAMBDA r : defects[r], Rated), Cardinality(Rated), <<Scale, 20>>)

-----------------------------------------------------------------------------
\* No row that the aggregate is computed from was reported since.
Fresh == agg # Null /\ stock # Null /\ agg.cover = Cover /\ agg.next = NextDelivery

\* The exact time that the stock lasts is Lasts / Rate days.
Lasts == stock * SpanOf(usage)
Rate  == usage.quantity

GoneBefore(ticks) == Lasts * DayTicks < Rate * ticks

TotalLate == MapThenSumSet(Late, Received)

\* Days are floored, quotients rounded, and the aggregate holds one delivery of
\* many: still a rule fires only if the stock is gone before every open order and
\* every demand, and the orders are really that late (rules.py:119-209).
FiresRightly ==
  /\ Fresh /\ InsufficientUntilDelivery > 0 => \A e \in Expected : GoneBefore(e - now)
  /\ Fresh /\ ProductionStop > 0 =>
       \A d \in demands : GoneBefore(DayTicks * (d - WholeDays(now)))
  /\ SupplierDelay > 0 => TotalLate > 3 * DayTicks * Cardinality(Received)

\* The stock is gone by a day, and a unit of rounding, too early.
GoneADayBefore(ticks) ==
  (Lasts * Scale + Rate * Scale + Rate) * DayTicks <= Rate * Scale * ticks

Consumed == usage # Null /\ Rate > 0

\* What the floors and the rounding hide is less than a day, as long as no open
\* order is overdue or due within a day and no demand lies in the past
\* (rules.py:119-209).
MissesLessThanADay ==
  /\ Fresh /\ Consumed /\ Expected # {} /\ (\A e \in Expected :
         e >= now + DayTicks /\ GoneADayBefore(e - now))
       => InsufficientUntilDelivery > 0
  /\ Fresh /\ Consumed /\ demands # {} /\ (\A d \in demands :
         d > WholeDays(now) /\ GoneADayBefore(DayTicks * (d - WholeDays(now))))
       => ProductionStop > 0
  /\ Cardinality(Received) >= 3 /\ TotalLate >= 4 * DayTicks * Cardinality(Received)
       => SupplierDelay > 0

\* days_of_cover is not counted down: while nothing is recomputed, what the rules
\* find becomes milder from day to day and disappears (rules.py:125-128, 162-170).
WaitingOnlyCalms ==
  [][now' # now => /\ InsufficientUntilDelivery' <= InsufficientUntilDelivery
                   /\ ProductionStop' <= ProductionStop]_rulesVars

(* What the rules do not do.                                               *)

\* An overdue open order is the next expected delivery, and then no delivery that
\* comes too late is found.
OverdueOrdersHideNothing ==
  LET Due == {e \in Expected : e >= now + DayTicks}
  IN  Fresh /\ Consumed /\ Due # {} /\ (\A e \in Expected : e >= now => e \in Due)
        /\ (\A e \in Due : GoneADayBefore(e - now)) => InsufficientUntilDelivery > 0

\* A demand of the past, whose row stays for ever, hides the ones to come.
PastDemandsHideNothing ==
  Fresh /\ Consumed /\ (\E d \in demands : d > WholeDays(now)) /\
    (\A d \in demands : d > WholeDays(now) => GoneADayBefore(DayTicks * (d - WholeDays(now))))
      => ProductionStop > 0
=============================================================================
