---------------------------- MODULE RequestCosts ----------------------------
(***************************************************************************)
(* What a request cost (internal/store/pricing.go, with the charge that    *)
(* logs.go takes when it prepares a request and cleanup.go): price rows    *)
(* with their validity, the cache of rates, the charge of a request, the   *)
(* backfill that charges or corrects logged requests later, and the        *)
(* aggregates that must keep adding up.                                    *)
(*                                                                         *)
(* One upstream, one pricing profile, one model as it is asked for and the *)
(* alias the upstream has for it.  An instant is an hour, DayHours of them *)
(* a day.  Money and tokens are small integers; rounding is not modelled.  *)
(***************************************************************************)
EXTENDS Integers, Sequences, FiniteSets, FiniteSetsExt

CONSTANTS
  Rates,        (* [input, read, write]: prices by token                    *)
  Requests,     (* [protocol, usage] as they are logged; a usage is         *)
                (* [input, cached, creation, uncached]                      *)
  Legacy,       (* logs of older releases that a ledger may start with      *)
  Nil,
  ValidFroms,   (* instants administrators give their prices, or Nil        *)
  MaxTime, DayHours,
  Retention,    (* hours every table is kept at least                       *)
  HistoryLimit, (* rows of a history that is cached whole: 256              *)
  Budgets       (* bounds the changes and the logs of a behaviour           *)

(* A token count, a price or an instant that may be missing.               *)
OrNil(S) == S \cup {Nil}

Models == {"asked", "alias"}
Times == 0..MaxTime

PriceRows == [model : Models, from : Nat, to : OrNil(Nat), rate : Rates]
Sums == [cost : Int, known : Int]
(* normalizeUsage counts what is uncached of an input it knows.            *)
Usages ==
  {u \in [input : OrNil(Int), cached : OrNil(Int), creation : OrNil(Int),
          uncached : OrNil(Int)] : u.input = Nil => u.uncached = Nil}
Logs == [at : Times, protocol : {"messages", "chat", "responses"}, usage : Usages,
         cost : OrNil(Int), version : {1, 2}, counted : BOOLEAN, gone : BOOLEAN]

ASSUME CostAssumption ==
  /\ {MaxTime, Retention, HistoryLimit} \subseteq Nat
  /\ DayHours \in Nat \ {0}
  /\ Rates \subseteq [input : Nat, read : Nat, write : Nat]
  /\ Requests \subseteq [protocol : {"messages", "chat", "responses"}, usage : Usages]
  /\ Legacy \subseteq {l \in Logs : l.counted}
  /\ ValidFroms \subseteq OrNil(Nat)
  /\ Budgets \subseteq [saves : Nat, logs : Nat]
  /\ Nil \notin Int \cup PriceRows \cup Sums

VARIABLES
  now,
  prices,    (* pricing_model_prices: [model, from, to, rate]               *)
  attached,  (* the upstream has the profile                                *)
  cached,    (* the pricingCache entry of the model, or Nil                 *)
  owned,     (* the api key and the upstream of the requests exist          *)
  log,       (* request_logs; a deleted one is kept, with gone              *)
  usage,     (* daily_usage and hourly_usage: row -> [cost, known] or Nil   *)
  lifetime,  (* upstream_lifetime_usage: [cost, known]                      *)
  left       (* what is left of the budget: [saves, logs]                   *)

tariff == <<prices, attached>>
ledger == <<owned, log, usage, lifetime>>
costVars == <<now, cached, left, tariff, ledger>>

Or(n, other) == IF n = Nil THEN other ELSE n

-----------------------------------------------------------------------------
(* Rates.                                                                  *)

Valid(row, at) == row.from <= at /\ (row.to = Nil \/ at < row.to)
(* ORDER BY: the model as asked for before the alias, the latest first.    *)
Before(a, b) ==
  IF a.model = b.model THEN a.from > b.from ELSE a.model = "asked"

FirstRow(rows) ==
  IF rows = {} THEN Nil ELSE CHOOSE a \in rows : \A b \in rows \ {a} : Before(a, b)
Candidates == IF attached THEN prices ELSE {}
(* The query itself, as the backfill asks it for each log.                 *)
RateAt(at) ==
  LET row == FirstRow({r \in Candidates : Valid(r, at)})
  IN IF row = Nil THEN Nil ELSE row.rate

(* selectPricingRate: the first of the rows that is valid.                 *)
Select(entry, at) ==
  LET valid == {n \in DOMAIN entry.rows : Valid(entry.rows[n], at)}
  IN IF valid = {} THEN Nil ELSE entry.rows[Min(valid)].rate

Covers(entry, at) ==
  entry.partial => (entry.from = Nil \/ entry.from <= at)
                   /\ (entry.to = Nil \/ at < entry.to)

RowBoundaries(at) == {r.from : r \in {c \in Candidates : Valid(c, at)}}
                  \cup {r.to : r \in {c \in Candidates : Valid(c, at) /\ c.to # Nil}}
AllBoundaries(at) == {r.from : r \in Candidates}
                     \cup {r.to : r \in {c \in Candidates : c.to # Nil}}
Boundaries(at) == AllBoundaries(at)

(* loadPricingWindow: the rate at an instant, and how far it reaches.      *)
Window(at) ==
  LET past == {b \in Boundaries(at) : b <= at}
      next == {b \in Boundaries(at) : b > at}
      from == IF past = {} THEN Nil ELSE Max(past)
      to == IF next = {} THEN Nil ELSE Min(next)
  IN [partial |-> TRUE, from |-> from, to |-> to,
      rows |-> IF RateAt(at) = Nil THEN <<>>
               ELSE <<[model |-> "asked", from |-> from, to |-> to, rate |-> RateAt(at)]>>]

Sorted(rows) ==
  CHOOSE s \in Bijection(1..Cardinality(rows), rows) :
    \A m, n \in DOMAIN s : m < n => Before(s[m], s[n])

(* loadPricingHistory.                                                     *)
History(at) ==
  IF Cardinality(Candidates) > HistoryLimit THEN Window(at)
  ELSE [partial |-> FALSE, from |-> Nil, to |-> Nil,
        rows |-> Sorted(Candidates)]

(* pricingRate: the entry a lookup leaves in the cache.  One that was      *)
(* partial is followed by another.                                         *)
EntryFor(at) ==
  CASE cached # Nil /\ Covers(cached, at) -> cached
    [] cached # Nil /\ cached.partial /\ ~Covers(cached, at) -> Window(at)
    [] OTHER -> History(at)

(* The 30 seconds of an entry are over, or the cache was cleared when full. *)
Expire ==
  /\ cached # Nil /\ cached' = Nil
  /\ UNCHANGED <<now, left, tariff, ledger>>

-----------------------------------------------------------------------------
(* The price table.                                                        *)

(* Models that are left out of a saved profile end now, a price that has   *)
(* yet to begin never begins.                                              *)
Without(rows, models) ==
  {IF r.model \in models \/ r.to # Nil THEN r
   ELSE [r EXCEPT !.to = IF r.from > now THEN r.from ELSE now] : r \in rows}

Reprices(rows, model, from, rate) ==
  {r \in rows : r.model # model \/ r.to # Nil}
    \cup {[model |-> model, from |-> from, to |-> Nil, rate |-> rate]}

(* A new price ends the open ones that began before it, and replaces the   *)
(* rate of one that began at the same instant.                             *)
Prices(rows, model, from, rate) ==
  LET ended == {IF r.model = model /\ r.from < from /\ r.to = Nil
                THEN [r EXCEPT !.to = from] ELSE r : r \in rows}
      same == {r \in ended : r.model = model /\ r.from = from}
  IN IF same = {}
     THEN ended \cup {[model |-> model, from |-> from, to |-> Nil, rate |-> rate]}
     ELSE (ended \ same) \cup {[r EXCEPT !.rate = rate] : r \in same}

Repriced(rows, from, rate) ==
  FoldSet(LAMBDA m, saved : Prices(saved, m, Or(from, now), rate[m]), rows, DOMAIN rate)

(* SavePricingProfile and RefreshPricingProfiles, which names no instant.  *)
Save(rate, from) ==
  /\ left.saves > 0 /\ left' = [left EXCEPT !.saves = @ - 1]
  /\ prices' = Repriced(Without(prices, DOMAIN rate), from, rate)
  /\ cached' = Nil
  /\ UNCHANGED <<now, attached, ledger>>

(* SetUpstreamPricingProfile.                                              *)
Attach ==
  /\ left.saves > 0 /\ left' = [left EXCEPT !.saves = @ - 1]
  /\ attached' = ~attached /\ cached' = Nil
  /\ UNCHANGED <<now, prices, ledger>>

(* DeletePricingProfile: the rows go with it.                              *)
DeleteProfile ==
  /\ left.saves > 0 /\ left' = [left EXCEPT !.saves = @ - 1]
  /\ prices' = {} /\ attached' = FALSE /\ cached' = Nil
  /\ UNCHANGED <<now, ledger>>

-----------------------------------------------------------------------------
(* The charge.                                                             *)

NotNegative(n) == IF n < 0 THEN 0 ELSE n

(* calculateRequestCost, after prepareRequest: the input of Messages does  *)
(* not contain what was written to the cache.                              *)
Cost(rate, protocol, u) ==
  LET inferred == IF u.input = Nil THEN 0 ELSE NotNegative(u.input - Or(u.cached, 0))
      input == IF protocol = "messages" /\ u.input # Nil THEN NotNegative(u.input)
               ELSE Or(u.uncached, inferred)
  IN input * rate.input + Or(u.cached, 0) * rate.read + Or(u.creation, 0) * rate.write

(* The same charge as BackfillPricingCosts writes it in SQL.               *)
QueriedCost(rate, protocol, u) ==
  LET input == IF protocol = "messages" THEN NotNegative(Or(u.input, 0))
               ELSE Or(u.uncached, NotNegative(Or(u.input, 0) - Or(u.cached, 0)))
  IN input * rate.input + Or(u.cached, 0) * rate.read + Or(u.creation, 0) * rate.write

(* What releases before pricing_version 2 charged too much.                *)
Duplicated(rate, u) == Or(u.creation, 0) * rate.input

HasUsage(u) == \E n \in DOMAIN u : u[n] # Nil

-----------------------------------------------------------------------------
(* The ledger.                                                             *)

UsageRows == {<<"day", t \div DayHours>> : t \in Times} \cup {<<"hour", t>> : t \in Times}
RowsAt(at) == {<<"day", at \div DayHours>>, <<"hour", at>>}

Plus(sum, cost, known) == [cost |-> sum.cost + cost, known |-> sum.known + known]
Zero == [cost |-> 0, known |-> 0]
Known(cost) == IF cost = Nil THEN 0 ELSE 1

(* recordPreparedBatch, for the columns of cost.                           *)
Counted(rows, at, cost) ==
  [r \in UsageRows |->
     IF r \in RowsAt(at) THEN Plus(IF rows[r] = Nil THEN Zero ELSE rows[r],
                                   Or(cost, 0), Known(cost))
     ELSE rows[r]]

(* A charge whose batch could not be written.                              *)
Charge ==
  /\ \E at \in {now - 1, now} \cap Nat : cached' = EntryFor(at)
  /\ UNCHANGED <<now, left, tariff, ledger>>

(* RequestCost and RecordRequests.  A request is logged some time after it *)
(* began, at its beginning.                                                *)
Record ==
  /\ left.logs > 0 /\ left' = [left EXCEPT !.logs = @ - 1]
  /\ \E at \in {now - 1, now} \cap Nat, q \in Requests :
       LET rate == Select(EntryFor(at), at)
           cost == IF HasUsage(q.usage) /\ rate # Nil
                   THEN Cost(rate, q.protocol, q.usage) ELSE Nil
       IN /\ cached' = IF HasUsage(q.usage) THEN EntryFor(at) ELSE cached
          /\ log' = Append(log, [at |-> at, protocol |-> q.protocol, usage |-> q.usage,
                                 cost |-> cost,
                                 version |-> 2, counted |-> owned, gone |-> FALSE])
          /\ usage' = IF owned THEN Counted(usage, at, cost) ELSE usage
          /\ lifetime' = IF owned THEN Plus(lifetime, Or(cost, 0), Known(cost)) ELSE lifetime
  /\ UNCHANGED <<now, tariff, owned>>

(* The key is deleted: its logs lose it.                                   *)
DeleteOwner ==
  /\ owned /\ owned' = FALSE
  /\ UNCHANGED <<now, cached, left, tariff, log, usage, lifetime>>

AlwaysCorrects(l, rate) == l.cost = Nil \/ (l.protocol = "messages" /\ Duplicated(rate, l.usage) > 0)

(* A known charge is corrected only when the rate reproduces it by the     *)
(* formula of its release.                                                 *)
Corrects(l, rate) ==
  \/ l.cost = Nil
  \/ /\ l.protocol = "messages" /\ l.version < 2
     /\ Duplicated(rate, l.usage) > 0
     /\ l.cost = QueriedCost(rate, l.protocol, l.usage) + Duplicated(rate, l.usage)

Corrected(from, to) ==
  {i \in DOMAIN log :
     LET l == log[i]
     IN /\ ~l.gone /\ l.counted /\ owned /\ HasUsage(l.usage)
        /\ l.at \div DayHours \in from..to
        /\ RateAt(l.at) # Nil /\ Corrects(l, RateAt(l.at))}

NewCost(i) == QueriedCost(RateAt(log[i].at), log[i].protocol, log[i].usage)
Delta(i) == NewCost(i) - Or(log[i].cost, 0)
Total(f, S) == FoldFunctionOnSet(LAMBDA a, b : a + b, 0, f, S)

NewlyKnown == [i \in DOMAIN log |-> 1 - Known(log[i].cost)]
WholeCost == [i \in DOMAIN log |-> NewCost(i)]
Change == [i \in DOMAIN log |-> Delta(i)]

(* BackfillPricingCosts, one transaction behind an advisory lock.  Rows of *)
(* usage that were cleaned up are not built again.                         *)
Backfill(from, to) ==
  LET set == Corrected(from, to)
  IN /\ log' = [i \in DOMAIN log |->
                  IF i \in set THEN [log[i] EXCEPT !.cost = NewCost(i), !.version = 2]
                  ELSE log[i]]
     /\ usage' = [r \in UsageRows |->
                    LET of == {i \in set : r \in RowsAt(log[i].at)}
                    IN IF usage[r] = Nil THEN Nil
                       ELSE Plus(usage[r], Total(Change, of), Total(NewlyKnown, of))]
     /\ lifetime' = Plus(lifetime, Total(Change, set), Total(NewlyKnown, set))
     /\ cached' = Nil
     /\ UNCHANGED <<now, left, tariff, owned>>

(* cleanupBatches: the oldest rows first, whatever it got to.              *)
CleanupRows ==
  \E before \in 0..(now - Retention) :
    /\ \/ /\ log' = [i \in DOMAIN log |-> [log[i] EXCEPT !.gone = @ \/ log[i].at < before]]
          /\ UNCHANGED usage
       \/ /\ usage' = [r \in UsageRows |->
                         IF r[1] = "day" /\ r[2] < before \div DayHours THEN Nil ELSE usage[r]]
          /\ UNCHANGED log
       \/ /\ usage' = [r \in UsageRows |->
                         IF r[1] = "hour" /\ r[2] < before THEN Nil ELSE usage[r]]
          /\ UNCHANGED log
    /\ UNCHANGED <<now, cached, left, tariff, owned, lifetime>>

-----------------------------------------------------------------------------

CostInit ==
  /\ now = 0 /\ prices = {} /\ attached = TRUE /\ cached = Nil /\ owned = TRUE
  /\ left \in Budgets
  /\ \E legacy \in {<<>>} \cup {<<l>> : l \in Legacy} :
       /\ log = legacy
       /\ usage = IF legacy = <<>> THEN [r \in UsageRows |-> Nil]
                  ELSE Counted([r \in UsageRows |-> Nil], legacy[1].at, legacy[1].cost)
       /\ lifetime = IF legacy = <<>> THEN Zero
                     ELSE Plus(Zero, Or(legacy[1].cost, 0), Known(legacy[1].cost))

Hour ==
  /\ now < MaxTime /\ now' = now + 1
  /\ UNCHANGED <<cached, left, tariff, ledger>>

CostNext ==
  \/ \E models \in SUBSET Models, from \in ValidFroms :
       \E rate \in [models -> Rates] : Save(rate, from)
  \/ Attach \/ DeleteProfile \/ Charge \/ Record \/ DeleteOwner
  \/ \E from, to \in 0..(MaxTime \div DayHours) : Backfill(from, to)
  \/ CleanupRows \/ Expire \/ Hour

CostSpec == CostInit /\ [][CostNext]_costVars

(* One price of a model begins at an instant (UNIQUE in schema.sql).       *)
PricesOK(rows) ==
  /\ rows \subseteq PriceRows /\ IsFiniteSet(rows)
  /\ \A a, b \in rows : a.model = b.model /\ a.from = b.from => a = b

CostTypeOK ==
  /\ now \in Times /\ PricesOK(prices)
  /\ attached \in BOOLEAN /\ owned \in BOOLEAN
  /\ log \in Seq(Logs)
  /\ usage \in [UsageRows -> OrNil(Sums)] /\ lifetime \in Sums
  /\ left \in [saves : Nat, logs : Nat]

-----------------------------------------------------------------------------
(* Properties.                                                             *)

(* pricing.go: the window a cached rate is kept for is the interval in     *)
(* which the chosen rate cannot change.  Whatever instant the cache        *)
(* answers for, the table would give the same rate.                        *)
RatesAreTheTables ==
  cached # Nil =>
    \A at \in Times : Covers(cached, at) => Select(cached, at) = RateAt(at)

(* docs/admin-api.md: requests are charged by the prices that were valid.  *)
(* A profile that is saved or refreshed without naming an instant leaves   *)
(* every rate of the past as it was.                                       *)
HistoryStands ==
  [][ prices' # prices =>
        \A models \in SUBSET Models : \A fees \in [models -> Rates] :
          Save(fees, Nil) => \A at \in 0..(now - 1) : RateAt(at)' = RateAt(at) ]_costVars

(* docs/admin-api.md: the difference of a correction goes to the daily,    *)
(* hourly and lifetime sums.  What is left of them adds up to the charges  *)
(* of the logged requests, the deleted ones included.                      *)
LogCost == [i \in DOMAIN log |-> Or(log[i].cost, 0)]
LogKnown == [i \in DOMAIN log |-> Known(log[i].cost)]
LedgerAgrees ==
  LET all == {i \in DOMAIN log : log[i].counted}
      Sum(S) == [cost |-> Total(LogCost, S), known |-> Total(LogKnown, S)]
  IN /\ lifetime = Sum(all)
     /\ \A r \in UsageRows :
          usage[r] # Nil => usage[r] = Sum({i \in all : r \in RowsAt(log[i].at)})

(* docs/admin-api.md: a repeated backfill adds and subtracts nothing, and  *)
(* what it filled in is what the request would have been charged.          *)
BackfillSettles ==
  [][ log' # log =>
        \A from, to \in 0..(MaxTime \div DayHours) :
          Backfill(from, to) =>
            /\ Corrected(from, to)' = {}
            /\ \A i \in Corrected(from, to) :
                 log'[i].cost = Cost(RateAt(log[i].at), log[i].protocol, log[i].usage)
    ]_costVars
=============================================================================
