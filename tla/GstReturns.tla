----------------------------- MODULE GstReturns ------------------------------
(***************************************************************************)
(* The GST/HST return of one filing period: the tax rates a client uses,   *)
(* sorted onto the return by QuickBooks' own words or by a person; the     *)
(* documents that scans have stored; and the return that is prepared from  *)
(* both whenever its page is opened, or refused.                           *)
(*                                                                         *)
(* The documents all fall in the period, and the scans of the model are    *)
(* those that are stored.                                                  *)
(***************************************************************************)
EXTENDS Integers, Sequences, FiniteSetsExt

CONSTANTS
  Paperwork,     \* what the books may come to hold
  AccountType,   \* the types of the chart's accounts
  Rates,         \* ids of tax rates
  Labels,        \* what QuickBooks may say of a rate: its agency and its name
  Nothing,       \* no row, an amount that is not stated
  MaxScans       \* bound: scans stored

\* Documents state their tax in cents, if they do; an agency or a name says which of the two
\* taxes a rate is, or does not, or names both.
ASSUME ReturnsAssumption ==
  /\ MaxScans \in Nat
  /\ Labels \subseteq [ agency : {"gst_hst", "provincial", "other"},
                       name : {"gst_hst", "provincial", "combined", "other"} ]
  /\ \A d \in Paperwork :
       /\ d.stated \in Int \cup {Nothing}
       /\ IsFiniteSet(DOMAIN d.rates) /\ \A r \in DOMAIN d.rates : d.rates[r] \in Int
       /\ IsFiniteSet(DOMAIN d.lines) /\ \A i \in DOMAIN d.lines : d.lines[i].credit \in Int

VARIABLES
  held,          \* the documents QuickBooks holds
  stored,        \* the bookkeeping_transactions rows of each stored run
  rate,          \* the classification of each bookkeeping_tax_rates row, and its source
  override,      \* the bookkeeping_tax_rate_overrides rows
  method,        \* calculation_method of the recorded arrangement; an old one states none
  filed          \* the bookkeeping_gst_returns row: the return last prepared

returnsVars == <<held, stored, rate, override, method, filed>>

-----------------------------------------------------------------------------
(* sales_tax and tax_rates: which side a document is on, which return a rate. *)

COLLECTED_TYPES == {"Invoice", "SalesReceipt"}
PAID_TYPES == {"Bill", "Purchase"}
COLLECTED_REVERSAL_TYPES == {"CreditMemo", "RefundReceipt"}
PAID_REVERSAL_TYPES == {"VendorCredit"}
SETTLEMENT_TYPES == {"Payment", "BillPayment", "Transfer", "Deposit", "JournalEntry"}

TAX_LIABILITY_TYPES == {"Other Current Liability"}
REVENUE_TYPES == {"Income", "Other Income"}

\* The kinds persist_canonical keeps as posted.
StoredKinds == {"Invoice", "Payment", "Bill", "Purchase", "Deposit", "JournalEntry"}

\* classify: the agency decides, else the name, unless it names both kinds of tax.
Classify(l) ==
  IF l.agency # "other" THEN l.agency
  ELSE IF l.name \in {"combined", "other"} THEN "unknown" ELSE l.name

Sorted(class, source) == [class |-> class, source |-> source]

-----------------------------------------------------------------------------
ReturnsInit ==
  /\ held = {}
  /\ stored = <<>>
  /\ rate = [r \in Rates |-> Nothing]
  /\ override = [r \in Rates |-> Nothing]
  /\ method \in {Nothing, "unstated"}
  /\ filed = Nothing

\* The bookkeeper records a document.
RecordDocument(d) ==
  /\ d \notin held
  /\ held' = held \cup {d}
  /\ UNCHANGED <<stored, rate, override, method, filed>>

\* persist_canonical, of a scan that is stored: rows of its own for every document.
StoreScan ==
  /\ Len(stored) < MaxScans
  /\ stored' = Append(stored, {d \in held : d.kind \in StoredKinds})
  /\ UNCHANGED <<held, rate, override, method, filed>>

\* Fault: a rate that is read again is classified again.
SyncAnew(said) ==
  /\ rate' = [r \in Rates |-> IF r \in DOMAIN said THEN Sorted(Classify(said[r]), "provider")
                              ELSE rate[r]]
  /\ UNCHANGED <<held, stored, override, method, filed>>

\* tax_rates.persist: the rates of a pull, with a person's decision last.
SyncRates(said) ==
  /\ rate' = [r \in Rates |->
       IF r \notin DOMAIN said THEN rate[r]
       ELSE IF override[r] # Nothing THEN Sorted(override[r], "operator")
       ELSE Sorted(Classify(said[r]), "provider")]
  /\ UNCHANGED <<held, stored, override, method, filed>>

\* decide: the override is kept, and the row is changed if there is one.
DecideRate(r, class) ==
  /\ override' = [override EXCEPT ![r] = class]
  /\ rate' = [rate EXCEPT ![r] = IF @ = Nothing THEN @ ELSE Sorted(class, "operator")]
  /\ UNCHANGED <<held, stored, method, filed>>

\* record_arrangement, for what a return reads of it.
RecordMethod(m) ==
  /\ method' = m
  /\ UNCHANGED <<held, stored, rate, override, filed>>

-----------------------------------------------------------------------------
(* sales_tax.period                                                        *)

\* The organization's rows: a run and a document of it.
Rows == UNION {{n} \X stored[n] : n \in DOMAIN stored}

\* _persist_transaction_tax: a row for every rate that a document was charged.
TaxRows(d) == DOMAIN d.rates

RatesTotal(d) == SumFunction(d.rates)

Untaxed(d) == d.stated = Nothing /\ TaxRows(d) = {}

\* Tax that cannot be accounted for.
Unaccountable(d) ==
  /\ ~Untaxed(d)
  /\ \/ d.kind \in SETTLEMENT_TYPES /\ (d.stated \notin {Nothing, 0} \/ TaxRows(d) # {})
     \/ /\ d.kind \notin SETTLEMENT_TYPES
        /\ \/ TaxRows(d) = {}
           \/ d.stated # Nothing /\ RatesTotal(d) # d.stated

Sign(d) == IF d.kind \in COLLECTED_REVERSAL_TYPES \cup PAID_REVERSAL_TYPES THEN -1 ELSE 1

OnSide(rows, side) ==
  {row \in rows : ~Untaxed(row[2]) /\ ~Unaccountable(row[2]) /\
     row[2].kind \in IF side = "collected" THEN COLLECTED_TYPES \cup COLLECTED_REVERSAL_TYPES
                     ELSE PAID_TYPES \cup PAID_REVERSAL_TYPES}

\* Tax of one side at some rates.
TaxOf(rows, side, rates) ==
  SumFunction([row \in OnSide(rows, side) |->
    Sign(row[2]) * SumFunctionOnSet(row[2].rates, TaxRows(row[2]) \cap rates)])

Used(rows) ==
  UNION {TaxRows(row[2]) : row \in OnSide(rows, "collected") \cup OnSide(rows, "paid")}

-----------------------------------------------------------------------------
(* gst_return                                                              *)

Placed(class) == {r \in Rates : rate[r] # Nothing /\ rate[r].class = class}

\* Credits less debits the stored lines make on accounts of some types.  Only the lines of
\* journal entries are stored with a side.
PostedTo(rows, types) ==
  SumFunction([row \in {r \in rows : r[2].kind = "JournalEntry"} |->
    SumFunctionOnSet([i \in DOMAIN row[2].lines |-> row[2].lines[i].credit],
      {i \in DOMAIN row[2].lines : AccountType[row[2].lines[i].account] \in types})])

StatedNet(rows) == TaxOf(rows, "collected", Rates) - TaxOf(rows, "paid", Rates)

Blocked(rows) ==
  \/ method # "regular"
  \/ \E row \in rows : Unaccountable(row[2])
  \/ ~(Used(rows) \subseteq Placed("gst_hst") \cup Placed("provincial"))
  \/ PostedTo(rows, TAX_LIABILITY_TYPES) # StatedNet(rows)     \* _agreement

\* prepare: lines 101, 105 and 108, and whether they may be filed.
Return(rows) ==
  [ filable |-> ~Blocked(rows),
    line101 |-> PostedTo(rows, REVENUE_TYPES),
    line105 |-> TaxOf(rows, "collected", Placed("gst_hst")),
    line108 |-> TaxOf(rows, "paid", Placed("gst_hst")) ]

\* persist: the row of the period is replaced by what was prepared.
Keep(prepared) == filed' = prepared

\* gst_return_page: prepared anew, and kept.
OpenReturn ==
  /\ method # Nothing
  /\ Keep(Return(Rows))
  /\ UNCHANGED <<held, stored, rate, override, method>>

ReturnsNext ==
  \/ \E d \in Paperwork : RecordDocument(d)
  \/ StoreScan
  \/ \E rs \in SUBSET Rates : \E said \in [rs -> Labels] : SyncRates(said)
  \/ \E r \in Rates, c \in {"gst_hst", "provincial"} : DecideRate(r, c)
  \/ \E m \in {"regular", "quick"} : RecordMethod(m)
  \/ OpenReturn

ReturnsSpec == ReturnsInit /\ [][ReturnsNext]_returnsVars

-----------------------------------------------------------------------------
ReturnsTypeOK ==
  /\ held \subseteq Paperwork
  /\ stored \in UNION {[1 .. n -> SUBSET held] : n \in 0 .. MaxScans}
  /\ rate \in [Rates -> {Nothing} \cup
       [class : {"gst_hst", "provincial", "unknown"}, source : {"provider", "operator"}]]
  /\ override \in [Rates -> {Nothing, "gst_hst", "provincial"}]
  /\ method \in {Nothing, "unstated", "regular", "quick"}
  /\ filed = Nothing \/
       filed \in [filable : BOOLEAN, line101 : Int, line105 : Int, line108 : Int]

\* "Re-reading the provider must never quietly undo a judgement a person made about which
\* return a rate belongs on" (tax_rates.py 142-143): in whatever order rates are decided,
\* decided again and synchronized under new names, a decided rate is where it was put last.
DecidedRatesStay ==
  \A r \in Rates : override[r] # Nothing /\ rate[r] # Nothing =>
    rate[r] = Sorted(override[r], "operator")

-----------------------------------------------------------------------------
\* What the repository says of a return and the code does not do.

\* "Line 101: sales and other revenue for the period, tax excluded" (gst_return.py 316): when
\* the books have been scanned as they stand, a return that may be filed states the revenue
\* of the books.
ReturnStatesRevenue ==
  [][(OpenReturn /\ filed'.filable /\ stored # <<>> /\
        stored[Len(stored)] = {d \in held : d.kind \in StoredKinds}) =>
       filed'.line101 = SumFunction([d \in held |-> d.revenue])]_returnsVars
=============================================================================
