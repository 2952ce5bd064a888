------------------------------- MODULE MCBooks -------------------------------
(***************************************************************************)
(* The parts that read a client's books, on one instance: the analysis and *)
(* its reconciliation, the matching of a statement, filing periods, and    *)
(* the return.  One of them moves in a behaviour, the others rest, so that *)
(* the parts are explored side by side and not in their product.           *)
(***************************************************************************)
EXTENDS AnalysisRuns, StatementMatching, FilingPeriods, GstReturns

CONSTANT Parts   \* the parts an instance explores

VARIABLE focus   \* the part that moves

booksVars == <<analysisVars, vars, filingVars, returnsVars, focus>>

-----------------------------------------------------------------------------
(* The books that are analysed.                                            *)

\* The chart: a bank account, receivables, payables, one liability that bears tax, income,
\* and a holding account for what is not categorized yet.
Account(type, name, current) == [type |-> type, name |-> name, current |-> current]

SmallChart ==
  << Account("Bank", "chequing", -1), Account("Accounts Receivable", "receivable", 0),
     Account("Accounts Payable", "supplies", 0), Account("Accounts Payable", "subcontractors", 0),
     Account("Other Current Liability", "gst", 0), Account("Income", "sales", 0),
     Account("Expense", "uncategorized", 0) >>

Line(account, amount) ==
  [account |-> account, amount |-> amount, job |-> Unnamed, item |-> Unnamed, price |-> Unstated]

\* A document with all its references, and one that has lost some on its way.
Full(kind, id, cash, control, lines, total, tax, taxRef) ==
  [ kind |-> kind, id |-> id, cash |-> cash, control |-> control, lines |-> lines,
    total |-> total, tax |-> tax, taxRef |-> taxRef, foreign |-> FALSE,
    date |-> 1, number |-> 1, party |-> Unnamed, balance |-> 0, due |-> Unstated ]

Arrives(f, d) == d @@ [full |-> f]

\* The id of a rate that no account has, and one that the first payables account has too.
Rate == 9
SharedRate == 3

Purchase(id) == LET f == Full("Purchase", id, {1}, Unnamed, <<Line(7, 10)>>, 10, 0, Unnamed)
                IN Arrives(f, f)

\* It leaves its receivables account out, and names a rate where the tax account should be.
Invoice(id, taxRate) ==
  LET f == Full("Invoice", id, {}, 2, <<Line(6, 10)>>, 11, 1, 5)
  IN Arrives(f, [f EXCEPT !.control = Unnamed, !.taxRef = taxRate])

\* It states what it settles, and not its total.
Payment(id) == LET f == Full("Payment", id, {1}, 2, <<Line(Unnamed, 11)>>, 11, 0, Unnamed)
               IN Arrives(f, [f EXCEPT !.total = Unstated])

\* It leaves its payables account out, of which there are two.
Bill(id) == LET f == Full("Bill", id, {}, 4, <<Line(7, 5)>>, 5, 0, Unnamed)
            IN Arrives(f, [f EXCEPT !.control = Unnamed])

Reversal(id) ==
  LET f == Full("JournalEntry", id, {}, Unnamed, <<Line(1, 10), Line(7, -10)>>, 10, 0, Unnamed)
  IN Arrives(f, f)

Pool == << Purchase(1), Purchase(2), Invoice(1, Rate), Bill(1), Reversal(3),
          Invoice(2, SharedRate), Payment(1) >>
CorrectionOfPool == [p \in {<<"duplicate_transaction", 2>>} |-> 5]

Statement(id, account, closing, unmatched) ==
  [id |-> id, account |-> account, period |-> 1, closing |-> closing, unmatched |-> unmatched]

OneStatement == {Statement(1, 1, -10, {})}
UnmatchedStatement == {Statement(1, 1, -10, {2})}

-----------------------------------------------------------------------------
(* Filing periods and returns.                                             *)

Winter == <<2023, 12, 1>>
NextSpring == <<2025, 3, 31>>

Filers(yearEnds) ==
  {[frequency |-> f, month |-> e[1], day |-> e[2], individual |-> NotRecorded] :
     f \in FREQUENCIES, e \in yearEnds}

\* Year ends of long, short and leap months.
UsualFilers == Filers({<<12, 31>>, <<6, 30>>, <<2, 29>>, <<3, 30>>})
FebruaryFilers == Filers({<<2, 28>>})

AccountTypes == <<"Income", "Other Current Liability", "Expense">>

Paper(kind, stated, rates, lines, revenue) ==
  [kind |-> kind, stated |-> stated, rates |-> rates, lines |-> lines, revenue |-> revenue]

\* A taxed sale and a taxed purchase, a sale whose tax nothing states, and revenue
\* that was booked by hand.
TaxedSale == Paper("Invoice", 1, 1 :> 1, <<>>, 10)
TaxedPurchase == Paper("Bill", 1, 1 :> 1, <<>>, 0)
UnstatedSale == Paper("Invoice", Nothing, <<>>, <<>>, 7)
BookedRevenue ==
  Paper("JournalEntry", Nothing, <<>>,
        <<[account |-> 1, credit |-> 5], [account |-> 3, credit |-> -5]>>, 5)

FewPapers == {TaxedSale, UnstatedSale}
MorePapers == {TaxedSale, TaxedPurchase, UnstatedSale, BookedRevenue}

SomeLabels ==
  {[agency |-> "other", name |-> n] : n \in {"gst_hst", "combined"}}
    \cup {[agency |-> "provincial", name |-> "gst_hst"]}

-----------------------------------------------------------------------------
SameLines == Permutations(Lines)

\* A statement nobody looks at: any one will do.
Unread ==
  /\ statement = CHOOSE s \in [Lines -> [amount : Amounts, day : Days]] : TRUE
  /\ ledger = CHOOSE e \in [Entries -> [amount : Amounts, day : Days]] : TRUE
  /\ words = [p \in Pair |-> 0]
  /\ ordinal = CHOOSE o \in Orders : TRUE
  /\ Init

BooksInit ==
  /\ focus \in Parts
  /\ AnalysisInit /\ FilingInit /\ ReturnsInit
  /\ focus # "returns" => method = Nothing
  /\ \/ focus = "matching" /\ Init
     \/ focus # "matching" /\ Unread

AnalysisMoves ==
  /\ focus = "analysis" /\ AnalysisNext
  /\ UNCHANGED <<vars, filingVars, returnsVars, focus>>

MatchingMoves ==
  /\ focus = "matching" /\ Next
  /\ UNCHANGED <<analysisVars, filingVars, returnsVars, focus>>

FilingMoves ==
  /\ focus = "filing" /\ FilingNext
  /\ UNCHANGED <<analysisVars, vars, returnsVars, focus>>

ReturnsMove ==
  /\ focus = "returns" /\ ReturnsNext
  /\ UNCHANGED <<analysisVars, vars, filingVars, focus>>

BooksNext == AnalysisMoves \/ MatchingMoves \/ FilingMoves \/ ReturnsMove

BooksSpec == BooksInit /\ [][BooksNext]_booksVars

-----------------------------------------------------------------------------
\* Every row of every part is of its type.
BooksTypeOK == AnalysisTypeOK /\ TypeOK /\ FilingTypeOK /\ ReturnsTypeOK
=============================================================================
