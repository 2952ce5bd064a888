----------------------------- MODULE BooksProofs -----------------------------
(***************************************************************************)
(* Proofs about the parts MCBooks explores: that a match is never a guess  *)
(* and a refusal never without cause, for any books and any order of the   *)
(* statement; that no reading of the tax rates undoes a decision about     *)
(* one; that periods laid out anew every day tile the calendar; and that   *)
(* the books as a whole keep what each of their parts keeps.               *)
(***************************************************************************)
EXTENDS MCBooks, LedgerProofs

\* The walk goes downhill.
Downhill == /\ \A p \in Pairs \ left, q \in left : ~Better(q, p)
            /\ matched \cap left = {}

\* An entry that fits a matched line as well as its own match went to a better line.
LineTies ==
  \A m \in matched, p \in Pairs : p # m /\ p.line = m.line /\ Level(p, m)
    => \E n \in matched : n.entry = p.entry /\ Better(n, p)

\* A line that fits a matched entry as well as its own match was settled before.
EntryTies ==
  \A m \in matched, p \in Pairs : p # m /\ p.entry = m.entry /\ Level(p, m)
    => p.line \in TakenLines \cup Refused

MatchInv ==
  /\ TypeOK
  /\ OneToOne
  /\ NeverATossUp
  /\ RefusedForCause
  /\ Downhill
  /\ LineTies
  /\ EntryTies

-----------------------------------------------------------------------------
\* Scores are numbers.
LEMMA Scores ==
  ASSUME TypeOK, NEW p \in Pair
  PROVE  words[p] \in Nat /\ Gap(p) \in Int
<1>1. statement[p.line].day \in Int /\ ledger[p.entry].day \in Int
  BY MatchingAssumption DEF TypeOK, Pair
<1>2. words[p] \in Nat
  BY MatchingAssumption DEF TypeOK
<1> QED
  BY <1>1, <1>2 DEF Gap, Distance

\* Of two pairs, one is better or they are level.
LEMMA Compare ==
  ASSUME TypeOK, NEW p \in Pair, NEW q \in Pair, NEW r \in Pair
  PROVE  /\ ~Better(p, q) => Better(q, p) \/ Level(q, p)
         /\ Better(p, q) \/ Level(p, q) => ~Better(q, p)
         /\ Better(p, q) /\ Level(r, q) => Better(p, r)
         /\ Level(p, q) => Level(q, p)
         /\ Level(p, q) /\ Level(r, q) => Level(r, p)
  BY Scores DEF Better, Level

LEMMA HeadIsBest ==
  ASSUME TypeOK, NEW p \in Pairs, AtHead(p)
  PROVE  \A q \in left : ~Better(q, p)
<1> SUFFICES ASSUME NEW q \in left
             PROVE  ~Better(q, p)
  OBVIOUS
<1>1. p \in Pair /\ q \in Pair
  BY DEF TypeOK, Pairs
<1>2. CASE q = p
  BY <1>1, <1>2, Scores DEF Better
<1>3. CASE q # p
  BY <1>1, <1>3, Compare DEF AtHead, Before
<1> QED
  BY <1>2, <1>3

\* The books do not change within a walk, nor what is read off them.
LEMMA SameBooks ==
  ASSUME UNCHANGED <<books, ordinal>>
  PROVE  /\ Pairs' = Pairs
         /\ Orders' = Orders
         /\ \A p, q : Better(p, q)' = Better(p, q) /\ Level(p, q)' = Level(p, q)
         /\ \A p : words'[p] = words[p] /\ Gap(p)' = Gap(p)
  BY DEF books, Pairs, Orders, Better, Level, Gap

\* The walk leaves its head behind.
LEMMA StepDown ==
  ASSUME MatchInv, NEW p \in left, AtHead(p), left' = left \ {p},
         UNCHANGED <<books, ordinal>>
  PROVE  \A r \in Pairs' \ left', q \in left' : ~Better(q, r)'
<1>1. Pairs' = Pairs /\ \A r, q : Better(q, r)' = Better(q, r)
  BY SameBooks
<1>2. p \in Pairs
  BY DEF MatchInv, TypeOK
<1>3. \A q \in left : ~Better(q, p)
  BY <1>2, HeadIsBest DEF MatchInv
<1> QED
  BY <1>1, <1>3 DEF MatchInv, Downhill

LEMMA InitInv == Init => MatchInv
  BY DEF Init, MatchInv, TypeOK, OneToOne, NeverATossUp, RefusedForCause, Downhill, LineTies,
     EntryTies, TakenLines, Refused

LEMMA PassOverInv ==
  ASSUME MatchInv, NEW p \in left, PassOver(p)
  PROVE  MatchInv'
<1> USE DEF MatchInv
<1>1. p \in Pairs /\ p \in Pair /\ p \notin matched
  BY DEF TypeOK, Pairs, Downhill
<1>2. /\ Pairs' = Pairs
      /\ \A r, q : Better(r, q)' = Better(r, q) /\ Level(r, q)' = Level(r, q)
      /\ Refused' = Refused /\ TakenLines' = TakenLines /\ matched' = matched
      /\ left' = left \ {p}
  BY SameBooks DEF PassOver, Refused, TakenLines
<1>3. \A m \in matched : m \in Pair /\ (Better(m, p) \/ Level(m, p))
  BY <1>1, Compare DEF TypeOK, Pairs, Downhill
<1>4. p.line \in Refused \/ \E m \in matched : (m.line = p.line \/ m.entry = p.entry) /\ Better(m, p)
  <2>1. CASE p.line \in TakenLines
    <3>1. PICK m \in matched : m.line = p.line
      BY <2>1 DEF TakenLines
    <3>2. CASE Better(m, p)
      BY <3>1, <3>2
    <3>3. CASE Level(m, p)
      <4>1. Level(p, m)
        BY <1>1, <1>3, <3>3, Compare
      <4> QED
        BY <1>1, <3>1, <4>1 DEF LineTies
    <3> QED
      BY <1>3, <3>2, <3>3
  <2>2. CASE p.entry \in TakenEntries
    <3>1. PICK m \in matched : m.entry = p.entry
      BY <2>2 DEF TakenEntries
    <3>2. CASE Better(m, p)
      BY <3>1, <3>2
    <3>3. CASE Level(m, p)
      <4>1. Level(p, m)
        BY <1>1, <1>3, <3>3, Compare
      <4>2. p.line \in TakenLines \cup Refused
        BY <1>1, <3>1, <4>1 DEF EntryTies
      <4> QED
        BY <2>1, <4>2
    <3> QED
      BY <1>3, <3>2, <3>3
  <2> QED
    BY <2>1, <2>2 DEF PassOver, Settled
<1>5. TypeOK' /\ OneToOne'
  BY <1>2 DEF PassOver, TypeOK, OneToOne, books, Orders
<1>6. NeverATossUp'
  BY <1>2, <1>4 DEF NeverATossUp
<1>7. RefusedForCause'
  BY <1>2, SameBooks DEF PassOver, RefusedForCause
<1>8. Downhill'
  BY <1>2, StepDown DEF PassOver, Downhill
<1>9. LineTies' /\ EntryTies'
  BY <1>2 DEF LineTies, EntryTies
<1> QED
  BY <1>5, <1>6, <1>7, <1>8, <1>9

LEMMA RefuseInv ==
  ASSUME MatchInv, NEW p \in left, Refuse(p)
  PROVE  MatchInv'
<1> USE DEF MatchInv
<1>1. p \in Pairs /\ p \in Pair
  BY DEF TypeOK, Pairs
<1>2. /\ Pairs' = Pairs
      /\ \A r, q : Better(r, q)' = Better(r, q) /\ Level(r, q)' = Level(r, q)
      /\ TakenLines' = TakenLines /\ matched' = matched /\ left' = left \ {p}
  BY SameBooks DEF Refuse, TakenLines
<1> DEFINE own == [line |-> p.line,
                   candidates |-> {p.entry} \cup {q.entry : q \in RivalsForLine(p)}]
           rival(q) == [line |-> q.line, candidates |-> {p.entry}]
<1>3. ambiguous' = ambiguous \cup {own} \cup {rival(q) : q \in RivalsForEntry(p)}
  BY DEF Refuse
<1>4. /\ p.line \in Refused' /\ Refused \subseteq Refused'
      /\ \A q \in RivalsForEntry(p) : q.line \in Refused'
      /\ \A l \in Refused' : \/ l \in Refused
                             \/ l = p.line
                             \/ \E q \in RivalsForEntry(p) : l = q.line
  <2>1. Refused' = Refused \cup {p.line} \cup {q.line : q \in RivalsForEntry(p)}
    <3>1. own.line = p.line /\ \A q : rival(q).line = q.line
      OBVIOUS
    <3> HIDE DEF own, rival
    <3> QED
      BY <1>3, <3>1 DEF Refused
  <2> QED
    BY <2>1
<1>5. TypeOK'
  <2>1. own \in [line : Lines, candidates : SUBSET Entries]
    BY <1>1 DEF RivalsForLine, Pairs, Pair
  <2>2. \A q \in RivalsForEntry(p) : rival(q) \in [line : Lines, candidates : SUBSET Entries]
    BY <1>1 DEF RivalsForEntry, Pairs, Pair
  <2>3. ambiguous' \subseteq [line : Lines, candidates : SUBSET Entries]
    BY <1>3, <2>1, <2>2 DEF TypeOK
  <2> QED
    BY <1>2, <2>3 DEF Refuse, TypeOK, books, Orders
<1>6. OneToOne'
  BY <1>2, <1>4 DEF Refuse, Settled, RivalsForEntry, OneToOne
<1>7. NeverATossUp'
  BY <1>2, <1>4 DEF NeverATossUp
<1>8. RefusedForCause'
  <2> SUFFICES ASSUME NEW a \in ambiguous'
               PROVE  \E r, q \in Pairs :
                        /\ r # q /\ words[r] = words[q] /\ Gap(r) = Gap(q)
                        /\ r.line = a.line /\ r.entry \in a.candidates
                        /\ \/ q.line = r.line /\ q.entry \in a.candidates
                           \/ q.entry = r.entry /\ q.line \in Refused'
    BY <1>2, SameBooks DEF Refuse, RefusedForCause
  <2>1. CASE a \in ambiguous
    BY <1>4, <2>1 DEF RefusedForCause
  <2>2. CASE a = own
    <3>1. a.line = p.line /\ p.entry \in a.candidates
      BY <2>2
    <3>2. ASSUME NEW q \in RivalsForLine(p)
          PROVE  q.line = p.line /\ q.entry \in a.candidates /\ q # p /\ q \in Pairs
                 /\ words[p] = words[q] /\ Gap(p) = Gap(q)
      BY <2>2 DEF RivalsForLine, Level
    <3>3. ASSUME NEW q \in RivalsForEntry(p)
          PROVE  q.entry = p.entry /\ q.line \in Refused' /\ q # p /\ q \in Pairs
                 /\ words[p] = words[q] /\ Gap(p) = Gap(q)
      BY <1>4 DEF RivalsForEntry, Level
    <3> QED
      BY <1>1, <3>1, <3>2, <3>3 DEF Refuse
  <2>3. CASE \E q \in RivalsForEntry(p) : a = rival(q)
    <3>1. PICK q \in RivalsForEntry(p) : a = rival(q)
      BY <2>3
    <3>2. /\ q \in Pairs /\ q # p /\ q.entry = p.entry
          /\ words[q] = words[p] /\ Gap(q) = Gap(p)
      BY DEF RivalsForEntry, Level
    <3>3. a.line = q.line /\ a.candidates = {p.entry}
      BY <3>1
    <3> QED
      BY <1>1, <1>4, <3>2, <3>3
  <2> QED
    BY <1>3, <2>1, <2>2, <2>3
<1>9. Downhill'
  BY <1>2, StepDown DEF Refuse, Downhill
<1>10. LineTies' /\ EntryTies'
  BY <1>2, <1>4 DEF LineTies, EntryTies
<1> QED
  BY <1>5, <1>6, <1>7, <1>8, <1>9, <1>10

LEMMA AcceptInv ==
  ASSUME MatchInv, NEW p \in left, Accept(p)
  PROVE  MatchInv'
<1> USE DEF MatchInv
<1>1. p \in Pairs /\ p \in Pair /\ p \notin matched
  BY DEF TypeOK, Pairs, Downhill
<1>2. /\ Pairs' = Pairs
      /\ \A r, q : Better(r, q)' = Better(r, q) /\ Level(r, q)' = Level(r, q)
      /\ Refused' = Refused /\ TakenLines' = TakenLines \cup {p.line}
      /\ matched' = matched \cup {p} /\ left' = left \ {p}
  BY SameBooks DEF Accept, Refused, TakenLines
<1>3. /\ p.line \notin TakenLines /\ p.line \notin Refused
      /\ \A m \in matched : m.line # p.line /\ m.entry # p.entry
  BY DEF Accept, Settled, TakenLines, TakenEntries
<1>4. TypeOK' /\ OneToOne'
  BY <1>1, <1>2, <1>3 DEF Accept, TypeOK, OneToOne, books, Orders
<1>5. NeverATossUp'
  BY <1>2 DEF NeverATossUp
<1>6. RefusedForCause'
  BY <1>2, SameBooks DEF Accept, RefusedForCause
<1>7. Downhill'
  BY <1>2, StepDown DEF Accept, Downhill
<1>8. EntryTies'
  <2>1. ASSUME NEW r \in Pairs, r # p, r.entry = p.entry, Level(r, p)
        PROVE  r.line \in TakenLines \cup Refused
    <3>1. r.line # p.line
      BY <1>1, <2>1 DEF Pairs, Pair
    <3> QED
      BY <2>1, <3>1 DEF Accept, RivalsForEntry
  <2> QED
    BY <1>2, <2>1 DEF EntryTies
<1>9. LineTies'
  <2>1. ASSUME NEW r \in Pairs, r # p, r.line = p.line, Level(r, p)
        PROVE  \E n \in matched : n.entry = r.entry /\ Better(n, r)
    <3>1. r.entry # p.entry /\ r \in Pair
      BY <1>1, <2>1 DEF Pairs, Pair
    <3>2. PICK n \in matched : n.entry = r.entry
      BY <2>1, <3>1 DEF Accept, RivalsForLine, TakenEntries
    <3>3. n \in Pair /\ (Better(n, p) \/ Level(n, p))
      BY <1>1, <3>2, Compare DEF TypeOK, Pairs, Downhill
    <3>4. ~Level(n, p)
      <4>1. SUFFICES ASSUME Level(n, p)
                     PROVE  FALSE
        OBVIOUS
      <4>2. Level(r, n)
        BY <1>1, <2>1, <3>1, <3>3, <4>1, Compare
      <4>3. r # n
        BY <1>3, <2>1, <3>2
      <4>4. r.line \in TakenLines \cup Refused
        BY <3>2, <4>2, <4>3 DEF EntryTies
      <4> QED
        BY <1>3, <2>1, <4>4
    <3>5. Better(n, r)
      BY <1>1, <2>1, <3>1, <3>3, <3>4, Compare
    <3> QED
      BY <3>2, <3>5
  <2> QED
    BY <1>2, <2>1 DEF LineTies
<1> QED
  BY <1>4, <1>5, <1>6, <1>7, <1>8, <1>9

LEMMA MatchAgainInv ==
  ASSUME MatchInv, MatchAgain
  PROVE  MatchInv'
<1>1. Pairs' = Pairs /\ Orders' = Orders
  BY DEF MatchAgain, books, Pairs, Gap, Orders
<1>2. matched \in SUBSET Pair
  BY DEF MatchInv, TypeOK, Pairs
<1>3. TypeOK'
  BY <1>1, <1>2 DEF MatchAgain, MatchInv, TypeOK, books
<1> QED
  BY <1>1, <1>3 DEF MatchAgain, MatchInv, OneToOne, NeverATossUp, RefusedForCause, Downhill,
     LineTies, EntryTies, TakenLines, Refused

LEMMA NextInv == MatchInv /\ [Next]_vars => MatchInv'
<1> SUFFICES ASSUME MatchInv, [Next]_vars
             PROVE  MatchInv'
  OBVIOUS
<1>1. CASE UNCHANGED vars
  <2>1. /\ Pairs' = Pairs /\ Orders' = Orders
        /\ \A p, q : Better(p, q)' = Better(p, q) /\ Level(p, q)' = Level(p, q)
        /\ \A p : words'[p] = words[p] /\ Gap(p)' = Gap(p)
    BY <1>1, SameBooks DEF vars
  <2>2. /\ TakenLines' = TakenLines /\ Refused' = Refused /\ matched' = matched
        /\ left' = left /\ ambiguous' = ambiguous
    BY <1>1 DEF vars, TakenLines, Refused
  <2> QED
    BY <1>1, <2>1, <2>2
       DEF vars, books, MatchInv, TypeOK, OneToOne, NeverATossUp, RefusedForCause, Downhill,
           LineTies, EntryTies
<1>2. CASE Next
  BY <1>2, PassOverInv, RefuseInv, AcceptInv, MatchAgainInv DEF Next
<1> QED
  BY <1>1, <1>2

-----------------------------------------------------------------------------
\* The inductive invariant of the walk: it goes downhill, and what is level with a match
\* was settled before it or went to something better.
THEOREM MatchInvariant == Spec => []MatchInv
<1>1. Init => MatchInv
  BY InitInv
<1>2. MatchInv /\ [Next]_vars => MatchInv'
  BY NextInv
<1> QED
  BY <1>1, <1>2, PTL DEF Spec

\* The statement, the ledger and the report of a walk are of their types.
THEOREM MatchTypeCorrect == Spec => []TypeOK
<1>1. MatchInv => TypeOK
  BY DEF MatchInv
<1> QED
  BY <1>1, MatchInvariant, PTL

\* No line and no movement is matched twice, and no refused line is matched.
THEOREM OneToOneHolds == Spec => []OneToOne
<1>1. MatchInv => OneToOne
  BY DEF MatchInv
<1> QED
  BY <1>1, MatchInvariant, PTL

\* Whatever the books and the order of the statement, match() never decides between
\* equally good candidates, nor reports a line missing that a free movement explains.
THEOREM NeverATossUpHolds == Spec => []NeverATossUp
<1>1. MatchInv => NeverATossUp
  BY DEF MatchInv
<1> QED
  BY <1>1, MatchInvariant, PTL

\* match() refuses a line only where two candidates fit equally well.
THEOREM RefusedForCauseHolds == Spec => []RefusedForCause
<1>1. MatchInv => RefusedForCause
  BY DEF MatchInv
<1> QED
  BY <1>1, MatchInvariant, PTL

-----------------------------------------------------------------------------
(* Tax rates.                                                              *)

DecidedInv == DOMAIN rate = Rates /\ DOMAIN override = Rates /\ DecidedRatesStay

LEMMA StepDecided == DecidedInv /\ [ReturnsNext]_returnsVars => DecidedInv'
<1> SUFFICES ASSUME DecidedInv, [ReturnsNext]_returnsVars
             PROVE  DecidedInv'
  OBVIOUS
<1>1. ASSUME NEW rs \in SUBSET Rates, NEW said \in [rs -> Labels], SyncRates(said)
      PROVE  DecidedInv'
  BY <1>1 DEF SyncRates, DecidedInv, DecidedRatesStay
<1>2. ASSUME NEW r \in Rates, NEW c \in {"gst_hst", "provincial"}, DecideRate(r, c)
      PROVE  DecidedInv'
  BY <1>2 DEF DecideRate, DecidedInv, DecidedRatesStay
<1>3. CASE UNCHANGED <<rate, override>>
  BY <1>3 DEF DecidedInv, DecidedRatesStay
<1>4. ASSUME \/ \E d \in Paperwork : RecordDocument(d)
             \/ StoreScan \/ OpenReturn \/ UNCHANGED returnsVars
             \/ \E m \in {"regular", "quick"} : RecordMethod(m)
      PROVE  UNCHANGED <<rate, override>>
  BY <1>4 DEF RecordDocument, StoreScan, OpenReturn, RecordMethod, returnsVars
<1> QED
  BY <1>1, <1>2, <1>3, <1>4 DEF ReturnsNext

\* A tax rate that a person has put on a return is there, as that person's decision, after
\* any readings of the provider's rates and any further decisions.
THEOREM DecidedRatesAreKept == ReturnsSpec => []DecidedRatesStay
<1>1. ReturnsInit => DecidedInv
  BY DEF ReturnsInit, DecidedInv, DecidedRatesStay
<1>2. DecidedInv => DecidedRatesStay
  BY DEF DecidedInv
<1> QED
  BY <1>1, <1>2, StepDecided, PTL DEF ReturnsSpec

-----------------------------------------------------------------------------
(* Returns.                                                                *)

ReturnsInv ==
  /\ ReturnsTypeOK
  /\ IsFiniteSet(held)

LEMMA SumOfNumbers ==
  ASSUME NEW f, IsFiniteSet(DOMAIN f), \A x \in DOMAIN f : f[x] \in Int
  PROVE  SumFunction(f) \in Int
  BY SumTyped DEF SumFunction, Total

\* The stored rows are finitely many, each of a document of the books.
LEMMA RowsTyped ==
  ASSUME ReturnsInv
  PROVE  IsFiniteSet(Rows) /\ \A row \in Rows : row[2] \in Paperwork
<1>1. PICK n \in 0 .. MaxScans : stored \in [1 .. n -> SUBSET held]
  BY DEF ReturnsInv, ReturnsTypeOK
<1>2. n \in Nat /\ IsFiniteSet(1 .. n)
  BY FS_Interval, ReturnsAssumption
<1> DEFINE part(k) == {k} \X stored[k]
           parts == {part(k) : k \in 1 .. n}
<1>3. \A k \in 1 .. n : IsFiniteSet(part(k))
  <2> SUFFICES ASSUME NEW k \in 1 .. n PROVE IsFiniteSet({k} \X stored[k])
    OBVIOUS
  <2>1. IsFiniteSet(stored[k]) /\ IsFiniteSet({k})
    BY <1>1, FS_Subset, FS_Singleton DEF ReturnsInv
  <2> QED
    BY <2>1, FS_Product
<1>4. Rows = UNION parts
  BY <1>1 DEF Rows
<1>5. \A row \in Rows : row[2] \in Paperwork
  BY <1>1, <1>4 DEF ReturnsInv, ReturnsTypeOK
<1> HIDE DEF part
<1>6. IsFiniteSet(parts)
  <2>1. [k \in 1 .. n |-> part(k)] \in Surjection(1 .. n, parts)
    BY DEF Surjection
  <2> QED
    BY <1>2, <2>1, FS_Surjection
<1>7. \A s \in parts : IsFiniteSet(s)
  BY <1>3
<1> QED
  BY <1>4, <1>5, <1>6, <1>7, FS_UNION

LEMMA TaxTyped ==
  ASSUME ReturnsInv, NEW side, NEW rates
  PROVE  TaxOf(Rows, side, rates) \in Int
<1> DEFINE part(row) == TaxRows(row[2]) \cap rates
           tax == [row \in OnSide(Rows, side) |->
                     Sign(row[2]) * SumFunctionOnSet(row[2].rates, part(row))]
<1>1. IsFiniteSet(OnSide(Rows, side)) /\ \A row \in OnSide(Rows, side) : row[2] \in Paperwork
  <2>1. OnSide(Rows, side) \subseteq Rows
    BY DEF OnSide
  <2> QED
    BY <2>1, RowsTyped, FS_Subset
<1>2. ASSUME NEW row \in OnSide(Rows, side)
      PROVE  tax[row] \in Int
  <2> DEFINE f == row[2].rates
             T == part(row)
  <2>1. IsFiniteSet(T) /\ \A r \in T : f[r] \in Int
    <3>1. IsFiniteSet(DOMAIN f) /\ \A r \in DOMAIN f : f[r] \in Int
      BY <1>1, ReturnsAssumption
    <3> QED
      BY <3>1, FS_Subset DEF TaxRows
  <2>2. SumFunctionOnSet(f, T) \in Int
    <3> HIDE DEF f, T
    <3> QED BY <2>1, SumTyped DEF Total
  <2>3. Sign(row[2]) \in {1, -1}
    BY DEF Sign
  <2>4. tax[row] = Sign(row[2]) * SumFunctionOnSet(f, T)
    BY DEF part
  <2> HIDE DEF f, T, tax
  <2> QED
    BY <2>2, <2>3, <2>4
<1>3. DOMAIN tax = OnSide(Rows, side)
  OBVIOUS
<1>4. TaxOf(Rows, side, rates) = SumFunction(tax)
  BY DEF TaxOf
<1> HIDE DEF tax
<1> QED
  BY <1>1, <1>2, <1>3, <1>4, SumOfNumbers

LEMMA PostedTyped ==
  ASSUME ReturnsInv, NEW types
  PROVE  PostedTo(Rows, types) \in Int
<1> DEFINE journals == {row \in Rows : row[2].kind = "JournalEntry"}
           credits(row) == [i \in DOMAIN row[2].lines |-> row[2].lines[i].credit]
           part(row) == {i \in DOMAIN row[2].lines : AccountType[row[2].lines[i].account] \in types}
           posted == [row \in journals |-> SumFunctionOnSet(credits(row), part(row))]
<1>1. IsFiniteSet(journals) /\ \A row \in journals : row[2] \in Paperwork
  BY RowsTyped, FS_Subset
<1>2. ASSUME NEW row \in journals
      PROVE  posted[row] \in Int
  <2>1. IsFiniteSet(part(row)) /\ \A i \in part(row) : credits(row)[i] \in Int
    <3>1. /\ IsFiniteSet(DOMAIN row[2].lines)
          /\ \A i \in DOMAIN row[2].lines : row[2].lines[i].credit \in Int
      BY <1>1, ReturnsAssumption
    <3> QED
      BY <3>1, FS_Subset
  <2>2. SumFunctionOnSet(credits(row), part(row)) \in Int
    <3> HIDE DEF credits, part
    <3> QED BY <2>1, SumTyped DEF Total
  <2> QED
    BY <2>2
<1>3. DOMAIN posted = journals
  OBVIOUS
<1>4. PostedTo(Rows, types) = SumFunction(posted)
  BY DEF PostedTo
<1> HIDE DEF posted, journals
<1> QED
  BY <1>1, <1>2, <1>3, <1>4, SumOfNumbers

LEMMA ReturnsStep == ReturnsInv /\ [ReturnsNext]_returnsVars => ReturnsInv'
<1> SUFFICES ASSUME ReturnsInv, [ReturnsNext]_returnsVars
             PROVE  ReturnsInv'
  OBVIOUS
<1> USE DEF ReturnsInv, ReturnsTypeOK
<1>1. ASSUME NEW d \in Paperwork, RecordDocument(d)
      PROVE  ReturnsInv'
  <2>1. /\ held' = held \cup {d} /\ UNCHANGED <<stored, rate, override, method, filed>>
    BY <1>1 DEF RecordDocument
  <2>2. IsFiniteSet(held')
    BY <2>1, FS_AddElement
  <2>3. stored' \in UNION {[1 .. n -> SUBSET held'] : n \in 0 .. MaxScans}
    <3>1. PICK n \in 0 .. MaxScans : stored \in [1 .. n -> SUBSET held]
      OBVIOUS
    <3>2. stored' \in [1 .. n -> SUBSET held']
      BY <2>1, <3>1
    <3> QED
      BY <3>2
  <2> QED
    BY <2>1, <2>2, <2>3
<1>2. CASE StoreScan
  <2>1. /\ stored' = Append(stored, {d \in held : d.kind \in StoredKinds})
        /\ Len(stored) < MaxScans /\ UNCHANGED <<held, rate, override, method, filed>>
    BY <1>2 DEF StoreScan
  <2>2. PICK n \in 0 .. MaxScans : stored \in [1 .. n -> SUBSET held]
    OBVIOUS
  <2>3. n \in Nat /\ MaxScans \in Nat
    BY ReturnsAssumption
  <2>4. stored \in Seq(SUBSET held) /\ Len(stored) = n
    BY <2>2, <2>3
  <2>5. stored' \in Seq(SUBSET held) /\ Len(stored') = n + 1
    BY <2>1, <2>4
  <2>6. n + 1 \in 0 .. MaxScans
    BY <2>1, <2>3, <2>4
  <2>7. stored' \in [1 .. Len(stored') -> SUBSET held]
    BY <2>5, LenProperties
  <2> QED
    BY <2>1, <2>5, <2>6, <2>7
<1>3. ASSUME NEW rs \in SUBSET Rates, NEW said \in [rs -> Labels], SyncRates(said)
      PROVE  ReturnsInv'
  <2>1. \A r \in rs : Classify(said[r]) \in {"gst_hst", "provincial", "unknown"}
    BY ReturnsAssumption DEF Classify
  <2>2. /\ rate' = [r \in Rates |->
                      IF r \notin rs THEN rate[r]
                      ELSE IF override[r] # Nothing THEN Sorted(override[r], "operator")
                      ELSE Sorted(Classify(said[r]), "provider")]
        /\ UNCHANGED <<held, stored, override, method, filed>>
    BY <1>3 DEF SyncRates
  <2>3. rate' \in [Rates -> {Nothing} \cup
          [class : {"gst_hst", "provincial", "unknown"}, source : {"provider", "operator"}]]
    BY <2>1, <2>2 DEF Sorted
  <2> QED
    BY <2>2, <2>3
<1>4. ASSUME NEW r \in Rates, NEW c \in {"gst_hst", "provincial"}, DecideRate(r, c)
      PROVE  ReturnsInv'
  BY <1>4 DEF DecideRate, Sorted
<1>5. ASSUME NEW m \in {"regular", "quick"}, RecordMethod(m)
      PROVE  ReturnsInv'
  BY <1>5 DEF RecordMethod
<1>6. CASE OpenReturn
  <2>1. filed' = Return(Rows) /\ UNCHANGED <<held, stored, rate, override, method>>
    BY <1>6 DEF OpenReturn, Keep
  <2>2. Return(Rows) \in [filable : BOOLEAN, line101 : Int, line105 : Int, line108 : Int]
    <3>1. /\ PostedTo(Rows, REVENUE_TYPES) \in Int
          /\ TaxOf(Rows, "collected", Placed("gst_hst")) \in Int
          /\ TaxOf(Rows, "paid", Placed("gst_hst")) \in Int
      BY TaxTyped, PostedTyped
    <3>2. (~Blocked(Rows)) \in BOOLEAN
      BY DEF Blocked
    <3> QED
      BY <3>1, <3>2 DEF Return
  <2> QED
    BY <2>1, <2>2
<1>7. CASE UNCHANGED returnsVars
  BY <1>7 DEF returnsVars
<1> HIDE DEF ReturnsInv, ReturnsTypeOK
<1> QED
  BY <1>1, <1>2, <1>3, <1>4, <1>5, <1>6, <1>7 DEF ReturnsNext

\* The documents, the stored runs, the rates and the return are of their types: the return
\* of any books states numbers.
THEOREM ReturnsTypeCorrect == ReturnsSpec => []ReturnsTypeOK
<1>1. ReturnsInit => ReturnsInv
  <2> SUFFICES ASSUME ReturnsInit PROVE ReturnsInv
    OBVIOUS
  <2>1. IsFiniteSet(held)
    BY FS_EmptySet DEF ReturnsInit
  <2>2. stored \in [1 .. 0 -> SUBSET held] /\ 0 \in 0 .. MaxScans
    BY ReturnsAssumption DEF ReturnsInit
  <2> QED
    BY <2>1, <2>2 DEF ReturnsInit, ReturnsInv, ReturnsTypeOK
<1>2. ReturnsInv => ReturnsTypeOK
  BY DEF ReturnsInv
<1> QED
  BY <1>1, <1>2, ReturnsStep, PTL DEF ReturnsSpec

-----------------------------------------------------------------------------
(* Dates.                                                                  *)

\* Months are numbered, and days within them: the calendar's order is that of numbers.
Month(a) == 12 * a[1] + a[2] - 1
Place(a) == 31 * Month(a) + a[3]

LEMMA MonthLengths ==
  ASSUME NEW y \in Int, NEW m \in 1 .. 12
  PROVE  /\ MonthLength(y, m) \in 28 .. 31
         /\ m = 2 => MonthLength(y, m) \in {28, 29}
         /\ m # 2 => \A z \in Int : MonthLength(z, m) = MonthLength(y, m)
  BY DEF MonthLength

LEMMA DateParts ==
  ASSUME NEW a, IsDate(a)
  PROVE  /\ a[1] \in Int /\ a[2] \in 1 .. 12 /\ a[3] \in 1 .. 31
         /\ a[3] <= MonthLength(a[1], a[2]) /\ a = <<a[1], a[2], a[3]>>
         /\ Month(a) \in Int /\ Place(a) \in Int
         /\ Month(a) = 12 * a[1] + a[2] - 1
         /\ Place(a) = 31 * Month(a) + a[3]
<1>1. /\ a[1] \in Int /\ a[2] \in 1 .. 12 /\ a[3] \in 1 .. 31
      /\ a[3] <= MonthLength(a[1], a[2]) /\ a = <<a[1], a[2], a[3]>>
  BY DEF IsDate
<1>2. Month(a) = 12 * a[1] + a[2] - 1 /\ Place(a) = 31 * Month(a) + a[3]
  BY DEF Month, Place
<1>3. Month(a) \in Int /\ Place(a) \in Int
  <2> DEFINE y == a[1]
             m == a[2]
             d == a[3]
             p == Month(a)
             q == Place(a)
  <2>1. y \in Int /\ m \in Int /\ d \in Int /\ p = 12 * y + m - 1 /\ q = 31 * p + d
    BY <1>1, <1>2
  <2> HIDE DEF y, m, d, p, q
  <2>2. p \in Int /\ q \in Int
    BY <2>1
  <2> QED
    BY <2>2 DEF p, q
<1> QED
  BY <1>1, <1>2, <1>3

LEMMA Ordered ==
  ASSUME NEW a, NEW b, IsDate(a), IsDate(b)
  PROVE  /\ Earlier(a, b) <=> Place(a) < Place(b)
         /\ a = b <=> Place(a) = Place(b)
         /\ NotLater(a, b) <=> Place(a) <= Place(b)
         /\ Month(a) < Month(b) => Place(a) < Place(b)
         /\ Month(a) = Month(b) => a[1] = b[1] /\ a[2] = b[2]
<1> DEFINE y == a[1]
           m == a[2]
           d == a[3]
           z == b[1]
           n == b[2]
           e == b[3]
           p == Place(a)
           q == Place(b)
<1>1. /\ y \in Int /\ m \in 1 .. 12 /\ d \in 1 .. 31 /\ a = <<y, m, d>>
      /\ z \in Int /\ n \in 1 .. 12 /\ e \in 1 .. 31 /\ b = <<z, n, e>>
  BY DateParts
<1>2. /\ Month(a) = 12 * y + m - 1 /\ p = 31 * (12 * y + m - 1) + d
      /\ Month(b) = 12 * z + n - 1 /\ q = 31 * (12 * z + n - 1) + e
  BY DateParts
<1>3. Earlier(a, b) <=> y < z \/ (y = z /\ m < n) \/ (y = z /\ m = n /\ d < e)
  BY DEF Earlier
<1>4. a = b <=> y = z /\ m = n /\ d = e
  BY <1>1
<1> HIDE DEF y, m, d, z, n, e, p, q
<1>5. Earlier(a, b) <=> p < q
  BY <1>1, <1>2, <1>3
<1>6. p = q => y = z /\ m = n /\ d = e
  BY <1>1, <1>2
<1>7. Month(a) < Month(b) => p < q
  BY <1>1, <1>2
<1>8. Month(a) = Month(b) => y = z /\ m = n
  BY <1>1, <1>2
<1>9. p \in Int /\ q \in Int
  BY <1>1, <1>2
<1>10. NotLater(a, b) <=> p <= q
  BY <1>4, <1>5, <1>6, <1>9, <1>2 DEF NotLater
<1> QED
  BY <1>2, <1>4, <1>5, <1>6, <1>7, <1>8, <1>10 DEF p, q, y, z, m, n

LEMMA NextDayIsNext ==
  ASSUME NEW a, IsDate(a)
  PROVE  /\ IsDate(NextDay(a))
         /\ Place(a) < Place(NextDay(a))
         /\ \A b : IsDate(b) /\ Place(a) < Place(b) => Place(NextDay(a)) <= Place(b)
<1> DEFINE y == a[1]
           m == a[2]
           d == a[3]
<1>1. /\ y \in Int /\ m \in 1 .. 12 /\ d \in 1 .. 31 /\ d <= MonthLength(y, m)
      /\ Month(a) = 12 * y + m - 1 /\ Place(a) = 31 * Month(a) + d
      /\ Month(a) \in Int /\ Place(a) \in Int
  BY DateParts
<1>2. NextDay(a) = IF d < MonthLength(y, m) THEN <<y, m, d + 1>>
                   ELSE IF m < 12 THEN <<y, m + 1, 1>> ELSE <<y + 1, 1, 1>>
  BY DEF NextDay
<1>3. ASSUME NEW b, IsDate(b), Place(a) < Place(b)
      PROVE  \/ Month(a) < Month(b)
             \/ Month(a) = Month(b) /\ b[3] <= MonthLength(y, m) /\ d < b[3]
  <2>1. Month(b) \in Int /\ b[3] \in 1 .. 31 /\ b[3] <= MonthLength(b[1], b[2])
        /\ Place(b) = 31 * Month(b) + b[3]
    BY <1>3, DateParts
  <2>2. ~(Month(b) < Month(a))
    BY <1>1, <1>3, <2>1
  <2>3. CASE Month(a) = Month(b)
    <3>1. b[1] = y /\ b[2] = m
      BY <1>3, <2>3, Ordered
    <3> QED
      BY <1>1, <1>3, <2>1, <2>3, <3>1
  <2> QED
    BY <1>1, <2>1, <2>2, <2>3
<1> HIDE DEF y, m, d
<1>4. MonthLength(y, m) \in 28 .. 31
  BY <1>1, MonthLengths
<1>5. CASE d < MonthLength(y, m)
  <2>1. NextDay(a) = <<y, m, d + 1>>
    BY <1>2, <1>5
  <2>2. IsDate(NextDay(a)) /\ Month(NextDay(a)) = 12 * y + m - 1 /\ NextDay(a)[3] = d + 1
    BY <1>1, <1>4, <1>5, <2>1 DEF IsDate, Month
  <2>3. Place(NextDay(a)) = Place(a) + 1
    BY <1>1, <2>2, DateParts
  <2> QED
    BY <1>1, <2>2, <2>3, DateParts
<1>6. CASE ~(d < MonthLength(y, m))
  <2>1. NextDay(a) = IF m < 12 THEN <<y, m + 1, 1>> ELSE <<y + 1, 1, 1>>
    BY <1>2, <1>6
  <2>2. \A x \in Int, n \in 1 .. 12 : 1 <= MonthLength(x, n)
    BY MonthLengths
  <2>3. IsDate(NextDay(a)) /\ Month(NextDay(a)) = 12 * y + m /\ NextDay(a)[3] = 1
    BY <1>1, <2>1, <2>2 DEF IsDate, Month
  <2>4. Place(NextDay(a)) = 31 * (Month(a) + 1) + 1
    BY <1>1, <2>3, DateParts
  <2>5. Place(a) < Place(NextDay(a))
    BY <1>1, <2>4
  <2>6. ASSUME NEW b, IsDate(b), Place(a) < Place(b)
        PROVE  Place(NextDay(a)) <= Place(b)
    <3>1. Month(a) < Month(b)
      <4>1. b[3] \in Int
        BY <2>6, DateParts
      <4> QED
        BY <1>1, <1>3, <1>4, <1>6, <2>6, <4>1
    <3>2. Month(b) \in Int /\ b[3] \in 1 .. 31 /\ Place(b) = 31 * Month(b) + b[3]
      BY <2>6, DateParts
    <3> QED
      BY <1>1, <2>4, <3>1, <3>2
  <2> QED
    BY <2>3, <2>5, <2>6
<1> QED
  BY <1>5, <1>6

\* Months are added in numbers of months.
LEMMA MonthsAdded ==
  ASSUME NEW a, IsDate(a), NEW n \in Int
  PROVE  IsDate(AddMonths(a, n)) /\ Month(AddMonths(a, n)) = Month(a) + n
<1> DEFINE total == a[2] - 1 + n
           y == a[1] + (total \div 12)
           m == (total % 12) + 1
           d == IF a[3] = MonthLength(a[1], a[2]) THEN MonthLength(y, m)
                ELSE Least(a[3], MonthLength(y, m))
<1>1. a[1] \in Int /\ a[2] \in 1 .. 12 /\ a[3] \in 1 .. 31
  BY DateParts
<1>2. y \in Int /\ m \in 1 .. 12 /\ 12 * y + m - 1 = Month(a) + n
  <2> DEFINE y0 == a[1]
             m0 == a[2]
             q == total \div 12
             r == total % 12
  <2>1. total \in Int /\ total = m0 - 1 + n /\ y0 \in Int /\ m0 \in Int
    BY <1>1
  <2>2. y = y0 + q /\ m = r + 1
    OBVIOUS
  <2>3. q \in Int /\ r \in 0 .. 11 /\ total = 12 * q + r
    <3> HIDE DEF total
    <3> QED BY <2>1
  <2> HIDE DEF q, r, y, m, total
  <2>4. Month(a) = 12 * y0 + m0 - 1
    BY DateParts
  <2> HIDE DEF y0, m0
  <2>5. 12 * y + m - 1 = Month(a) + n
    BY <2>1, <2>2, <2>3, <2>4
  <2>6. y \in Int /\ m \in 1 .. 12
    BY <2>1, <2>2, <2>3
  <2> QED
    BY <2>5, <2>6 DEF y, m, total, q, r
<1>3. AddMonths(a, n) = <<y, m, d>>
  BY DEF AddMonths
<1> HIDE DEF y, m
<1>4. MonthLength(y, m) \in 28 .. 31
  BY <1>2, MonthLengths
<1>5. d \in 1 .. 31 /\ d <= MonthLength(y, m)
  BY <1>1, <1>4 DEF Least
<1> HIDE DEF d
<1>6. IsDate(<<y, m, d>>) /\ Month(<<y, m, d>>) = 12 * y + m - 1
  BY <1>2, <1>5 DEF IsDate, Month
<1> QED
  BY <1>2, <1>3, <1>6

LEMMA LeastAndMost ==
  ASSUME NEW S, IsFiniteSet(S), S # {}, S \subseteq Int
  PROVE  /\ Max(S) \in S /\ \A x \in S : x <= Max(S)
         /\ Min(S) \in S /\ \A x \in S : Min(S) <= x
<1>1. PICK x \in S : \A y \in S : y <= x
  <2> DEFINE n == [z \in S |-> z]
  <2>1. \E u \in S : \A y \in S : n[y] <= n[u]
    <3>1. \A z \in S : n[z] \in Int
      OBVIOUS
    <3> HIDE DEF n
    <3> QED BY <3>1, LastOne
  <2> QED
    BY <2>1
<1>2. PICK w \in S : \A y \in S : w <= y
  <2> DEFINE n == [z \in S |-> -z]
  <2>1. \E v \in S : \A y \in S : n[y] <= n[v]
    <3>1. \A z \in S : n[z] \in Int
      OBVIOUS
    <3> HIDE DEF n
    <3> QED BY <3>1, LastOne
  <2>2. PICK v \in S : \A y \in S : n[y] <= n[v]
    BY <2>1
  <2>3. ASSUME NEW y \in S PROVE v <= y
    <3>1. v \in Int /\ y \in Int /\ n[y] = -y /\ n[v] = -v /\ n[y] <= n[v]
      BY <2>2
    <3> QED
      BY <3>1
  <2> QED
    BY <2>3
<1>3. x \in S /\ \A y \in S : x >= y
  BY <1>1
<1>4. Max(S) \in S /\ \A y \in S : Max(S) >= y
  BY <1>3 DEF Max
<1>5. Min(S) \in S /\ \A y \in S : Min(S) <= y
  BY <1>2 DEF Min
<1> QED
  BY <1>4, <1>5

\* Every step-th month, as counted from month c.
OnGrid(step, c, i) == i \in Int /\ i % step = c % step

LEMMA Grid ==
  ASSUME NEW step \in {1, 3, 12}, NEW c \in Int
  PROVE  /\ \A i, j : OnGrid(step, c, i) /\ OnGrid(step, c, j) /\ i < j => i + step <= j
         /\ \A i \in Int : \E j \in Int : OnGrid(step, c, j) /\ i <= j /\ j < i + step
         /\ \A i : OnGrid(step, c, i) => OnGrid(step, c, i - step) /\ OnGrid(step, c, i + step)
         /\ \A y \in Int : OnGrid(step, c, 12 * y + c)
         /\ \A i, k : OnGrid(step, c, i) /\ k \in Int => OnGrid(step, c, i - step * k)
         /\ \A i, j : OnGrid(step, c, i) /\ OnGrid(step, c, j) /\ j <= i
                     => \E k \in Nat : j = i - step * k
<1> USE DEF OnGrid
<1>1. CASE step = 1
  <2>1. \A i \in Int : i % 1 = 0
    OBVIOUS
  <2>2. \A i, j : i \in Int /\ j \in Int /\ j <= i => i - j \in Nat /\ j = i - 1 * (i - j)
    OBVIOUS
  <2>3. \A i : OnGrid(step, c, i) <=> i \in Int
    BY <1>1, <2>1
  <2> HIDE DEF OnGrid
  <2>4. \A i, j : i \in Int /\ j \in Int /\ i < j => i + 1 <= j
    OBVIOUS
  <2>5. \A i, k : i \in Int /\ k \in Int => i - 1 * k \in Int
    OBVIOUS
  <2>6. \A i \in Int : \E j \in Int : i <= j /\ j < i + 1
    OBVIOUS
  <2>7. \A y \in Int : 12 * y + c \in Int
    OBVIOUS
  <2>8. \A i \in Int : i - 1 \in Int /\ i + 1 \in Int
    OBVIOUS
  <2>9. \A i, j : OnGrid(step, c, i) /\ OnGrid(step, c, j) /\ j <= i
                  => \E k \in Nat : j = i - step * k
    <3> SUFFICES ASSUME NEW i, NEW j, OnGrid(step, c, i), OnGrid(step, c, j), j <= i
                 PROVE  \E k \in Nat : j = i - step * k
      OBVIOUS
    <3>1. i - j \in Nat /\ j = i - step * (i - j)
      BY <1>1, <2>2, <2>3
    <3> QED
      BY <3>1
  <2>10. \A i, k : OnGrid(step, c, i) /\ k \in Int => OnGrid(step, c, i - step * k)
    BY <1>1, <2>3, <2>5
  <2> QED
    BY <1>1, <2>3, <2>4, <2>6, <2>7, <2>8, <2>9, <2>10
<1>2. CASE step = 3
  <2>1. \A i, j : i \in Int /\ j \in Int /\ i % 3 = c % 3 /\ j % 3 = c % 3 /\ i < j => i + 3 <= j
    OBVIOUS
  <2>2. ASSUME NEW i \in Int
        PROVE  \E j \in Int : j % 3 = c % 3 /\ i <= j /\ j < i + 3
    <3>1. i + ((c - i) % 3) \in Int /\ (i + ((c - i) % 3)) % 3 = c % 3
          /\ i <= i + ((c - i) % 3) /\ i + ((c - i) % 3) < i + 3
      OBVIOUS
    <3> QED
      BY <3>1
  <2>3. \A i \in Int : i % 3 = c % 3 => (i - 3) % 3 = c % 3 /\ (i + 3) % 3 = c % 3
    OBVIOUS
  <2>4. \A y \in Int : (12 * y + c) % 3 = c % 3
    OBVIOUS
  <2>5. \A i, k : i \in Int /\ i % 3 = c % 3 /\ k \in Int => (i - 3 * k) % 3 = c % 3
    OBVIOUS
  <2>6. \A i, j : i \in Int /\ j \in Int /\ i % 3 = c % 3 /\ j % 3 = c % 3 /\ j <= i
                  => (i - j) \div 3 \in Nat /\ j = i - 3 * ((i - j) \div 3)
    OBVIOUS
  <2> QED
    BY <1>2, <2>1, <2>2, <2>3, <2>4, <2>5, <2>6
<1>3. CASE step = 12
  <2>1. \A i, j : i \in Int /\ j \in Int /\ i % 12 = c % 12 /\ j % 12 = c % 12 /\ i < j => i + 12 <= j
    OBVIOUS
  <2>2. ASSUME NEW i \in Int
        PROVE  \E j \in Int : j % 12 = c % 12 /\ i <= j /\ j < i + 12
    <3>1. i + ((c - i) % 12) \in Int /\ (i + ((c - i) % 12)) % 12 = c % 12
          /\ i <= i + ((c - i) % 12) /\ i + ((c - i) % 12) < i + 12
      OBVIOUS
    <3> QED
      BY <3>1
  <2>3. \A i \in Int : i % 12 = c % 12 => (i - 12) % 12 = c % 12 /\ (i + 12) % 12 = c % 12
    OBVIOUS
  <2>4. \A y \in Int : (12 * y + c) % 12 = c % 12
    OBVIOUS
  <2>5. \A i, k : i \in Int /\ i % 12 = c % 12 /\ k \in Int => (i - 12 * k) % 12 = c % 12
    OBVIOUS
  <2>6. \A i, j : i \in Int /\ j \in Int /\ i % 12 = c % 12 /\ j % 12 = c % 12 /\ j <= i
                  => (i - j) \div 12 \in Nat /\ j = i - 12 * ((i - j) \div 12)
    OBVIOUS
  <2> QED
    <3>1. \A i : OnGrid(step, c, i) <=> i \in Int /\ i % 12 = c % 12
      BY <1>3
    <3>2. \A i, k : i \in Int /\ k \in Int => i - 12 * k \in Int
      OBVIOUS
    <3>3. \A i \in Int : i - 12 \in Int /\ i + 12 \in Int /\ 12 * i + c \in Int
      OBVIOUS
    <3> HIDE DEF OnGrid
    <3>4. \A i : OnGrid(step, c, i) => OnGrid(step, c, i - step) /\ OnGrid(step, c, i + step)
      BY <1>3, <2>3, <3>1, <3>3
    <3>5. \A i, k : OnGrid(step, c, i) /\ k \in Int => OnGrid(step, c, i - step * k)
      BY <1>3, <2>5, <3>1, <3>2
    <3>6. \A i, j : OnGrid(step, c, i) /\ OnGrid(step, c, j) /\ j <= i
                    => \E k \in Nat : j = i - step * k
      <4> SUFFICES ASSUME NEW i, NEW j, OnGrid(step, c, i), OnGrid(step, c, j), j <= i
                   PROVE  \E k \in Nat : j = i - step * k
        OBVIOUS
      <4>1. (i - j) \div 12 \in Nat /\ j = i - step * ((i - j) \div 12)
        BY <1>3, <2>6, <3>1
      <4> QED
        BY <4>1
    <3>7. \A i \in Int : \E j \in Int : OnGrid(step, c, j) /\ i <= j /\ j < i + step
      BY <1>3, <2>2, <3>1
    <3> QED
      BY <1>3, <2>1, <2>4, <3>1, <3>3, <3>4, <3>5, <3>6, <3>7
<1> QED
  BY <1>1, <1>2, <1>3

-----------------------------------------------------------------------------
(* Boundaries of periods.                                                  *)

\* What record_arrangement admits, but for a year that ends on 28 February: that is the last
\* day of the month in most years and not in all of them.
Stands(arr) ==
  /\ arr.frequency \in FREQUENCIES /\ arr.month \in 1 .. 12 /\ arr.day \in 1 .. 31
  /\ ~(arr.month = 2 /\ arr.day = 28)

Step(arr) == MONTHS_IN_PERIOD[arr.frequency]

ToMonthEnd(arr) == IF arr.month = 2 THEN arr.day > 28 ELSE arr.day >= MonthLength(0, arr.month)

\* The boundary in the month of number i.
Bound(arr, i) ==
  LET y == i \div 12
      m == (i % 12) + 1
  IN <<y, m, IF ToMonthEnd(arr) THEN MonthLength(y, m) ELSE Least(arr.day, MonthLength(y, m))>>

LEMMA BoundTyped ==
  ASSUME NEW arr, Stands(arr), NEW i \in Int
  PROVE  IsDate(Bound(arr, i)) /\ Month(Bound(arr, i)) = i
<1> DEFINE y == i \div 12
           m == (i % 12) + 1
           d == IF ToMonthEnd(arr) THEN MonthLength(y, m) ELSE Least(arr.day, MonthLength(y, m))
<1>1. y \in Int /\ m \in 1 .. 12 /\ 12 * y + m - 1 = i
  OBVIOUS
<1>2. Bound(arr, i) = <<y, m, d>>
  BY DEF Bound
<1> HIDE DEF y, m
<1>3. MonthLength(y, m) \in 28 .. 31
  BY <1>1, MonthLengths
<1>4. d \in 1 .. 31 /\ d <= MonthLength(y, m)
  BY <1>3 DEF Least, Stands
<1> HIDE DEF d
<1>5. IsDate(<<y, m, d>>) /\ Month(<<y, m, d>>) = 12 * y + m - 1
  BY <1>1, <1>3, <1>4 DEF IsDate, Month
<1> QED
  BY <1>1, <1>2, <1>5

LEMMA YearEndBound ==
  ASSUME NEW arr, Stands(arr), NEW y \in Int
  PROVE  /\ YearEndIn(arr, y) = Bound(arr, 12 * y + arr.month - 1)
         /\ IsDate(YearEndIn(arr, y)) /\ YearEndIn(arr, y)[1] = y /\ YearEndIn(arr, y)[2] = arr.month
         /\ YearEndIn(arr, y)[3] = MonthLength(y, arr.month) <=> ToMonthEnd(arr)
         /\ ~ToMonthEnd(arr) => YearEndIn(arr, y)[3] = arr.day
<1> DEFINE m == arr.month
           d == arr.day
           l == MonthLength(y, m)
           i == 12 * y + m - 1
<1>1. m \in 1 .. 12 /\ d \in 1 .. 31 /\ ~(m = 2 /\ d = 28)
  BY DEF Stands
<1> HIDE DEF m, d
<1>2. l \in 28 .. 31 /\ (m = 2 => l \in {28, 29}) /\ (m # 2 => l = MonthLength(0, m))
  BY <1>1, MonthLengths
<1>3. ToMonthEnd(arr) <=> IF m = 2 THEN d > 28 ELSE d >= MonthLength(0, m)
  BY DEF ToMonthEnd, m, d
<1>4. YearEndIn(arr, y) = <<y, m, Least(d, l)>>
  BY DEF YearEndIn, m, d
<1> HIDE DEF l
<1>5. /\ Least(d, l) = l <=> ToMonthEnd(arr)
      /\ ~ToMonthEnd(arr) => Least(d, l) = d
  BY <1>1, <1>2, <1>3 DEF Least
<1>6. i \div 12 = y /\ (i % 12) + 1 = m /\ i \in Int
  BY <1>1
<1>7. Bound(arr, i) = <<y, m, Least(d, l)>>
  <2> HIDE DEF i
  <2>1. Bound(arr, i) = <<y, m, IF ToMonthEnd(arr) THEN l ELSE Least(d, l)>>
    BY <1>6 DEF Bound, d, l
  <2> QED
    BY <1>5, <2>1
<1>8. IsDate(Bound(arr, i))
  BY <1>6, BoundTyped
<1> QED
  BY <1>4, <1>5, <1>7, <1>8 DEF m, d, l

\* Every boundary is where the arrangement alone puts it, from whatever year end it is measured.
LEMMA BoundaryBound ==
  ASSUME NEW arr, Stands(arr), NEW y \in Int, NEW n \in Int
  PROVE  AddMonths(YearEndIn(arr, y), n) = Bound(arr, 12 * y + arr.month - 1 + n)
<1> DEFINE m == arr.month
           total == m - 1 + n
           z == y + (total \div 12)
           k == (total % 12) + 1
           i == 12 * y + m - 1 + n
           a == YearEndIn(arr, y)
<1>1. m \in 1 .. 12
  BY DEF Stands
<1>2. a[1] = y /\ a[2] = m /\ (a[3] = MonthLength(a[1], a[2]) <=> ToMonthEnd(arr))
      /\ (~ToMonthEnd(arr) => a[3] = arr.day)
  BY YearEndBound
<1> HIDE DEF m, a
<1>3. i \div 12 = z /\ (i % 12) + 1 = k
  BY <1>1
<1>4. AddMonths(a, n) = <<z, k, IF a[3] = MonthLength(a[1], a[2]) THEN MonthLength(z, k)
                                ELSE Least(a[3], MonthLength(z, k))>>
  BY <1>2 DEF AddMonths
<1> HIDE DEF z, k, i
<1>5. AddMonths(a, n) = <<z, k, IF ToMonthEnd(arr) THEN MonthLength(z, k)
                                ELSE Least(arr.day, MonthLength(z, k))>>
  BY <1>2, <1>4
<1>6. Bound(arr, i) = AddMonths(a, n)
  BY <1>3, <1>5 DEF Bound
<1> QED
  BY <1>6 DEF i, a, m

LEMMA BoundsRise ==
  ASSUME NEW arr, Stands(arr), NEW i \in Int, NEW j \in Int
  PROVE  /\ Place(Bound(arr, i)) < Place(Bound(arr, j)) <=> i < j
         /\ Place(Bound(arr, i)) <= Place(Bound(arr, j)) <=> i <= j
<1> DEFINE b == Bound(arr, i)
           c == Bound(arr, j)
<1>1. IsDate(b) /\ Month(b) = i /\ IsDate(c) /\ Month(c) = j
  BY BoundTyped
<1>2. i = j => b = c
  OBVIOUS
<1> HIDE DEF b, c
<1>3. (i < j => Place(b) < Place(c)) /\ (j < i => Place(c) < Place(b))
  BY <1>1, Ordered
<1>4. Place(b) \in Int /\ Place(c) \in Int
  BY <1>1, DateParts
<1>5. (Place(b) < Place(c) <=> i < j) /\ (Place(b) <= Place(c) <=> i <= j)
  BY <1>2, <1>3, <1>4
<1> QED
  BY <1>5 DEF b, c

\* The months in which a period of the arrangement ends, and the period that ends in one.
EndsIn(arr, i) == OnGrid(Step(arr), arr.month - 1, i)

Period(arr, i) == [start |-> NextDay(Bound(arr, i - Step(arr))), end |-> Bound(arr, i)]

LEMMA Steps ==
  ASSUME NEW arr, Stands(arr)
  PROVE  Step(arr) \in {1, 3, 12} /\ arr.month - 1 \in Int
  BY DEF Stands, Step, FREQUENCIES, MONTHS_IN_PERIOD

LEMMA PeriodTyped ==
  ASSUME NEW arr, Stands(arr), NEW i \in Int
  PROVE  /\ IsDate(Period(arr, i).start) /\ IsDate(Period(arr, i).end)
         /\ Period(arr, i) # NotRecorded
<1>1. Step(arr) \in Int
  BY Steps
<1>2. i - Step(arr) \in Int
  BY <1>1
<1>3. IsDate(Bound(arr, i)) /\ IsDate(Bound(arr, i - Step(arr)))
  BY <1>2, BoundTyped
<1>4. IsDate(NextDay(Bound(arr, i - Step(arr))))
  BY <1>3, NextDayIsNext
<1>5. \A a : IsDate(a) => a \in Int \X Int \X Int
  BY DEF IsDate
<1>6. Period(arr, i) \in [start : Int \X Int \X Int, end : Int \X Int \X Int]
  BY <1>3, <1>4, <1>5 DEF Period
<1> QED
  BY <1>3, <1>4, <1>6, FilingAssumption DEF Period

\* A day is in the period that ends in month i: by the two boundaries alone.
LEMMA CoversBetween ==
  ASSUME NEW arr, Stands(arr), NEW i \in Int, NEW a, IsDate(a)
  PROVE  Covers(Period(arr, i), a) <=> /\ Place(Bound(arr, i - Step(arr))) < Place(a)
                                       /\ Place(a) <= Place(Bound(arr, i))
<1> DEFINE b == Bound(arr, i - Step(arr))
           c == Bound(arr, i)
<1>1. i - Step(arr) \in Int
  BY Steps
<1>2. IsDate(b) /\ IsDate(c)
  BY <1>1, BoundTyped
<1>3. Covers(Period(arr, i), a) <=> NotLater(NextDay(b), a) /\ NotLater(a, c)
  BY DEF Covers, Period
<1> HIDE DEF b, c
<1>4. IsDate(NextDay(b)) /\ Place(b) < Place(NextDay(b))
      /\ (Place(b) < Place(a) => Place(NextDay(b)) <= Place(a))
  BY <1>2, NextDayIsNext
<1>5. NotLater(NextDay(b), a) <=> Place(NextDay(b)) <= Place(a)
  BY <1>4, Ordered
<1>6. NotLater(a, c) <=> Place(a) <= Place(c)
  BY <1>2, Ordered
<1>7. Place(a) \in Int /\ Place(b) \in Int /\ Place(NextDay(b)) \in Int
  BY <1>2, <1>4, DateParts
<1>8. NotLater(NextDay(b), a) <=> Place(b) < Place(a)
  BY <1>4, <1>5, <1>7
<1> QED
  BY <1>3, <1>6, <1>8 DEF b, c

-----------------------------------------------------------------------------
(* The periods laid out for a span.                                        *)

\* The anchor is the boundary of a month that is not before the span's last.
LEMMA AnchorAfter ==
  ASSUME NEW arr, Stands(arr), NEW end, IsDate(end)
  PROVE  \E y \in Int : /\ Anchor(arr, end) = YearEndIn(arr, y)
                        /\ Month(end) <= 12 * y + arr.month - 1
                        /\ 12 * y + arr.month - 1 <= 12 * end[1] + 23
<1> DEFINE e == end[1]
           m == arr.month
           limit == AddMonths(end, 12)
           S == {y \in e - 1 .. e + 1 : NotLater(YearEndIn(arr, y), limit)}
           y0 == Max(S)
<1>1. e \in Int /\ Month(end) \in 12 * e .. 12 * e + 11 /\ m \in 1 .. 12
  <2>1. e \in Int /\ end[2] \in 1 .. 12 /\ Month(end) = 12 * e + end[2] - 1
    BY DateParts
  <2>2. m \in 1 .. 12
    BY DEF Stands
  <2> HIDE DEF e, m
  <2> QED
    BY <2>1, <2>2
<1>2. IsDate(limit) /\ Month(limit) = Month(end) + 12
  BY MonthsAdded
<1>3. \A y \in Int : IsDate(YearEndIn(arr, y)) /\ Month(YearEndIn(arr, y)) = 12 * y + m - 1
  <2> TAKE y \in Int
  <2>1. IsDate(YearEndIn(arr, y)) /\ YearEndIn(arr, y)[1] = y /\ YearEndIn(arr, y)[2] = m
    BY YearEndBound
  <2> QED
    BY <2>1, DateParts
<1>4. Anchor(arr, end) = YearEndIn(arr, y0)
  BY DEF Anchor
<1> HIDE DEF m, limit
<1>5. e \in S
  <2>1. IsDate(YearEndIn(arr, e)) /\ Month(YearEndIn(arr, e)) = 12 * e + m - 1
    BY <1>1, <1>3
  <2> HIDE DEF e
  <2>2. Month(YearEndIn(arr, e)) < Month(limit)
    BY <1>1, <1>2, <2>1
  <2>3. Place(YearEndIn(arr, e)) < Place(limit)
    BY <1>2, <2>1, <2>2, Ordered
  <2>4. NotLater(YearEndIn(arr, e), limit)
    BY <1>2, <2>1, <2>3, Ordered DEF NotLater
  <2> QED
    BY <1>1, <2>4
<1>6. y0 \in S /\ \A y \in S : y <= y0
  <2>1. IsFiniteSet(e - 1 .. e + 1)
    BY <1>1, FS_Interval
  <2>2. IsFiniteSet(S) /\ S # {} /\ S \subseteq Int
    BY <1>1, <1>5, <2>1, FS_Subset
  <2> HIDE DEF S
  <2> QED
    BY <2>2, LeastAndMost
<1>7. y0 \in Int /\ e <= y0 /\ y0 <= e + 1
  <2> HIDE DEF y0
  <2> QED
    BY <1>1, <1>5, <1>6
<1>8. CASE y0 = e + 1
  <2> HIDE DEF y0, e, S
  <2>1. Month(end) <= 12 * y0 + m - 1 /\ 12 * y0 + m - 1 <= 12 * e + 23
    BY <1>1, <1>8
  <2> QED
    BY <1>4, <1>7, <2>1 DEF e, m
<1>9. CASE y0 = e
  <2>1. e + 1 \notin S
    <3> HIDE DEF y0, e, S
    <3> QED
      BY <1>1, <1>6, <1>9
  <2>2. ~NotLater(YearEndIn(arr, e + 1), limit)
    BY <1>1, <2>1
  <2> HIDE DEF y0, e, S
  <2>3. IsDate(YearEndIn(arr, e + 1)) /\ Month(YearEndIn(arr, e + 1)) = 12 * (e + 1) + m - 1
    BY <1>1, <1>3
  <2>4. ~(Month(YearEndIn(arr, e + 1)) < Month(limit))
    BY <1>2, <2>2, <2>3, Ordered DEF NotLater
  <2>5. Month(end) <= 12 * y0 + m - 1 /\ 12 * y0 + m - 1 <= 12 * e + 23
    BY <1>1, <1>2, <1>9, <2>3, <2>4
  <2> QED
    BY <1>4, <1>7, <2>5 DEF e, m
<1> QED
  <2> HIDE DEF y0, e
  <2> QED
    BY <1>1, <1>7, <1>8, <1>9

\* Every period laid out ends where the arrangement alone says.
LEMMA LaidAreThePeriods ==
  ASSUME NEW arr, Stands(arr), NEW start, NEW end, IsDate(start), IsDate(end),
         NEW p \in PeriodsBetween(arr, start, end)
  PROVE  \E i \in Int : EndsIn(arr, i) /\ p = Period(arr, i)
<1> DEFINE step == Step(arr)
           anchor == Anchor(arr, end)
           c == arr.month - 1
<1>1. PICK y \in Int : anchor = YearEndIn(arr, y)
  BY AnchorAfter
<1>2. PICK k \in Int : p = [start |-> NextDay(Boundary(anchor, step, k + 1)),
                            end |-> Boundary(anchor, step, k)]
  <2> DEFINE reach == Min({k \in 0 .. 12 * (end[1] - start[1] + 5) :
                             Earlier(Boundary(anchor, step, k), AddMonths(start, -24))})
             laid == {[start |-> NextDay(Boundary(anchor, step, k + 1)),
                       end |-> Boundary(anchor, step, k)] : k \in 0 .. reach - 1}
  <2>1. p \in laid
    BY DEF PeriodsBetween, Step
  <2> HIDE DEF reach, anchor, step
  <2> QED
    BY <2>1
<1>3. step \in {1, 3, 12} /\ c \in Int
  BY Steps
<1> DEFINE i == 12 * y + c - step * k
<1>4. EndsIn(arr, i) /\ i \in Int
  <2>1. OnGrid(step, c, 12 * y + c)
    BY <1>3, Grid
  <2>2. OnGrid(step, c, i)
    <3> DEFINE j == 12 * y + c
    <3>1. i = j - step * k
      BY <1>3
    <3>2. OnGrid(step, c, j)
      BY <2>1
    <3> HIDE DEF i, j, step, c
    <3> QED
      BY <1>3, <3>1, <3>2, Grid
  <2> QED
    BY <2>2 DEF EndsIn, OnGrid
<1>5. Boundary(anchor, step, k) = Bound(arr, i)
  <2>1. -(step * k) \in Int /\ 12 * y + arr.month - 1 + -(step * k) = i
    BY <1>3
  <2> QED
    BY <1>1, <2>1, BoundaryBound DEF Boundary
<1>6. Boundary(anchor, step, k + 1) = Bound(arr, i - step)
  <2>1. -(step * (k + 1)) \in Int /\ 12 * y + arr.month - 1 + -(step * (k + 1)) = i - step
    BY <1>3
  <2> QED
    BY <1>1, <2>1, BoundaryBound DEF Boundary
<1> QED
  BY <1>2, <1>4, <1>5, <1>6 DEF Period

\* And every period of the arrangement that meets the span is laid out.
LEMMA PeriodsAreLaid ==
  ASSUME NEW arr, Stands(arr), NEW start, NEW end, IsDate(start), IsDate(end),
         Month(start) <= Month(end),
         NEW i, EndsIn(arr, i), i <= Month(end), Place(start) <= Place(Bound(arr, i))
  PROVE  Period(arr, i) \in PeriodsBetween(arr, start, end)
<1> DEFINE step == Step(arr)
           anchor == Anchor(arr, end)
           c == arr.month - 1
           floor == AddMonths(start, -24)
           spans == 12 * (end[1] - start[1] + 5)
           past(k) == Earlier(Boundary(anchor, step, k), floor)
           R == {k \in 0 .. spans : past(k)}
           reach == Min(R)
           laid == {[start |-> NextDay(Boundary(anchor, step, k + 1)),
                     end |-> Boundary(anchor, step, k)] : k \in 0 .. reach - 1}
<1>1. PICK y \in Int : /\ anchor = YearEndIn(arr, y)
                       /\ Month(end) <= 12 * y + arr.month - 1
                       /\ 12 * y + arr.month - 1 <= 12 * end[1] + 23
  BY AnchorAfter
<1> DEFINE last == 12 * y + c
<1>2. step \in {1, 3, 12} /\ c \in Int /\ last \in Int /\ i \in Int
  BY Steps DEF EndsIn, OnGrid
<1>3. \A k \in Int : Boundary(anchor, step, k) = Bound(arr, last - step * k)
  <2> TAKE k \in Int
  <2>1. -(step * k) \in Int /\ 12 * y + arr.month - 1 + -(step * k) = last - step * k
    BY <1>2
  <2> QED
    BY <1>1, <2>1, BoundaryBound DEF Boundary
<1>4. Month(end) <= last /\ last <= 12 * end[1] + 23
  BY <1>1, <1>2, Steps
<1>5. IsDate(floor) /\ Month(floor) = Month(start) - 24
  <2> DEFINE n == -24
  <2>1. n \in Int
    OBVIOUS
  <2>2. Month(start) \in Int
    BY DateParts
  <2> HIDE DEF n
  <2>3. IsDate(AddMonths(start, n)) /\ Month(AddMonths(start, n)) = Month(start) + n
    BY <2>1, MonthsAdded
  <2> QED
    BY <2>2, <2>3 DEF n
<1>6. /\ start[1] \in Int /\ end[1] \in Int /\ Month(start) \in Int /\ Month(end) \in Int
      /\ 12 * start[1] <= Month(start) /\ Month(start) <= 12 * start[1] + 11
      /\ 12 * end[1] <= Month(end) /\ Month(end) <= 12 * end[1] + 11
  <2>1. start[1] \in Int /\ start[2] \in 1 .. 12 /\ Month(start) = 12 * start[1] + start[2] - 1
    BY DateParts
  <2>2. end[1] \in Int /\ end[2] \in 1 .. 12 /\ Month(end) = 12 * end[1] + end[2] - 1
    BY DateParts
  <2> QED
    BY <2>1, <2>2
<1>7. spans \in Nat /\ last - step * spans < Month(start) - 24
  <2> DEFINE s == start[1]
             e == end[1]
  <2>1. s \in Int /\ e \in Int /\ Month(start) \in Int /\ Month(end) \in Int
        /\ 12 * s <= Month(start) /\ 12 * e <= Month(end) /\ Month(start) <= 12 * s + 11
        /\ Month(end) <= 12 * e + 11
        /\ spans = 12 * (e - s + 5) /\ last <= 12 * e + 23
    BY <1>4, <1>6
  <2> HIDE DEF s, e, spans, last
  <2>2. spans \in Nat /\ last - spans < Month(start) - 24
    BY <1>2, <2>1
  <2>3. spans <= step * spans /\ step * spans \in Int
    <3> HIDE DEF step
    <3> QED BY <1>2, <2>2
  <2> QED
    BY <1>2, <2>1, <2>2, <2>3
<1>8. \A k \in Int : last - step * k \in Int
  BY <1>2
<1>9. spans \in R
  <2> DEFINE b == Bound(arr, last - step * spans)
  <2>1. last - step * spans \in Int
    BY <1>7, <1>8
  <2>2. IsDate(b) /\ Month(b) = last - step * spans
    BY <2>1, BoundTyped
  <2>3. Boundary(anchor, step, spans) = b
    BY <1>3, <1>7
  <2> HIDE DEF b, floor
  <2>4. Month(b) < Month(floor)
    BY <1>5, <1>7, <2>2
  <2>5. Earlier(b, floor)
    BY <1>5, <2>2, <2>4, Ordered
  <2> QED
    BY <1>7, <2>3, <2>5 DEF floor
<1>10. reach \in R /\ \A k \in R : reach <= k
  <2>1. IsFiniteSet(0 .. spans)
    BY <1>7, FS_Interval
  <2>2. IsFiniteSet(R) /\ R # {} /\ R \subseteq Int
    BY <1>9, <2>1, FS_Subset
  <2> HIDE DEF R
  <2> QED
    BY <2>2, LeastAndMost
<1>11. reach \in Nat /\ Earlier(Bound(arr, last - step * reach), floor)
  BY <1>3, <1>7, <1>10
<1>12. PICK k \in Nat : i = last - step * k
  <2>1. OnGrid(step, c, last) /\ OnGrid(step, c, i)
    BY <1>2, Grid DEF EndsIn
  <2>2. i <= last
    BY <1>2, <1>4, <1>6
  <2> HIDE DEF last, step, c
  <2>3. \A g, h : OnGrid(step, c, g) /\ OnGrid(step, c, h) /\ h <= g
                  => \E k \in Nat : h = g - step * k
    <3> HIDE DEF OnGrid
    <3> QED BY <1>2, Grid
  <2> QED
    BY <2>1, <2>2, <2>3
<1>13. k \in 0 .. reach - 1
  <2> SUFFICES ASSUME reach <= k PROVE FALSE
    BY <1>11, <1>12
  <2> DEFINE j == last - step * reach
             b == Bound(arr, j)
             a == Bound(arr, i)
  <2>1. j \in Int
    BY <1>8, <1>11
  <2>2. i <= j
    <3> HIDE DEF reach, last, step
    <3>1. step * reach <= step * k /\ step * reach \in Int /\ step * k \in Int
      BY <1>2, <1>11, <1>12
    <3> QED
      BY <1>2, <1>12, <3>1
  <2>3. Place(a) <= Place(b) /\ IsDate(a) /\ IsDate(b)
    BY <1>2, <2>1, <2>2, BoundsRise, BoundTyped
  <2> HIDE DEF a, b, floor, j
  <2>4. Place(b) < Place(floor)
    BY <1>5, <1>11, <2>3, Ordered DEF b, j
  <2>5. Place(floor) < Place(start)
    <3>1. Month(floor) < Month(start)
      BY <1>5, <1>6
    <3> QED
      BY <1>5, <3>1, Ordered
  <2>6. Place(start) <= Place(a)
    BY DEF a
  <2>7. Place(a) \in Int /\ Place(b) \in Int /\ Place(floor) \in Int /\ Place(start) \in Int
    BY <1>5, <2>3, DateParts
  <2> QED
    BY <2>3, <2>4, <2>5, <2>6, <2>7
<1>14. Period(arr, i) \in laid
  <2>1. last - step * (k + 1) = i - step
    <3> HIDE DEF last, step
    <3> QED BY <1>2, <1>12
  <2>2. Boundary(anchor, step, k) = Bound(arr, i) /\ Boundary(anchor, step, k + 1) = Bound(arr, i - step)
    BY <1>3, <1>12, <2>1
  <2> HIDE DEF reach, anchor
  <2> QED
    BY <1>13, <2>2 DEF Period
<1>15. NotLater(start, Period(arr, i).end)
  <2>1. IsDate(Bound(arr, i))
    BY <1>2, BoundTyped
  <2> QED
    BY <2>1, Ordered DEF Period
<1>16. NotLater(Period(arr, i).start, end)
  <2> DEFINE b == Bound(arr, i - step)
  <2>1. IsDate(b) /\ Month(b) = i - step
    BY <1>2, BoundTyped
  <2> HIDE DEF b
  <2>2. Month(b) < Month(end)
    BY <1>2, <1>6, <2>1
  <2>3. Place(b) < Place(end)
    BY <2>1, <2>2, Ordered
  <2>4. IsDate(NextDay(b)) /\ Place(NextDay(b)) <= Place(end)
    BY <2>1, <2>3, NextDayIsNext
  <2> QED
    BY <2>4, Ordered DEF Period, b
<1>17. PeriodsBetween(arr, start, end) = {p \in laid : NotLater(start, p.end) /\ NotLater(p.start, end)}
  BY DEF PeriodsBetween, Step
<1> HIDE DEF laid
<1> QED
  BY <1>14, <1>15, <1>16, <1>17

-----------------------------------------------------------------------------
(* Every day is filed once.                                                *)

\* Between two boundaries lies every day.
LEMMA EveryDayHasAPeriod ==
  ASSUME NEW arr, Stands(arr), NEW a, IsDate(a)
  PROVE  \E i \in Int : /\ EndsIn(arr, i) /\ EndsIn(arr, i - Step(arr))
                        /\ Month(a) <= i /\ i <= Month(a) + Step(arr)
                        /\ Place(Bound(arr, i - Step(arr))) < Place(a)
                        /\ Place(a) <= Place(Bound(arr, i))
<1> DEFINE step == Step(arr)
           m == Month(a)
<1>1. step \in {1, 3, 12} /\ m \in Int /\ Place(a) \in Int /\ arr.month - 1 \in Int
  BY Steps, DateParts
<1>2. PICK j \in Int : EndsIn(arr, j) /\ m <= j /\ j < m + step
  BY <1>1, Grid DEF EndsIn
<1>3. EndsIn(arr, j - step) /\ EndsIn(arr, j + step)
  BY <1>1, <1>2, Grid DEF EndsIn
<1>4. \A i \in Int : IsDate(Bound(arr, i)) /\ Month(Bound(arr, i)) = i /\ Place(Bound(arr, i)) \in Int
  BY BoundTyped, DateParts
<1>5. \A i \in Int : (i < m => Place(Bound(arr, i)) < Place(a)) /\ (m < i => Place(a) < Place(Bound(arr, i)))
  <2> TAKE i \in Int
  <2>1. IsDate(Bound(arr, i)) /\ Month(Bound(arr, i)) = i
    BY BoundTyped
  <2> QED
    BY <2>1, Ordered
<1> HIDE DEF step, m
<1>6. CASE Place(a) <= Place(Bound(arr, j))
  <2>1. j - step \in Int /\ j - step < m
    BY <1>1, <1>2
  <2> QED
    BY <1>1, <1>2, <1>3, <1>5, <1>6, <2>1 DEF step, m
<1>7. CASE Place(Bound(arr, j)) < Place(a)
  <2>1. j = m
    BY <1>1, <1>2, <1>4, <1>5, <1>7
  <2> DEFINE i == j + step
  <2>2. i \in Int /\ i - step = j /\ m < i /\ i <= m + step
    BY <1>1, <1>2, <2>1
  <2> HIDE DEF i
  <2>3. Place(a) < Place(Bound(arr, i)) /\ Place(Bound(arr, i)) \in Int
    BY <1>4, <1>5, <2>2
  <2>4. EndsIn(arr, i) /\ EndsIn(arr, i - step) /\ m <= i /\ Place(a) <= Place(Bound(arr, i))
    BY <1>1, <1>2, <1>3, <2>2, <2>3 DEF i
  <2> QED
    BY <1>7, <2>2, <2>4 DEF step, m
<1> QED
  BY <1>1, <1>2, <1>4, <1>6, <1>7

\* periods_for finds the period that covers the day, and no other.
LEMMA PeriodForIs ==
  ASSUME NEW arr, Stands(arr), NEW a, IsDate(a), NEW i \in Int, EndsIn(arr, i),
         Place(Bound(arr, i - Step(arr))) < Place(a), Place(a) <= Place(Bound(arr, i))
  PROVE  PeriodFor(arr, a) = Period(arr, i)
<1> DEFINE step == Step(arr)
           start == AddMonths(a, -13)
           end == AddMonths(a, 13)
           p == Period(arr, i)
           found == {q \in PeriodsBetween(arr, start, end) : Covers(q, a)}
<1>1. step \in {1, 3, 12} /\ arr.month - 1 \in Int /\ i - step \in Int
  BY Steps
<1>2. /\ IsDate(start) /\ Month(start) = Month(a) - 13
      /\ IsDate(end) /\ Month(end) = Month(a) + 13
      /\ Month(a) \in Int /\ Place(a) \in Int
  <2> DEFINE n == -13
  <2>1. n \in Int /\ 13 \in Int /\ Month(a) \in Int /\ Place(a) \in Int
    BY DateParts
  <2> HIDE DEF n
  <2>2. IsDate(AddMonths(a, n)) /\ Month(AddMonths(a, n)) = Month(a) + n
    BY <2>1, MonthsAdded
  <2>3. IsDate(AddMonths(a, 13)) /\ Month(AddMonths(a, 13)) = Month(a) + 13
    BY <2>1, MonthsAdded
  <2> QED
    BY <2>1, <2>2, <2>3 DEF n
<1>3. found = {q \in PeriodsBetween(arr, start, end) : Covers(q, a)}
  OBVIOUS
<1>4. PeriodFor(arr, a) = IF found = {} THEN NotRecorded
                          ELSE CHOOSE q \in found : \A r \in found : NotLater(q.end, r.end)
  BY DEF PeriodFor
<1> HIDE DEF found, start, end
<1>5. Covers(p, a)
  BY CoversBetween
<1>6. p \in found
  <2> DEFINE before == Bound(arr, i - step)
  <2>1. IsDate(before) /\ Month(before) = i - step
    BY <1>1, BoundTyped
  <2> HIDE DEF before
  <2>2. ~(Month(a) < Month(before))
    <3>1. Month(a) < Month(before) => Place(a) < Place(before)
      BY <2>1, Ordered
    <3>2. Place(before) \in Int
      BY <2>1, DateParts
    <3> QED
      BY <1>2, <3>1, <3>2 DEF before
  <2>3. i <= Month(end) /\ Month(start) <= Month(end)
    BY <1>1, <1>2, <2>1, <2>2
  <2>4. Place(start) <= Place(Bound(arr, i))
    <3>1. Place(start) < Place(a)
      BY <1>2, Ordered
    <3>2. Place(start) \in Int /\ Place(Bound(arr, i)) \in Int
      BY <1>2, BoundTyped, DateParts
    <3> QED
      BY <1>2, <3>1, <3>2
  <2>5. p \in PeriodsBetween(arr, start, end)
    BY <1>2, <2>3, <2>4, PeriodsAreLaid
  <2> QED
    BY <1>3, <1>5, <2>5
<1>7. \A q \in found : q = p
  <2> TAKE q \in found
  <2>1. PICK j \in Int : EndsIn(arr, j) /\ q = Period(arr, j)
    BY <1>2, <1>3, LaidAreThePeriods
  <2>2. Place(Bound(arr, j - step)) < Place(a) /\ Place(a) <= Place(Bound(arr, j))
    BY <1>3, <2>1, CoversBetween
  <2>3. j - step \in Int
    BY <1>1
  <2>4. /\ Place(Bound(arr, i)) \in Int /\ Place(Bound(arr, j)) \in Int
        /\ Place(Bound(arr, i - step)) \in Int /\ Place(Bound(arr, j - step)) \in Int
    BY <1>1, <2>3, BoundTyped, DateParts
  <2>5. Place(Bound(arr, j - step)) < Place(Bound(arr, i))
        /\ Place(Bound(arr, i - step)) < Place(Bound(arr, j))
    BY <1>2, <2>2, <2>4
  <2>6. j - step < i /\ i - step < j
    BY <1>1, <2>3, <2>5, BoundsRise
  <2>7. \A g, h : EndsIn(arr, g) /\ EndsIn(arr, h) /\ g < h => g + step <= h
    <3> HIDE DEF OnGrid
    <3> QED BY <1>1, Grid DEF EndsIn
  <2> HIDE DEF step
  <2>8. step \in Int /\ j < i + step /\ i < j + step
    BY <1>1, <2>6
  <2>9. ~(i < j) /\ ~(j < i)
    BY <2>1, <2>7, <2>8
  <2>10. i = j
    BY <2>9
  <2> QED
    BY <2>1, <2>10
<1> HIDE DEF p
<1>8. found = {p}
  BY <1>6, <1>7
<1>9. \A q \in {p} : NotLater(q.end, p.end)
  BY DEF NotLater
<1> QED
  BY <1>4, <1>8, <1>9 DEF p

\* prepare_current offers the period right before the one that covers the day.
LEMMA LastClosedIs ==
  ASSUME NEW arr, Stands(arr), NEW a, IsDate(a), NEW i \in Int, EndsIn(arr, i),
         EndsIn(arr, i - Step(arr)), Month(a) <= i, i <= Month(a) + Step(arr),
         Place(Bound(arr, i - Step(arr))) < Place(a), Place(a) <= Place(Bound(arr, i))
  PROVE  LastClosed(arr, a) = Period(arr, i - Step(arr))
<1> DEFINE step == Step(arr)
           start == AddMonths(a, -26)
           before == i - step
           p == Period(arr, before)
           closed == {q \in PeriodsBetween(arr, start, a) : Earlier(q.end, a)}
<1>1. step \in {1, 3, 12} /\ arr.month - 1 \in Int /\ before \in Int
  BY Steps
<1>2. /\ IsDate(start) /\ Month(start) = Month(a) - 26
      /\ Month(a) \in Int /\ Place(a) \in Int
  <2> DEFINE n == -26
  <2>1. n \in Int /\ Month(a) \in Int /\ Place(a) \in Int
    BY DateParts
  <2> HIDE DEF n
  <2>2. IsDate(AddMonths(a, n)) /\ Month(AddMonths(a, n)) = Month(a) + n
    BY <2>1, MonthsAdded
  <2> QED
    BY <2>1, <2>2 DEF n
<1>3. closed = {q \in PeriodsBetween(arr, start, a) : Earlier(q.end, a)}
  OBVIOUS
<1>4. LastClosed(arr, a) = IF closed = {} THEN NotRecorded
                           ELSE CHOOSE q \in closed : \A r \in closed : NotLater(r.end, q.end)
  BY DEF LastClosed
<1>5. before <= Month(a) /\ Month(a) - 12 <= before
  <2> HIDE DEF step
  <2> QED BY <1>1, <1>2 DEF step
<1> HIDE DEF closed, start
<1>6. \A j \in Int : IsDate(Bound(arr, j)) /\ Month(Bound(arr, j)) = j /\ Place(Bound(arr, j)) \in Int
  BY BoundTyped, DateParts
<1>7. Period(arr, before).end = Bound(arr, before)
  BY DEF Period
<1>8. Earlier(p.end, a)
  BY <1>1, <1>6, <1>7, Ordered
<1> HIDE DEF before, p
<1>9. p \in closed
  <2> DEFINE b == Bound(arr, before)
  <2>1. IsDate(b) /\ Month(b) = before /\ Place(b) \in Int
    BY <1>1, <1>6
  <2>2. Place(start) <= Place(b)
    <3> HIDE DEF b
    <3>1. Month(start) < Month(b)
      BY <1>1, <1>2, <1>5, <2>1
    <3>2. Place(start) < Place(b)
      BY <1>2, <2>1, <3>1, Ordered
    <3>3. Place(start) \in Int
      BY <1>2, DateParts
    <3> QED
      BY <2>1, <3>2, <3>3
  <2>3. Month(start) <= Month(a)
    BY <1>2
  <2>4. EndsIn(arr, before)
    BY DEF before
  <2>5. p \in PeriodsBetween(arr, start, a)
    BY <1>2, <1>5, <2>2, <2>3, <2>4, PeriodsAreLaid DEF p
  <2> QED
    BY <1>3, <1>8, <2>5
<1>10. \A q \in closed : \E j \in Int : q = Period(arr, j) /\ q.end = Bound(arr, j) /\ j <= before
  <2> TAKE q \in closed
  <2>1. PICK j \in Int : EndsIn(arr, j) /\ q = Period(arr, j)
    BY <1>2, <1>3, LaidAreThePeriods
  <2>2. q.end = Bound(arr, j)
    BY <2>1 DEF Period
  <2>3. IsDate(Bound(arr, j)) /\ Place(Bound(arr, j)) \in Int /\ Place(Bound(arr, i)) \in Int
    BY <1>6
  <2>4. Place(Bound(arr, j)) < Place(a)
    BY <1>3, <2>2, <2>3, Ordered
  <2>5. Place(Bound(arr, j)) < Place(Bound(arr, i))
    BY <1>2, <2>3, <2>4
  <2>6. j < i
    BY <2>5, BoundsRise
  <2>7. \A g, h : EndsIn(arr, g) /\ EndsIn(arr, h) /\ g < h => g + step <= h
    <3> HIDE DEF OnGrid
    <3> QED BY <1>1, Grid DEF EndsIn
  <2>8. j + step <= i
    BY <2>1, <2>6, <2>7
  <2> HIDE DEF step
  <2>9. j <= before
    BY <1>1, <2>8 DEF before
  <2> QED
    BY <2>1, <2>2, <2>9
<1>11. p.end = Bound(arr, before) /\ p = Period(arr, before)
  BY <1>7 DEF p
<1>12. \A q \in closed : NotLater(q.end, p.end)
  <2> TAKE q \in closed
  <2>1. PICK j \in Int : q.end = Bound(arr, j) /\ j <= before
    BY <1>10
  <2>2. Place(Bound(arr, j)) <= Place(Bound(arr, before))
    BY <1>1, <2>1, BoundsRise
  <2> QED
    BY <1>1, <1>6, <1>11, <2>1, <2>2, Ordered
<1>13. \A q \in closed : (\A r \in closed : NotLater(r.end, q.end)) => q = p
  <2> SUFFICES ASSUME NEW q \in closed, \A r \in closed : NotLater(r.end, q.end)
               PROVE  q = p
    OBVIOUS
  <2>1. PICK j \in Int : q = Period(arr, j) /\ q.end = Bound(arr, j) /\ j <= before
    BY <1>10
  <2>2. NotLater(Bound(arr, before), Bound(arr, j))
    BY <1>9, <1>11, <2>1
  <2>3. Place(Bound(arr, before)) <= Place(Bound(arr, j))
    BY <1>1, <1>6, <2>2, Ordered
  <2>4. before <= j
    BY <1>1, <2>3, BoundsRise
  <2>5. j = before
    BY <1>1, <2>1, <2>4
  <2> QED
    BY <1>11, <2>1, <2>5
<1>14. LastClosed(arr, a) = p
  BY <1>4, <1>9, <1>12, <1>13
<1> QED
  BY <1>14 DEF p, before

\* The three questions the pages ask, each answered from periods laid out for a span of its
\* own, agree: which period a date is in, which return is on offer on it, and which period a
\* due date is looked up by.
THEOREM ThreePeriodsAgree ==
  ASSUME NEW arr, Stands(arr), NEW a, IsDate(a)
  PROVE  LET now == PeriodFor(arr, a)
             closed == LastClosed(arr, a)
         IN /\ now # NotRecorded /\ closed # NotRecorded
            /\ now.start = NextDay(closed.end)
            /\ PeriodFor(arr, closed.end) = closed
<1> DEFINE step == Step(arr)
<1>1. PICK i \in Int : /\ EndsIn(arr, i) /\ EndsIn(arr, i - step)
                       /\ Month(a) <= i /\ i <= Month(a) + step
                       /\ Place(Bound(arr, i - step)) < Place(a)
                       /\ Place(a) <= Place(Bound(arr, i))
  BY EveryDayHasAPeriod
<1> DEFINE before == i - step
           b == Bound(arr, before)
<1>2. PeriodFor(arr, a) = Period(arr, i) /\ LastClosed(arr, a) = Period(arr, before)
  BY <1>1, PeriodForIs, LastClosedIs
<1>3. step \in {1, 3, 12} /\ before \in Int /\ before - step \in Int
  BY Steps
<1>4. Period(arr, i).start = NextDay(b) /\ Period(arr, before).end = b
  BY DEF Period
<1>5. Period(arr, i) # NotRecorded /\ Period(arr, before) # NotRecorded
  BY <1>3, PeriodTyped
<1>6. PeriodFor(arr, b) = Period(arr, before)
  <2>1. IsDate(b) /\ Place(b) \in Int
    BY <1>3, BoundTyped, DateParts
  <2>2. before - step < before /\ EndsIn(arr, before)
    BY <1>1, <1>3
  <2>3. Place(Bound(arr, before - step)) < Place(b)
    BY <1>3, <2>2, BoundsRise
  <2> HIDE DEF before
  <2>4. PeriodFor(arr, b) = Period(arr, before)
    BY <1>3, <2>1, <2>2, <2>3, PeriodForIs
  <2> QED
    BY <2>4
<1> HIDE DEF before, b
<1> QED
  BY <1>2, <1>4, <1>5, <1>6

\* What the filing part of the books never loses: today is a date between the bounds, and an
\* arrangement on record passed record_arrangement.
FilingInv ==
  /\ FilingTypeOK
  /\ IsDate(today) /\ NotLater(today, LastDay)
  /\ arrangement # NotRecorded =>
       /\ arrangement \in Arrangements /\ arrangement.frequency \in FREQUENCIES
       /\ arrangement.month \in 1 .. 12 /\ arrangement.day \in 1 .. 31

LEMMA FilingStarts == FilingInit => FilingInv
<1> SUFFICES ASSUME FilingInit PROVE FilingInv
  OBVIOUS
<1>1. FirstDay[1] \in Int /\ LastDay[1] \in Int /\ FirstDay[1] <= LastDay[1]
  BY FilingAssumption, DateParts DEF NotLater, Earlier
<1>2. FirstDay = <<FirstDay[1], FirstDay[2], FirstDay[3]>>
      /\ FirstDay[2] \in 1 .. 12 /\ FirstDay[3] \in 1 .. 31
  BY FilingAssumption, DateParts
<1>3. FirstDay \in (FirstDay[1] .. LastDay[1]) \X (1 .. 12) \X (1 .. 31)
  BY <1>1, <1>2
<1> QED
  BY <1>3, FilingAssumption DEF FilingInit, FilingInv, FilingTypeOK

LEMMA FilingStep == FilingInv /\ [FilingNext]_filingVars => FilingInv'
<1> SUFFICES ASSUME FilingInv, [FilingNext]_filingVars PROVE FilingInv'
  OBVIOUS
<1>1. CASE Tomorrow
  <2> DEFINE b == NextDay(today)
  <2>1. IsDate(today) /\ IsDate(LastDay) /\ Earlier(today, LastDay) /\ today' = b
        /\ arrangement' = arrangement
    BY <1>1, FilingAssumption DEF Tomorrow, FilingInv
  <2>2. IsDate(b) /\ Place(today) < Place(b) /\ Place(b) <= Place(LastDay)
    BY <2>1, NextDayIsNext, Ordered
  <2>3. NotLater(b, LastDay)
    BY <2>1, <2>2, Ordered
  <2>4. today[1] <= b[1]
    <3>1. today[1] \in Int
      BY <2>1, DateParts
    <3> QED
      BY <3>1 DEF NextDay
  <2>5. b[1] <= LastDay[1]
    <3>1. b[1] \in Int /\ LastDay[1] \in Int
      BY <2>1, <2>2, DateParts
    <3> QED
      BY <2>3, <3>1 DEF NotLater, Earlier
  <2>6. FirstDay[1] \in Int /\ FirstDay[1] <= today[1] /\ today[1] \in Int /\ LastDay[1] \in Int
    BY <2>1, FilingAssumption, DateParts DEF FilingInv, FilingTypeOK
  <2>7. b = <<b[1], b[2], b[3]>> /\ b[1] \in Int /\ b[2] \in 1 .. 12 /\ b[3] \in 1 .. 31
    BY <2>2, DateParts
  <2> HIDE DEF b
  <2>8. b \in (FirstDay[1] .. LastDay[1]) \X (1 .. 12) \X (1 .. 31)
    <3>1. b[1] \in FirstDay[1] .. LastDay[1]
      BY <2>4, <2>5, <2>6, <2>7
    <3> QED
      BY <2>7, <3>1
  <2> QED
    BY <2>1, <2>2, <2>3, <2>8 DEF FilingInv, FilingTypeOK
<1>2. ASSUME NEW arr \in Arrangements, RecordArrangement(arr) PROVE FilingInv'
  BY <1>2 DEF RecordArrangement, FilingInv, FilingTypeOK
<1>3. CASE UNCHANGED filingVars
  BY <1>3 DEF filingVars, FilingInv, FilingTypeOK
<1> QED
  BY <1>1, <1>2, <1>3 DEF FilingNext

\* Whatever day it is asked on and whatever arrangements are recorded in the meantime, today
\* and the arrangement stay what record_arrangement and the calendar let them be.
THEOREM FilingTypeCorrect == FilingSpec => []FilingTypeOK
<1>1. FilingInv => FilingTypeOK
  BY DEF FilingInv
<1> QED
  BY <1>1, FilingStarts, FilingStep, PTL DEF FilingSpec

\* No arrangement's year ends on the 28th of February.
NoFebruaryYearEnd == \A arr \in Arrangements : ~(arr.month = 2 /\ arr.day = 28)

LEMMA FilingAgrees == NoFebruaryYearEnd /\ FilingInv => EveryDayIsFiledOnce
<1> SUFFICES ASSUME NoFebruaryYearEnd, FilingInv, arrangement # NotRecorded
             PROVE  EveryDayIsFiledOnce
  BY DEF EveryDayIsFiledOnce
<1>1. Stands(arrangement) /\ IsDate(today)
  BY DEF Stands, FilingInv, NoFebruaryYearEnd
<1> QED
  BY <1>1, ThreePeriodsAgree DEF EveryDayIsFiledOnce

\* However the periods are laid out anew on each day, the one that covers the day, the one on
\* offer and the one a due date is read from agree, for every arrangement whose year does not
\* end on 28 February.
THEOREM EveryDayIsFiledOnceHolds == NoFebruaryYearEnd => (FilingSpec => []EveryDayIsFiledOnce)
<1> SUFFICES ASSUME NoFebruaryYearEnd PROVE FilingSpec => []EveryDayIsFiledOnce
  OBVIOUS
<1>1. FilingInv => EveryDayIsFiledOnce
  BY FilingAgrees
<1> QED
  BY <1>1, FilingStarts, FilingStep, PTL DEF FilingSpec

-----------------------------------------------------------------------------
(* The books as a whole.                                                   *)

LEMMA BooksStart == BooksInit => AnalysisInit /\ Init /\ FilingInit /\ ReturnsInit
  BY DEF BooksInit, Unread

LEMMA BooksSteps ==
  [BooksNext]_booksVars => /\ [AnalysisNext]_analysisVars /\ [Next]_vars
                           /\ [FilingNext]_filingVars /\ [ReturnsNext]_returnsVars
<1> SUFFICES ASSUME [BooksNext]_booksVars
             PROVE  /\ [AnalysisNext]_analysisVars /\ [Next]_vars
                    /\ [FilingNext]_filingVars /\ [ReturnsNext]_returnsVars
  OBVIOUS
<1>1. CASE AnalysisMoves
  BY <1>1 DEF AnalysisMoves
<1>2. CASE MatchingMoves
  BY <1>2 DEF MatchingMoves
<1>3. CASE FilingMoves
  BY <1>3 DEF FilingMoves
<1>4. CASE ReturnsMove
  BY <1>4 DEF ReturnsMove
<1>5. CASE UNCHANGED booksVars
  BY <1>5 DEF booksVars
<1> QED
  BY <1>1, <1>2, <1>3, <1>4, <1>5 DEF BooksNext

\* Whatever parts of the books move, each one behaves as if it were alone.
THEOREM BooksKeepTheirParts == BooksSpec => AnalysisSpec /\ Spec /\ FilingSpec /\ ReturnsSpec
  BY BooksStart, BooksSteps, PTL DEF BooksSpec, AnalysisSpec, Spec, FilingSpec, ReturnsSpec

\* Every row of every part of the books is of its type.
THEOREM BooksTypeCorrect == BooksSpec => []BooksTypeOK
<1>1. AnalysisTypeOK /\ TypeOK /\ FilingTypeOK /\ ReturnsTypeOK => BooksTypeOK
  BY DEF BooksTypeOK
<1> QED
  BY <1>1, BooksKeepTheirParts, AnalysisTypeCorrect, MatchTypeCorrect, FilingTypeCorrect,
     ReturnsTypeCorrect, PTL

\* What is proved of each part alone holds of the books as the runs explore them.
THEOREM BooksAreSafe ==
  BooksSpec => /\ []PostedAsQuickBooksDid /\ []ReconciledWithQuickBooks
               /\ []OneToOne /\ []NeverATossUp /\ []RefusedForCause
               /\ []DecidedRatesStay /\ DecisionsOutliveScans
               /\ (NoFebruaryYearEnd => []EveryDayIsFiledOnce)
<1>1. BooksSpec => []PostedAsQuickBooksDid /\ []ReconciledWithQuickBooks /\ DecisionsOutliveScans
  BY BooksKeepTheirParts, PostedAsQuickBooksDidHolds, ReconciledWithQuickBooksHolds,
     ScansKeepDecisions
<1>2. BooksSpec => []OneToOne /\ []NeverATossUp /\ []RefusedForCause
  BY BooksKeepTheirParts, OneToOneHolds, NeverATossUpHolds, RefusedForCauseHolds
<1>3. BooksSpec => []DecidedRatesStay
  BY BooksKeepTheirParts, DecidedRatesAreKept
<1>4. NoFebruaryYearEnd => (BooksSpec => []EveryDayIsFiledOnce)
  BY BooksKeepTheirParts, EveryDayIsFiledOnceHolds
<1> QED
  BY <1>1, <1>2, <1>3, <1>4
=============================================================================
