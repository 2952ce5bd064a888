--------------------------- MODULE StatementMatching --------------------------
(***************************************************************************)
(* The matcher of bank statement lines and ledger movements: the walk of   *)
(* match() over all admissible pairs, strongest first, which accepts a     *)
(* pair, refuses a toss-up, or passes over what is settled.                *)
(*                                                                         *)
(* The matcher is pure: given the same books again it starts afresh, and   *)
(* the lines of a statement may then come in another order.                *)
(***************************************************************************)
EXTENDS Integers

CONSTANTS
  Lines,      \* the lines of one statement
  Entries,    \* the keys of the ledger's movements, in the order of keys
  Amounts,    \* amounts, signed, as one kind of money arriving or leaving
  Days,       \* posting dates
  Window,     \* DEFAULT_DATE_WINDOW_DAYS
  MaxWords,   \* bound: words of an entry's party in a line's descriptor
  Ordinals,   \* positions in a statement
  None        \* no earlier answer

ASSUME MatchingAssumption ==
  /\ Days \subseteq Int
  /\ Entries \subseteq Int
  /\ Ordinals \subseteq Nat
  /\ Window \in Nat
  /\ MaxWords \in Nat

VARIABLES
  statement,  \* amount and date of every line
  ordinal,    \* the lines' positions in the statement
  ledger,     \* amount and date of every movement
  words,      \* name_evidence: how many words a line and an entry share
  left,       \* the pairs still to walk
  matched,    \* the accepted pairs
  ambiguous,  \* the refused lines, with the entries each could be
  earlier     \* the pairs accepted when these books were matched before

books == <<statement, ledger, words>>
vars == <<books, ordinal, left, matched, ambiguous, earlier>>

-----------------------------------------------------------------------------
Pair == [line : Lines, entry : Entries]

Distance(a, b) == IF a < b THEN b - a ELSE a - b

Gap(p) == Distance(statement[p.line].day, ledger[p.entry].day)

\* The same amount to the cent, and dates within the window.
Pairs == {p \in Pair : /\ statement[p.line].amount = ledger[p.entry].amount
                       /\ Gap(p) <= Window}

\* _score: name evidence first, then closeness in time.
Better(p, q) == \/ words[p] > words[q]
                \/ words[p] = words[q] /\ Gap(p) < Gap(q)

Level(p, q) == words[p] = words[q] /\ Gap(p) = Gap(q)

\* cash_movements hands over the movements by date, then by key.
EntryBefore(d, e) ==
  \/ ledger[d].day < ledger[e].day
  \/ ledger[d].day = ledger[e].day /\ d < e

\* The order of the walk: by score, then the order of the statement, then of the ledger.
Before(p, q) ==
  \/ Better(p, q)
  \/ /\ Level(p, q)
     /\ \/ ordinal[p.line] < ordinal[q.line]
        \/ p.line = q.line /\ EntryBefore(p.entry, q.entry)

TakenLines == {m.line : m \in matched}
TakenEntries == {m.entry : m \in matched}
Refused == {a.line : a \in ambiguous}

Orders == {f \in [Lines -> Ordinals] : \A k, l \in Lines : f[k] = f[l] => k = l}

Init ==
  /\ statement \in [Lines -> [amount : Amounts, day : Days]]
  /\ ledger \in [Entries -> [amount : Amounts, day : Days]]
  /\ words \in [Pair -> 0..MaxWords]
  /\ ordinal \in Orders
  /\ left = Pairs
  /\ matched = {}
  /\ ambiguous = {}
  /\ earlier = None

-----------------------------------------------------------------------------
\* The pair the walk comes to.
AtHead(p) == p \in left /\ \A q \in left \ {p} : Before(p, q)

\* Fault: a line may take an entry that is taken.
SettledForLine(p) == p.line \in TakenLines \/ p.line \in Refused

Settled(p) == p.line \in TakenLines \/ p.entry \in TakenEntries \/ p.line \in Refused

\* Fault: any other entry is a rival, however weak.
OtherEntries(p) ==
  {q \in Pairs : /\ q.line = p.line /\ q.entry # p.entry
                 /\ q.entry \notin TakenEntries}

RivalsForLine(p) ==
  {q \in Pairs : /\ q.line = p.line /\ q.entry # p.entry
                 /\ Level(q, p)
                 /\ q.entry \notin TakenEntries}

\* Fault: only a line of the same date is a rival.
SameDayRivals(p) ==
  {q \in Pairs : /\ q.entry = p.entry /\ q.line # p.line
                 /\ statement[q.line].day = statement[p.line].day
                 /\ Level(q, p)
                 /\ q.line \notin TakenLines \cup Refused}

RivalsForEntry(p) ==
  {q \in Pairs : /\ q.entry = p.entry /\ q.line # p.line
                 /\ Level(q, p)
                 /\ q.line \notin TakenLines \cup Refused}

PassOver(p) ==
  /\ AtHead(p)
  /\ Settled(p)
  /\ left' = left \ {p}
  /\ UNCHANGED <<books, ordinal, matched, ambiguous, earlier>>

Refuse(p) ==
  /\ AtHead(p)
  /\ ~Settled(p)
  /\ RivalsForLine(p) \cup RivalsForEntry(p) # {}
  /\ ambiguous' = ambiguous
       \cup {[line |-> p.line,
              candidates |-> {p.entry} \cup {q.entry : q \in RivalsForLine(p)}]}
       \cup {[line |-> q.line, candidates |-> {p.entry}] : q \in RivalsForEntry(p)}
  /\ left' = left \ {p}
  /\ UNCHANGED <<books, ordinal, matched, earlier>>

Accept(p) ==
  /\ AtHead(p)
  /\ ~Settled(p)
  /\ RivalsForLine(p) \cup RivalsForEntry(p) = {}
  /\ matched' = matched \cup {p}
  /\ left' = left \ {p}
  /\ UNCHANGED <<books, ordinal, ambiguous, earlier>>

\* Fault: what cannot be a match is walked too.
MatchAgainUnfiltered ==
  /\ left = {}
  /\ earlier = None
  /\ earlier' = matched
  /\ ordinal' \in Orders
  /\ left' = Pair
  /\ matched' = {}
  /\ ambiguous' = {}
  /\ UNCHANGED books

\* The same books are matched again, the statement in any order.
MatchAgain ==
  /\ left = {}
  /\ earlier = None
  /\ earlier' = matched
  /\ ordinal' \in Orders
  /\ left' = Pairs
  /\ matched' = {}
  /\ ambiguous' = {}
  /\ UNCHANGED books

Next ==
  \/ \E p \in left : PassOver(p) \/ Refuse(p) \/ Accept(p)
  \/ MatchAgain

Spec == Init /\ [][Next]_vars

-----------------------------------------------------------------------------
TypeOK ==
  /\ statement \in [Lines -> [amount : Amounts, day : Days]]
  /\ ledger \in [Entries -> [amount : Amounts, day : Days]]
  /\ words \in [Pair -> 0..MaxWords]
  /\ ordinal \in Orders
  /\ left \subseteq Pairs
  /\ matched \subseteq Pairs
  /\ ambiguous \subseteq [line : Lines, candidates : SUBSET Entries]
  /\ earlier \in {None} \cup SUBSET Pair

\* A movement explains one line and a line is one movement, and what is put to a person
\* has not been decided as well.
OneToOne ==
  /\ \A m, n \in matched : m.line = n.line \/ m.entry = n.entry => m = n
  /\ TakenLines \cap Refused = {}

\* "Two equally good candidates go to a person, never to a guess" (matching.py:24): for
\* every pair the walk has come to and has not accepted, either its line went to a
\* person, or its line or its entry is in a pair that is strictly better.  At the end of
\* the walk, a line that is neither matched nor refused (and is reported missing from the
\* books) has lost every entry it could be to a better line.
NeverATossUp ==
  \A p \in Pairs \ (left \cup matched) :
    \/ p.line \in Refused
    \/ \E m \in matched : (m.line = p.line \/ m.entry = p.entry) /\ Better(m, p)

\* "A refusal is for a genuine toss-up, not for any competition at all"
\* (test_matching.py:90): a refused line has two entries that fit it equally well, or
\* shares one with another refused line that fits it equally well.
RefusedForCause ==
  \A a \in ambiguous : \E p, q \in Pairs :
    /\ p # q /\ words[p] = words[q] /\ Gap(p) = Gap(q)
    /\ p.line = a.line /\ p.entry \in a.candidates
    /\ \/ q.line = p.line /\ q.entry \in a.candidates
       \/ q.entry = p.entry /\ q.line \in Refused
=============================================================================
