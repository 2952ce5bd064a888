---------------------------- MODULE CrmRecords ----------------------------
(***************************************************************************)
(* The relationship records of crm.py: which company a name stands for.    *)
(* A company keeps one normalized name and any number of former or variant *)
(* spellings (aliases); paid intakes, lead imports, conflict answers and   *)
(* renames all resolve names and all change what names resolve to.         *)
(*                                                                         *)
(* Names are normalized already.  A company and its cash-leak-review       *)
(* opportunity are one record: both routes that insert a company insert    *)
(* the opportunity in the same transaction.  Contacts, activities,         *)
(* descriptive columns and the relationship stage are left out.            *)
(***************************************************************************)
EXTENDS Naturals, SequencesExt

CONSTANTS
  Names,          \* normalized company names
  Alike,          \* pairs of names of which one is a prefix of the other
  Lists,          \* lead lists (the two uploaded files), told apart by hash
  Rows,           \* Rows[l]: name -> [stage, suppressed, storable]
  Importers,      \* requests that apply an import
  Stages,         \* pipeline stages an operator picks from
  MaxCompanies    \* bound: companies ever created

ASSUME CrmAssumption ==
  /\ MaxCompanies \in Nat /\ "won" \in Stages
  /\ Alike \subseteq Names \X Names
  /\ Rows \in [Lists -> UNION {[S -> [stage : Stages, suppressed : BOOLEAN,
                                      storable : BOOLEAN]] : S \in SUBSET Names}]
  /\ \A l \in Lists : IsFiniteSet(DOMAIN Rows[l])

VARIABLES
  companies,   \* organizations with their opportunity, in order of creation
  aliases,     \* organization_aliases: name -> company, 0 when there is none
  imports,     \* import_batches and import_rows of each list
  applying     \* the preview an applying request has read

crmVars == <<companies, aliases, imports, applying>>

Actions == {"create", "merge", "skip", "conflict"}
Unseen == [status |-> "unseen", rows |-> <<>>]
NotApplying == [list |-> {}, rows |-> <<>>]

-----------------------------------------------------------------------------
Companies == DOMAIN companies

Named(n) == {c \in Companies : companies[c].name = n}

\* find_organization: the company of that very name, else the alias.
Find(n) == IF Named(n) # {} THEN CHOOSE c \in Named(n) : TRUE ELSE aliases[n]

\* similar_organization: some company's name extends this one or the reverse.
Similar(n) == \E c \in Companies : <<n, companies[c].name>> \in Alike

\* record_alias: an alias that is taken keeps its company (INSERT OR IGNORE),
\* and a company's current name is never its alias.
WithAlias(books, known, c, n) ==
  IF books[c].name = n \/ known[n] # 0 THEN known
  ELSE [known EXCEPT ![n] = c]

-----------------------------------------------------------------------------
\* ensure_intake_engagement: a payer lands on the company the name resolves
\* to, whose opportunity is won; an unknown name becomes a company.
Intake(n) ==
  /\ IF Find(n) # 0
       THEN companies' = [companies EXCEPT ![Find(n)].stage = "won",
                                           ![Find(n)].sold = TRUE]
       ELSE /\ Len(companies) < MaxCompanies
            /\ companies' = Append(companies, [name |-> n, stage |-> "won",
                                     sold |-> TRUE, suppressed |-> FALSE])
  /\ UNCHANGED <<aliases, imports, applying>>

\* preview_lead_import: the action of a row.
ActionFor(n, row) ==
  CASE ~row.storable -> "skip"
    [] row.storable /\ Find(n) # 0 -> "merge"
    [] row.storable /\ Find(n) = 0 /\ Similar(n) -> "conflict"
    [] OTHER -> "create"

\* The same files uploaded again show the preview they had.
Preview(l) ==
  /\ imports[l].status = "unseen"
  /\ imports' = [imports EXCEPT ![l] =
       [status |-> "preview",
        rows |-> [n \in DOMAIN Rows[l] |-> ActionFor(n, Rows[l][n])]]]
  /\ UNCHANGED <<companies, aliases, applying>>

\* resolve_import_conflict: "same as c" writes the alias, "new" does not.
Awaiting(l, n) ==
  /\ imports[l].status = "preview"
  /\ n \in DOMAIN imports[l].rows
  /\ imports[l].rows[n] = "conflict"

ResolveSame(l, n, c) ==
  /\ Awaiting(l, n)
  /\ aliases' = WithAlias(companies, aliases, c, n)
  /\ imports' = [imports EXCEPT ![l].rows[n] = "merge"]
  /\ UNCHANGED <<companies, applying>>

ResolveNew(l, n) ==
  /\ Awaiting(l, n)
  /\ imports' = [imports EXCEPT ![l].rows[n] = "create"]
  /\ UNCHANGED <<companies, aliases, applying>>

\* apply_lead_import reads status and rows before it takes the write lock ...
ReadPreview(i, l) ==
  /\ applying[i] = NotApplying
  /\ imports[l].status = "preview"
  /\ applying' = [applying EXCEPT ![i] = [list |-> {l}, rows |-> imports[l].rows]]
  /\ UNCHANGED <<companies, aliases, imports>>

\* ... and then writes every row not held back, resolving each name anew.
\* Rows that land on one company are written one after the other, so its
\* stage is that of one of them; the flags only ever rise.
Landing(rows, list, c) ==
  {n \in DOMAIN rows : rows[n] \notin {"skip", "conflict"} /\ Find(n) = c}

Sold(r) == r.stage = "won"

\* Fault: the import writes the flag it read instead of raising it.
MergedOverwriting(company, written, stage) ==
  [company EXCEPT !.stage = stage,
                  !.sold = @ \/ \E r \in written : Sold(r),
                  !.suppressed = \E r \in written : r.suppressed]

Merged(company, written, stage) ==
  [company EXCEPT !.stage = stage,
                  !.sold = @ \/ \E r \in written : Sold(r),
                  !.suppressed = @ \/ \E r \in written : r.suppressed]

Inserted(n, row) ==
  [name |-> n, stage |-> row.stage, sold |-> Sold(row),
   suppressed |-> row.suppressed]

Apply(i) ==
  LET l     == CHOOSE l \in Lists : l \in applying[i].list
      rows  == applying[i].rows
      At(c) == {Rows[l][n] : n \in Landing(rows, l, c)}
      fresh == SetToSeq(Landing(rows, l, 0))
  IN /\ applying[i] # NotApplying
     /\ Len(companies) + Len(fresh) <= MaxCompanies
     /\ \E stage \in [Companies -> Stages] :
          /\ \A c \in Companies :
               stage[c] \in IF At(c) = {} THEN {companies[c].stage}
                            ELSE {r.stage : r \in At(c)}
          /\ companies' =
               [c \in Companies |-> Merged(companies[c], At(c), stage[c])]
               \o [k \in DOMAIN fresh |-> Inserted(fresh[k], Rows[l][fresh[k]])]
     /\ imports' = [imports EXCEPT ![l].status = "applied"]
     /\ applying' = [applying EXCEPT ![i] = NotApplying]
     /\ UNCHANGED aliases

\* Fault: the former name is forgotten.
RenameOnly(c, n) ==
  /\ Named(n) \subseteq {c}
  /\ companies' = [companies EXCEPT ![c].name = n]
  /\ aliases' = [aliases EXCEPT ![n] = 0]
  /\ UNCHANGED <<imports, applying>>

\* rename_organization: refused when the name is another company's; an alias
\* of the new name goes, the former name becomes one.
Rename(c, n) ==
  /\ Named(n) \subseteq {c}
  /\ companies' = [companies EXCEPT ![c].name = n]
  /\ aliases' = WithAlias(companies', [aliases EXCEPT ![n] = 0],
                          c, companies[c].name)
  /\ UNCHANGED <<imports, applying>>

\* The operator's pipeline form: the only place that lifts a suppression.
UpdateOpportunity(c, stage, suppressed) ==
  /\ companies' = [companies EXCEPT ![c].stage = stage,
                                    ![c].sold = @ \/ stage = "won",
                                    ![c].suppressed = suppressed]
  /\ UNCHANGED <<aliases, imports, applying>>

-----------------------------------------------------------------------------
CrmInit ==
  /\ companies = <<>>
  /\ aliases = [n \in Names |-> 0]
  /\ imports = [l \in Lists |-> Unseen]
  /\ applying = [i \in Importers |-> NotApplying]

CrmNext ==
  \/ \E n \in Names : Intake(n)
  \/ \E l \in Lists : Preview(l)
  \/ \E l \in Lists, n \in Names : ResolveNew(l, n)
  \/ \E l \in Lists, n \in Names, c \in Companies : ResolveSame(l, n, c)
  \/ \E i \in Importers, l \in Lists : ReadPreview(i, l)
  \/ \E i \in Importers : Apply(i)
  \/ \E c \in Companies, n \in Names : Rename(c, n)
  \/ \E c \in Companies, s \in Stages, d \in BOOLEAN : UpdateOpportunity(c, s, d)

CrmSpec == CrmInit /\ [][CrmNext]_crmVars

-----------------------------------------------------------------------------
\* The tables hold what their columns allow, normalized_name is UNIQUE and no
\* alias names a company that does not exist.
CrmTypeOK ==
  /\ companies \in Seq([name : Names, stage : Stages, sold : BOOLEAN,
                        suppressed : BOOLEAN])
  /\ Len(companies) <= MaxCompanies
  /\ \A c, d \in Companies : companies[c].name = companies[d].name => c = d
  /\ aliases \in [Names -> {0} \union Companies]
  /\ \A l \in Lists :
       \/ imports[l] = Unseen
       \/ /\ imports[l].status \in {"preview", "applied"}
          /\ imports[l].rows \in [DOMAIN Rows[l] -> Actions]
  /\ \A i \in Importers :
       \/ applying[i] = NotApplying
       \/ \E l \in Lists : /\ applying[i].list = {l}
                           /\ applying[i].rows \in [DOMAIN Rows[l] -> Actions]

\* A name the CRM once resolved is never unknown again, whatever renames,
\* answers, imports and payments follow: otherwise the next payment or import
\* under that name quietly creates a second company (crm.py, find_organization
\* and rename_organization).
KnownNamesStayKnown ==
  [][\A n \in Names : Find(n) # 0 => Find(n)' # 0]_crmVars

\* A company on the do-not-contact list leaves it only by the operator's own
\* form: no payment, rename or import of an older list takes it off, and a
\* review once sold stays sold.
OnlyTheOperatorLifts ==
  [][\A c \in Companies :
       /\ companies[c].sold => companies'[c].sold
       /\ companies[c].suppressed /\ ~companies'[c].suppressed
            => \E s \in Stages : UpdateOpportunity(c, s, FALSE)]_crmVars
=============================================================================
