------------------------------ MODULE Catalogue ------------------------------
(***************************************************************************)
(* Dated price lists and the prices enrolments are quoted (catalog_service *)
(* and pricing_service of apps/catalog/services).                          *)
(*                                                                         *)
(* Every guard of a price list judges the instance the view has loaded,    *)
(* before any transaction; an edit and an approval then save every column  *)
(* of that instance.  A request is a Read... step of a session followed by *)
(* its Write... step.                                                      *)
(*                                                                         *)
(* A programme here is a programme at one level, and there is one category *)
(* of participants.  Of an item the course fee is kept, a deposit is       *)
(* copied along with it.  Codes and names are left out, online courses,    *)
(* which have no registration fee, and the clock: the date of an enrolment *)
(* is typed by hand, and what is said of today is said of every day.       *)
(***************************************************************************)
EXTENDS Integers, FiniteSets, SequencesExt

CONSTANTS
    Levels,
    Semesters,
    Fees,
    LastPriceDay,     \* bound on dates
    Workers,          \* web requests in flight at one time
    MaxLists, MaxQuotes,  \* bounds on rows
    MaxOverwritten    \* bound: so many lists overwritten, and requests no longer overlap

ASSUME CatalogueAssumption ==
    /\ Levels # {}
    /\ Fees \subseteq Nat \ {0}
    /\ {LastPriceDay, MaxLists, MaxQuotes, MaxOverwritten} \subseteq Nat

VARIABLES
    lists,            \* catalog_pricelist with its items and rules
    quotes,           \* the price an enrolment was opened at, as its charge lines copy it
    task,             \* what each session has read and is about to write
    overwritten       \* history: the lists changed by a request that had read them before
                      \* their approval was committed

catalogueVars == <<lists, quotes, task, overwritten>>

PriceDays == 1 .. LastPriceDay

(***************************************************************************)
(* rules: the scopes that have a registration fee, every programme         *)
(* ("general") or one of them.                                             *)
(***************************************************************************)
Scopes == {"general"} \cup Levels

PriceListStatuses == {"DRAFT", "APPROVED", "ARCHIVED"}

PriceList == [semester : Semesters, from : PriceDays, status : PriceListStatuses,
              fee : [Levels -> Fees \cup {0}], rules : SUBSET Scopes]

(***************************************************************************)
(* rule: the scope whose registration fee applied.                         *)
(***************************************************************************)
Quote == [program : Levels, list : Nat \ {0}, on : PriceDays, fee : Fees, rule : Scopes]

ListOps == {"edit", "price", "unprice", "rule", "unrule", "approve"}

(***************************************************************************)
(* A request in flight: the row it is about and, in row, the columns it    *)
(* will save, those it was loaded with among them.                         *)
(***************************************************************************)
NoTask == [op |-> "idle", list |-> 0, program |-> CHOOSE p \in Levels : TRUE, row |-> <<>>,
           overtaken |-> FALSE]

CatalogueTypeOK ==
    /\ lists \in Seq(PriceList)
    /\ quotes \in Seq(Quote)
    /\ \A q \in DOMAIN quotes : quotes[q].list \in DOMAIN lists
    /\ \A s \in Workers :
          /\ task[s].op \in ListOps \cup {"enrol", "idle"}
          /\ task[s].list \in DOMAIN lists \cup {0}
          /\ task[s].program \in Levels
          /\ task[s].overtaken \in BOOLEAN
    /\ overwritten \subseteq DOMAIN lists
    \* approved_semester_key is unique
    /\ \A l, m \in DOMAIN lists :
          {lists[l].status, lists[m].status} = {"APPROVED"} /\ lists[l].semester = lists[m].semester
          => l = m

-----------------------------------------------------------------------------
(* Prices. *)

Approved(on) == {l \in DOMAIN lists : lists[l].status = "APPROVED" /\ lists[l].from <= on}

(***************************************************************************)
(* effective_price_list: the latest approved list that has begun, the      *)
(* later row of two that begin on one day.                                 *)
(***************************************************************************)
InForce(on) ==
    {l \in Approved(on) :
        \A m \in Approved(on) \ {l} :
            \/ lists[l].from > lists[m].from
            \/ lists[l].from = lists[m].from /\ l > m}

PricedOrNot(p, l) == TRUE

Priced(p, l) == lists[l].fee[p] # 0

(***************************************************************************)
(* resolve_registration_fee: the programme's own rule before the general   *)
(* one.                                                                    *)
(***************************************************************************)
RegistrationFee(p, l) ==
    IF p \in lists[l].rules THEN {p} ELSE {"general"} \cap lists[l].rules

(***************************************************************************)
(* resolve_price: empty when the programme or its registration is not      *)
(* priced on the list in force.                                            *)
(***************************************************************************)
ResolvePrice(p, on) ==
    {[program |-> p, list |-> l, on |-> on, fee |-> lists[l].fee[p], rule |-> r] :
        l \in {m \in InForce(on) : Priced(p, m)},
        r \in UNION {RegistrationFee(p, m) : m \in InForce(on)}}

-----------------------------------------------------------------------------
(* Requests. *)

Available(s) == task[s].op = "idle"

Doing(s, op) == task[s].op = op

(***************************************************************************)
(* The commit of a freezes the list that b was judged free to edit.        *)
(***************************************************************************)
Overtakes(a, b) == a.list = b.list /\ a.op = "approve" /\ b.op \in ListOps

(***************************************************************************)
(* Items and rules of one list that change at the same time are kept apart *)
(* by unique constraints and deleted by their keys: they do not overlap.   *)
(***************************************************************************)
MayCross(a, b) ==
    /\ Cardinality(overwritten) < MaxOverwritten
    /\ {a.op, b.op} \cap {"edit", "approve"} # {}

Start(s, new) ==
    /\ Available(s)
    /\ \A t \in Workers : Available(t) \/ MayCross(new, task[t])
    /\ task' = [task EXCEPT ![s] = new]
    /\ UNCHANGED <<lists, quotes, overwritten>>

Complete(s) ==
    /\ task' = [t \in Workers |->
                  IF t = s THEN NoTask
                  ELSE [task[t] EXCEPT !.overtaken = @ \/ Overtakes(task[s], task[t])]]
    /\ overwritten' = overwritten \cup {l \in {task[s].list} : task[s].overtaken}

(***************************************************************************)
(* A refusal, a failed constraint, a lost connection.                      *)
(***************************************************************************)
Abandon(s) ==
    /\ ~Available(s)
    /\ task' = [task EXCEPT ![s] = NoTask]
    /\ UNCHANGED <<lists, quotes, overwritten>>

OnList(op, l, row) == [NoTask EXCEPT !.op = op, !.list = l, !.row = row]

Calm == UNCHANGED <<task, overwritten>>

-----------------------------------------------------------------------------
(* Price lists. *)

CreatePriceList(semester, from) ==
    /\ Len(lists) < MaxLists
    /\ lists' = Append(lists, [semester |-> semester, from |-> from, status |-> "DRAFT",
                               fee |-> [p \in Levels |-> 0], rules |-> {}])
    /\ Calm
    /\ UNCHANGED quotes

PriceListsView == \E semester \in Semesters, from \in PriceDays : CreatePriceList(semester, from)

EditableUntilArchived(l) == lists[l].status # "ARCHIVED"

(***************************************************************************)
(* _refuse_if_frozen, of the instance that was loaded.                     *)
(***************************************************************************)
Editable(l) == lists[l].status = "DRAFT"

Columns(l) == [semester |-> lists[l].semester, from |-> lists[l].from, status |-> lists[l].status]

ReadEdit(s, l, semester, from) ==
    /\ Editable(l)
    /\ Start(s, OnList("edit", l, [Columns(l) EXCEPT !.semester = semester, !.from = from]))

Saved(l, row) == [lists[l] EXCEPT !.semester = row.semester, !.from = row.from, !.status = row.status]

(***************************************************************************)
(* price_list.save() writes the status it was loaded with.                 *)
(***************************************************************************)
WriteEdit(s) ==
    /\ Doing(s, "edit")
    /\ lists' = [lists EXCEPT ![task[s].list] = Saved(task[s].list, task[s].row)]
    /\ Complete(s)
    /\ UNCHANGED quotes

ReadAddItem(s, l, p, fee) ==
    /\ Editable(l) /\ ~Priced(p, l)
    /\ Start(s, [OnList("price", l, fee) EXCEPT !.program = p])

ReadRemoveItemOfAny(s, l, p) ==
    /\ Priced(p, l)
    /\ Start(s, [OnList("unprice", l, 0) EXCEPT !.program = p])

ReadRemoveItem(s, l, p) ==
    /\ Editable(l) /\ Priced(p, l)
    /\ Start(s, [OnList("unprice", l, 0) EXCEPT !.program = p])

WriteItem(s) ==
    /\ task[s].op \in {"price", "unprice"}
    /\ lists' = [lists EXCEPT ![task[s].list].fee[task[s].program] = task[s].row]
    /\ Complete(s)
    /\ UNCHANGED quotes

ReadFeeRule(s, l, scope) ==
    /\ Editable(l)
    /\ Start(s, OnList(IF scope \in lists[l].rules THEN "unrule" ELSE "rule", l, scope))

WriteFeeRule(s) ==
    /\ task[s].op \in {"rule", "unrule"}
    /\ lists' = [lists EXCEPT ![task[s].list].rules =
                     IF Doing(s, "rule") THEN @ \cup {task[s].row} ELSE @ \ {task[s].row}]
    /\ Complete(s)
    /\ UNCHANGED quotes

ReadApproval(s, l) == Editable(l) /\ Start(s, OnList("approve", l, Columns(l)))

(***************************************************************************)
(* The approved lists of the semester the instance names are archived,     *)
(* from the rows as they are (select_for_update), and the instance is      *)
(* saved as approved, whenever it is to begin.                             *)
(***************************************************************************)
RecordExternalApproval(s) ==
    LET row == task[s].row
        superseded == {l \in DOMAIN lists \ {task[s].list} :
                          lists[l].status = "APPROVED" /\ lists[l].semester = row.semester}
    IN  /\ Doing(s, "approve")
        /\ lists' = [l \in DOMAIN lists |->
                        IF l = task[s].list THEN Saved(l, [row EXCEPT !.status = "APPROVED"])
                        ELSE IF l \in superseded THEN [lists[l] EXCEPT !.status = "ARCHIVED"]
                        ELSE lists[l]]
        /\ Complete(s)
        /\ UNCHANGED quotes

EditView(s) ==
    \/ \E l \in DOMAIN lists, semester \in Semesters, from \in PriceDays : ReadEdit(s, l, semester, from)
    \/ WriteEdit(s)

PriceItemView(s) ==
    \/ \E l \in DOMAIN lists, p \in Levels :
          ReadRemoveItem(s, l, p) \/ \E fee \in Fees : ReadAddItem(s, l, p, fee)
    \/ WriteItem(s)

FeeRuleView(s) ==
    \/ \E l \in DOMAIN lists, scope \in Scopes : ReadFeeRule(s, l, scope)
    \/ WriteFeeRule(s)

ApprovalView(s) ==
    \/ \E l \in DOMAIN lists : ReadApproval(s, l)
    \/ RecordExternalApproval(s)

HandlePriceList(s) == EditView(s) \/ PriceItemView(s) \/ FeeRuleView(s) \/ ApprovalView(s)

-----------------------------------------------------------------------------
(* Enrolments. *)

(***************************************************************************)
(* enroll_with_charges: the price on the day typed in, then the enrolment. *)
(***************************************************************************)
ReadEnrol(s, p, on) ==
    \E quote \in ResolvePrice(p, on) :
        Start(s, [OnList("enrol", quote.list, quote) EXCEPT !.program = quote.program])

WriteEnrol(s) ==
    /\ Doing(s, "enrol")
    /\ Len(quotes) < MaxQuotes
    /\ quotes' = Append(quotes, task[s].row)
    /\ Complete(s)
    /\ UNCHANGED lists

EnrollWithCharges(s) ==
    \/ \E p \in Levels, on \in PriceDays : ReadEnrol(s, p, on)
    \/ WriteEnrol(s)

-----------------------------------------------------------------------------
CatalogueInit ==
    /\ lists = <<>>
    /\ quotes = <<>>
    /\ task = [s \in Workers |-> NoTask]
    /\ overwritten = {}

CatalogueNext ==
    \/ PriceListsView
    \/ \E s \in Workers : HandlePriceList(s) \/ EnrollWithCharges(s) \/ Abandon(s)

CatalogueSpec == CatalogueInit /\ [][CatalogueNext]_catalogueVars

-----------------------------------------------------------------------------
(* Properties. *)

(***************************************************************************)
(* What an enrolment was quoted can still be read off the list it names:   *)
(* the list was approved, had begun, and has the same fee and registration *)
(* rule.  Nothing that comes later changes that, except that this list is  *)
(* itself written by a request that had read it before its approval was    *)
(* committed (BR-012, D-14).                                               *)
(***************************************************************************)
QuotesStand ==
    \A q \in DOMAIN quotes :
        LET quote == quotes[q]
        IN  \/ quote.list \in overwritten
            \/ /\ lists[quote.list].status # "DRAFT"
               /\ lists[quote.list].from <= quote.on
               /\ lists[quote.list].fee[quote.program] = quote.fee
               /\ {quote.rule} = RegistrationFee(quote.program, quote.list)

(***************************************************************************)
(* The step takes l off because a draft of the same semester is approved   *)
(* that begins after the day d.                                            *)
(***************************************************************************)
SupersededLater(l, d) ==
    \E m \in DOMAIN lists :
        /\ lists[m].status = "DRAFT" /\ lists'[m].status = "APPROVED"
        /\ lists'[m].semester = lists[l].semester /\ lists'[m].from > d

(***************************************************************************)
(* The step is the commit of a request that had read a list before the     *)
(* list's approval was committed, and writes l with it: it is about l, or  *)
(* approves again in the semester of l.                                    *)
(***************************************************************************)
Overwrites(l) ==
    \E s \in Workers :
        /\ task[s].overtaken /\ task'[s] = NoTask
        /\ \/ task[s].list = l
           \/ Doing(s, "approve") /\ task[s].row.semester = lists[l].semester

(***************************************************************************)
(* A day with a list in force keeps one.  It is lost only when the         *)
(* semester of that list is given one that begins after the day, and to    *)
(* requests that read a list before its approval and write after it.       *)
(***************************************************************************)
PricesStayInForce ==
    [][\A d \in PriceDays : \A l \in InForce(d) :
          InForce(d)' # {} \/ SupersededLater(l, d) \/ Overwrites(l)]_lists
=============================================================================
