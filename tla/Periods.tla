------------------------------- MODULE Periods -------------------------------
(***************************************************************************)
(* The financial periods (fiscal_period_service, period_service), the      *)
(* expenses (expense_service), and the movements whose date a closed       *)
(* period refuses (D-23).                                                  *)
(*                                                                         *)
(* Nine services ask require_open whether a date is in a closed period,    *)
(* before their transaction: a Read... step of a session followed by its   *)
(* Write... step.  Three stand for all of them: an expense, a payment,     *)
(* which are refused by their own date, and a void, refused by the date of *)
(* its receipt.  Where the money of a receipt goes is Account's, who may   *)
(* void it Till's.  Amounts, categories, cohorts, and the audit row of a   *)
(* refusal are left out.                                                   *)
(***************************************************************************)
EXTENDS Integers, FiniteSets, SequencesExt

CONSTANTS
    Staff,
    LastDay,          \* bound on dates
    Workers,          \* web requests in flight at one time
    MaxPeriods, MaxExpenses, MaxReceipts,   \* bounds on rows,
    MaxRows           \* and on all of them together

Nobody == "nobody"

ASSUME PeriodsAssumption ==
    /\ {MaxPeriods, MaxExpenses, MaxReceipts, MaxRows} \subseteq Nat
    /\ LastDay \in Nat \ {0}
    /\ Nobody \notin Staff

VARIABLES
    periods,          \* core_financialperiod
    expenses,         \* expenses_expense
    receipts,         \* cashbox_receipt
    task              \* what each session has read and is about to write

books == <<expenses, receipts>>

periodsVars == <<periods, books, task>>

Days == 1 .. LastDay

People == Staff \cup {Nobody}

(***************************************************************************)
(* closed: status CLOSED.  closedBy is NULL, Nobody, until then.           *)
(***************************************************************************)
FinancialPeriod == [from : Days, to : Days, closed : BOOLEAN, closedBy : People]

Expense == [day : Days, status : {"RECORDED", "APPROVED", "REJECTED"},
            createdBy : Staff, approvedBy : People]

Receipt == [day : Days, status : {"ISSUED", "VOIDED"}]

Ops == {"create", "close", "record", "decide", "pay", "void", "idle"}

(***************************************************************************)
(* A request in flight: day (and to) of the form or of the row loaded, the *)
(* row, what it decides.  overtaken: another has saved what it was judged  *)
(* by; no guard reads it.                                                  *)
(***************************************************************************)
Task == [op : Ops, day : Days, to : Days, row : Nat, user : People,
         status : {"RECORDED", "APPROVED", "REJECTED"}, overtaken : BOOLEAN]

NoTask == [op |-> "idle", day |-> 1, to |-> 1, row |-> 0, user |-> Nobody, status |-> "RECORDED",
           overtaken |-> FALSE]

PeriodsTypeOK ==
    /\ periods \in Seq(FinancialPeriod)
    /\ \A p \in DOMAIN periods : periods[p].closed <=> periods[p].closedBy # Nobody
    /\ \A p, q \in DOMAIN periods : periods[p].from = periods[q].from => p = q
    /\ expenses \in Seq(Expense)
    /\ \A e \in DOMAIN expenses :
          /\ expenses[e].approvedBy # expenses[e].createdBy
          /\ expenses[e].status # "RECORDED" <=> expenses[e].approvedBy # Nobody
    /\ receipts \in Seq(Receipt)
    /\ task \in [Workers -> Task]

-----------------------------------------------------------------------------
(* What the guards ask. *)

Covers(p, day) == periods[p].from <= day /\ day <= periods[p].to

(***************************************************************************)
(* period_for: of the periods that cover the date the latest to start      *)
(* answers; with none every movement is allowed.                           *)
(***************************************************************************)
Closed(day) ==
    \E p \in DOMAIN periods :
        /\ Covers(p, day) /\ periods[p].closed
        /\ \A q \in DOMAIN periods : Covers(q, day) => periods[q].from <= periods[p].from

(***************************************************************************)
(* require_open                                                            *)
(***************************************************************************)
RequireOpen(day) == ~Closed(day)

(***************************************************************************)
(* _refuse_overlap                                                         *)
(***************************************************************************)
Overlaps(from, to) == \E p \in DOMAIN periods : periods[p].from <= to /\ periods[p].to >= from

-----------------------------------------------------------------------------
(* Requests. *)

Free(s) == task[s] = NoTask

Serving(s, op) == task[s].op = op

Movements == {"record", "pay", "void"}

(***************************************************************************)
(* The commit of a changes what b was judged by: the periods of a day, or  *)
(* the row itself.                                                         *)
(***************************************************************************)
Outdates(a, b) ==
    \/ a.op = "create" /\ b.op = "create" /\ a.day <= b.to /\ b.day <= a.to
    \/ a.op = "close" /\ b.op \in Movements /\ a.day <= b.day /\ b.day <= a.to
    \/ a.op = b.op /\ a.op \in {"close", "decide", "void"} /\ a.row = b.row

MayOverlap(a, b) == Outdates(a, b) \/ Outdates(b, a)

Start(s, new) ==
    /\ Free(s)
    /\ \A t \in Workers : Free(t) \/ MayOverlap(new, task[t])
    /\ task' = [task EXCEPT ![s] = new]
    /\ UNCHANGED <<periods, books>>

Complete(s) ==
    task' = [t \in Workers |->
                IF t = s THEN NoTask
                ELSE [task[t] EXCEPT !.overtaken = @ \/ Outdates(task[s], task[t])]]

(***************************************************************************)
(* A failed constraint, a lost connection.                                 *)
(***************************************************************************)
Abandon(s) ==
    /\ ~Free(s)
    /\ task' = [task EXCEPT ![s] = NoTask]
    /\ UNCHANGED <<periods, books>>

Room(n, bound) ==
    n < bound /\ Len(periods) + Len(expenses) + Len(receipts) < MaxRows

-----------------------------------------------------------------------------
(* Periods. *)

ReadCreatePeriod(s, from, to) ==
    /\ Room(Len(periods), MaxPeriods)
    /\ from <= to
    /\ ~Overlaps(from, to)
    /\ Start(s, [NoTask EXCEPT !.op = "create", !.day = from, !.to = to])

StartsAnyhow(day) == TRUE

(***************************************************************************)
(* core_period_unique_start                                                *)
(***************************************************************************)
StartsAlone(day) == \A p \in DOMAIN periods : periods[p].from # day

WriteCreatePeriod(s) ==
    /\ Serving(s, "create")
    /\ StartsAlone(task[s].day)
    /\ Len(periods) < MaxPeriods
    /\ periods' = Append(periods, [from |-> task[s].day, to |-> task[s].to, closed |-> FALSE,
                                   closedBy |-> Nobody])
    /\ UNCHANGED books
    /\ Complete(s)

ReadClosePeriodAgain(s, p, u) ==
    Start(s, [NoTask EXCEPT !.op = "close", !.row = p, !.day = periods[p].from,
                            !.to = periods[p].to, !.user = u])

(***************************************************************************)
(* The status of the row as it was loaded.                                 *)
(***************************************************************************)
ReadClosePeriod(s, p, u) ==
    /\ ~periods[p].closed
    /\ Start(s, [NoTask EXCEPT !.op = "close", !.row = p, !.day = periods[p].from,
                               !.to = periods[p].to, !.user = u])

WriteClosePeriod(s) ==
    /\ Serving(s, "close")
    /\ periods' = [periods EXCEPT ![task[s].row].closed = TRUE,
                                  ![task[s].row].closedBy = task[s].user]
    /\ UNCHANGED books
    /\ Complete(s)

FinancialPeriodsView(s) ==
    \/ \E from, to \in Days : ReadCreatePeriod(s, from, to)
    \/ \E p \in DOMAIN periods, u \in Staff : ReadClosePeriod(s, p, u)
    \/ WriteCreatePeriod(s) \/ WriteClosePeriod(s)

-----------------------------------------------------------------------------
(* Expenses. *)

ReadRecord(s, day, u) ==
    /\ Room(Len(expenses), MaxExpenses)
    /\ RequireOpen(day)
    /\ Start(s, [NoTask EXCEPT !.op = "record", !.day = day, !.user = u])

WriteRecord(s) ==
    /\ Serving(s, "record")
    /\ Len(expenses) < MaxExpenses
    /\ expenses' = Append(expenses, [day |-> task[s].day, status |-> "RECORDED",
                                     createdBy |-> task[s].user, approvedBy |-> Nobody])
    /\ UNCHANGED <<periods, receipts>>
    /\ Complete(s)

Decision(e, u, status) ==
    [NoTask EXCEPT !.op = "decide", !.row = e, !.day = expenses[e].day, !.user = u,
                   !.status = status]

(***************************************************************************)
(* D-18: who recorded it does not approve it.                              *)
(***************************************************************************)
ReadApprove(s, e, u) ==
    /\ expenses[e].status = "RECORDED"
    /\ expenses[e].createdBy # u
    /\ Start(s, Decision(e, u, "APPROVED"))

ReadReject(s, e, u) ==
    /\ expenses[e].status = "RECORDED"
    /\ Start(s, Decision(e, u, "REJECTED"))

(***************************************************************************)
(* expenses_expense_approver_differs stops the recorder who rejects.  The  *)
(* date of the expense is not asked about again.                           *)
(***************************************************************************)
WriteDecide(s) ==
    /\ Serving(s, "decide")
    /\ expenses[task[s].row].createdBy # task[s].user
    /\ expenses' = [expenses EXCEPT ![task[s].row].status = task[s].status,
                                    ![task[s].row].approvedBy = task[s].user]
    /\ UNCHANGED <<periods, receipts>>
    /\ Complete(s)

ExpensesView(s) ==
    \/ \E day \in Days, u \in Staff : ReadRecord(s, day, u)
    \/ \E e \in DOMAIN expenses, u \in Staff : ReadApprove(s, e, u) \/ ReadReject(s, e, u)
    \/ WriteRecord(s) \/ WriteDecide(s)

-----------------------------------------------------------------------------
(* Receipts. *)

ReadTakePayment(s, day) ==
    /\ Room(Len(receipts), MaxReceipts)
    /\ RequireOpen(day)
    /\ Start(s, [NoTask EXCEPT !.op = "pay", !.day = day])

WriteTakePayment(s) ==
    /\ Serving(s, "pay")
    /\ Len(receipts) < MaxReceipts
    /\ receipts' = Append(receipts, [day |-> task[s].day, status |-> "ISSUED"])
    /\ UNCHANGED <<periods, expenses>>
    /\ Complete(s)

ReadVoidOfAnyMonth(s, r) ==
    /\ receipts[r].status = "ISSUED"
    /\ Start(s, [NoTask EXCEPT !.op = "void", !.row = r, !.day = receipts[r].day])

(***************************************************************************)
(* A void has no date: the month it changes is that of its receipt.        *)
(***************************************************************************)
ReadVoid(s, r) ==
    /\ receipts[r].status = "ISSUED"
    /\ RequireOpen(receipts[r].day)
    /\ Start(s, [NoTask EXCEPT !.op = "void", !.row = r, !.day = receipts[r].day])

WriteVoid(s) ==
    /\ Serving(s, "void")
    /\ receipts' = [receipts EXCEPT ![task[s].row].status = "VOIDED"]
    /\ UNCHANGED <<periods, expenses>>
    /\ Complete(s)

-----------------------------------------------------------------------------
PeriodsInit ==
    /\ periods = <<>> /\ expenses = <<>> /\ receipts = <<>>
    /\ task = [s \in Workers |-> NoTask]

PeriodsNext ==
    \E s \in Workers :
        \/ FinancialPeriodsView(s)
        \/ ExpensesView(s)
        \/ \E day \in Days : ReadTakePayment(s, day)
        \/ \E r \in DOMAIN receipts : ReadVoid(s, r)
        \/ WriteTakePayment(s) \/ WriteVoid(s)
        \/ Abandon(s)

PeriodsSpec == PeriodsInit /\ [][PeriodsNext]_periodsVars

-----------------------------------------------------------------------------
Of(rows, day) == {i \in DOMAIN rows : rows[i].day = day}

ReceiptsOf(day) == [r \in Of(receipts, day) |-> receipts[r]]

(***************************************************************************)
(* The expenses of a day, whatever has been decided of them.               *)
(***************************************************************************)
Entered(day) == [e \in Of(expenses, day) |-> expenses[e].createdBy]

(***************************************************************************)
(* The commit of a request that another had overtaken, and the days it is  *)
(* about.                                                                  *)
(***************************************************************************)
Late(s) == task[s].overtaken /\ task'[s] = NoTask

DaysOf(q) == IF q.op \in {"create", "close"} THEN q.day .. q.to ELSE {q.day}

(***************************************************************************)
(* A day that is in a closed period stays so, and what it has of receipts, *)
(* voids and expenses stays as it is: "a closed month cannot quietly move".*)
(* Excepted is the commit of a request about that day that was judged      *)
(* before another closed its period or created one over it: nothing is     *)
(* locked in between.  Whether an expense of the month is approved may     *)
(* change: approve and reject do not ask for its period.                   *)
(***************************************************************************)
MonthStaysSigned ==
    [][\A day \in Days :
           Closed(day) =>
               \/ /\ Closed(day)'
                  /\ ReceiptsOf(day)' = ReceiptsOf(day)
                  /\ Entered(day)' = Entered(day)
               \/ \E s \in Workers : Late(s) /\ day \in DaysOf(task[s])]_<<periods, books>>

(***************************************************************************)
(* Who signed a period off, and what was decided of an expense and by      *)
(* whom, is overwritten by nobody but a second hand on the same row that   *)
(* judged it before the first had signed: both services save over it.      *)
(***************************************************************************)
Overwrites(op, row) ==
    \E s \in Workers : Late(s) /\ task[s].op = op /\ task[s].row = row

SignaturesStand ==
    [][/\ \A p \in DOMAIN periods :
             periods[p].closed => periods'[p] = periods[p] \/ Overwrites("close", p)
       /\ \A e \in DOMAIN expenses :
             expenses[e].status # "RECORDED" =>
                 expenses'[e] = expenses[e] \/ Overwrites("decide", e)]_<<periods, books>>
=============================================================================
