-------------------------- MODULE OpeningBalance --------------------------
(***************************************************************************)
(* The reviewed bridge from the historical archive to the ledger           *)
(* (apps/billing/services/opening_balance_service.py).                     *)
(*                                                                         *)
(* Every web request reads one OpeningBalance instance, runs its guards on *)
(* that instance outside any transaction, and only then opens a            *)
(* transaction that writes a few columns without locking the row.  A       *)
(* request is therefore two steps of a session: Read... (load and guards)  *)
(* and Write... (commit).  Requests of different sessions interleave; what *)
(* stands between them is the database's CHECK and UNIQUE constraints.     *)
(***************************************************************************)
EXTENDS Naturals, Sequences, FiniteSets

CONSTANTS
    Balances,          \* primary keys of the balances that may be proposed
    SourceRows,        \* archived enrolments a balance may be derived from
    Enrollments,       \* live enrolments a balance may land on
    LaterEnrollments,  \* those entered on or after the balance's date
    Officers,          \* users who hold CREATE and EDIT on the screen
    Managers,          \* users who hold APPROVE on the screen
    Callers,           \* web requests in flight at one time
    MaxPayouts,        \* bound: payout rows per balance
    None               \* SQL NULL

Users == Officers \cup Managers

ASSUME BalanceAssumption ==
    /\ LaterEnrollments \subseteq Enrollments
    /\ None \notin Users \cup Enrollments \cup SourceRows \cup Balances
    /\ MaxPayouts \in Nat

VARIABLES
    row,           \* billing_openingbalance, one record per primary key
    lines,         \* how many ChargeLine rows were written for each balance
    payouts,       \* OpeningBalanceRefund rows of each balance, oldest first
    periodClosed,  \* whether the financial period of the cash is signed off
    call,          \* what each session has read and is about to write
    crossed        \* history: balances written from an out-of-date instance

balanceVars == <<row, lines, payouts, periodClosed, call, crossed>>

Directions == {"RECEIVABLE", "CREDIT"}

CreditOutcomes == {"APPLIED", "REFUND_DUE", "REFUNDED"}

Statuses == {"DRAFT", "REVIEWED", "APPROVED", "POSTED", "REJECTED"} \cup CreditOutcomes

BalanceOps == {"propose", "review", "approve", "reject", "post", "carry_forward",
               "mark_refund_due", "pay_refund_due", "reverse_refund_payout"}

OrNone(S) == S \cup {None}

(***************************************************************************)
(* line is 0 while posted_charge_line is NULL and otherwise the ordinal of *)
(* the charge line it names.                                               *)
(***************************************************************************)
Row == [status     : Statuses \cup {"ABSENT"},
        direction  : Directions,
        source     : OrNone(SourceRows),
        enrollment : OrNone(Enrollments),
        createdBy  : OrNone(Users),
        reviewedBy : OrNone(Users),
        approvedBy : OrNone(Users),
        resolvedBy : OrNone(Users),
        line       : Nat]

Absent == [status |-> "ABSENT", direction |-> "RECEIVABLE", source |-> None,
           enrollment |-> None, createdBy |-> None, reviewedBy |-> None,
           approvedBy |-> None, resolvedBy |-> None, line |-> 0]

Payout == [payer : Users, live : BOOLEAN]

(***************************************************************************)
(* A session's request: the operation, the balance it loaded, the caller,  *)
(* the arguments, and whether the loaded row is still what the table holds.*)
(***************************************************************************)
Request == [op         : BalanceOps,
            balance    : OrNone(Balances),
            actor      : Users,
            direction  : Directions,
            source     : OrNone(SourceRows),
            enrollment : OrNone(Enrollments),
            payout     : Nat,
            fresh      : BOOLEAN]

NoCall == [op |-> "idle"]

Busy(s) == call[s] # NoCall

Live(b) == {i \in DOMAIN payouts[b] : payouts[b][i].live}

-----------------------------------------------------------------------------
(* Slips: wrong versions of definitions below, each a bug somebody could    *)
(* have written.  The specification does not use them; they show that its   *)
(* properties can fail.                                                     *)

\* The approver is compared with the proposer only.
HandsDifferFromProposer(r) ==
    /\ r.reviewedBy # None => r.reviewedBy # r.createdBy
    /\ r.approvedBy # None => r.approvedBy # r.createdBy

\* One direction of the constraint only.
PostedHasLine(r) ==
    r.status = "POSTED" => r.line # 0

\* A partial index MySQL silently skips.
SkippedUniqueness(b) == TRUE

\* The already-posted and status checks are gone.
CanPostAgain(r) ==
    r.direction = "RECEIVABLE" /\ r.enrollment # None /\ r.status \in {"APPROVED", "POSTED"}

\* Only the two named outcomes are refused.
CanResolveUnlessResolved(r) ==
    r.direction = "CREDIT" /\ r.status \notin {"APPLIED", "REFUND_DUE"}

\* A status outside the choices.
RejectAsCancelled(r) ==
    [r EXCEPT !.status = "CANCELLED"]

-----------------------------------------------------------------------------
(* The database's own rules on one row and on one new row. *)

(***************************************************************************)
(* The CHECK constraints of the OpeningBalance table that relate columns.  *)
(***************************************************************************)
HandsDiffer(r) ==
    /\ r.reviewedBy # None => r.reviewedBy # r.createdBy
    /\ r.approvedBy # None => r.approvedBy \notin {r.createdBy, r.reviewedBy}

StampsPresent(r) ==
    /\ r.status = "REVIEWED" => r.reviewedBy # None
    /\ r.status = "APPROVED" => None \notin {r.approvedBy, r.reviewedBy, r.enrollment}
    /\ r.status \in CreditOutcomes => r.resolvedBy # None
    /\ r.status = "APPLIED" => r.enrollment # None

LineMatchesStatus(r) ==
    /\ r.status = "POSTED" <=> r.line # 0
    /\ r.direction = "CREDIT" => r.line = 0
    /\ r.status \in CreditOutcomes => r.direction = "CREDIT"

Admits(r) == HandsDiffer(r) /\ StampsPresent(r) /\ LineMatchesStatus(r)

(***************************************************************************)
(* UNIQUE(source_enrollment); NULLs do not collide.                        *)
(***************************************************************************)
SourceFree(src) ==
    src = None \/ \A b \in Balances : row[b].status = "ABSENT" \/ row[b].source # src

(***************************************************************************)
(* UNIQUE(opening_balance, active_key): active_key is NULL once reversed.  *)
(***************************************************************************)
NoLivePayout(b) == Live(b) = {}

-----------------------------------------------------------------------------
(* Guards: what each service function requires of the instance it holds. *)

CanReview(r, u) == r.status = "DRAFT" /\ u # r.createdBy

CanApprove(r, u) ==
    /\ r.status = "REVIEWED"
    /\ u \notin {r.createdBy, r.reviewedBy}
    /\ r.enrollment # None

CanReject(r) == r.status \in {"DRAFT", "REVIEWED"}

CanPost(r) ==
    /\ r.line = 0
    /\ r.status = "APPROVED"
    /\ r.direction = "RECEIVABLE"
    /\ r.enrollment # None

CanResolveCredit(r) == r.direction = "CREDIT" /\ r.status = "APPROVED"

CanCarryForward(r, e) == CanResolveCredit(r) /\ e \in LaterEnrollments

CanPayRefund(r, u) ==
    /\ r.direction = "CREDIT"
    /\ r.status = "REFUND_DUE"
    /\ u # r.resolvedBy

(***************************************************************************)
(* Load an instance into session s.  Refused requests change nothing.      *)
(***************************************************************************)
BeginCall(s, q) ==
    /\ ~Busy(s)
    /\ call' = [call EXCEPT ![s] = q]
    /\ UNCHANGED <<row, lines, payouts, periodClosed, crossed>>

Ask(op, b, u) == [op |-> op, balance |-> b, actor |-> u, direction |-> "RECEIVABLE",
                  source |-> None, enrollment |-> None, payout |-> 0, fresh |-> TRUE]

ReadPropose(s, u, d, src) ==
    /\ u \in Officers
    /\ SourceFree(src)
    /\ BeginCall(s, [Ask("propose", None, u) EXCEPT !.direction = d, !.source = src])

ReadReview(s, b, u, e) ==
    /\ u \in Officers
    /\ CanReview(row[b], u)
    /\ BeginCall(s, [Ask("review", b, u) EXCEPT !.enrollment = e])

ReadApprove(s, b, u) ==
    /\ u \in Managers
    /\ CanApprove(row[b], u)
    /\ BeginCall(s, Ask("approve", b, u))

ReadReject(s, b, u) ==
    /\ u \in Managers
    /\ CanReject(row[b])
    /\ BeginCall(s, Ask("reject", b, u))

ReadPost(s, b, u) ==
    /\ u \in Managers
    /\ CanPost(row[b])
    /\ BeginCall(s, Ask("post", b, u))

ReadCarryForward(s, b, u, e) ==
    /\ u \in Managers
    /\ CanCarryForward(row[b], e)
    /\ BeginCall(s, [Ask("carry_forward", b, u) EXCEPT !.enrollment = e])

ReadMarkRefundDue(s, b, u) ==
    /\ u \in Managers
    /\ CanResolveCredit(row[b])
    /\ BeginCall(s, Ask("mark_refund_due", b, u))

ReadPayRefund(s, b, u) ==
    /\ u \in Officers
    /\ CanPayRefund(row[b], u)
    /\ ~periodClosed
    /\ Len(payouts[b]) < MaxPayouts
    /\ BeginCall(s, Ask("pay_refund_due", b, u))

(***************************************************************************)
(* The reversal looks up the newest live payout and asks nothing of the    *)
(* balance's status.                                                       *)
(***************************************************************************)
ReadReverse(s, b, u) ==
    /\ u \in Officers
    /\ ~periodClosed
    /\ \E i \in Live(b) :
         /\ \A j \in Live(b) : j <= i
         /\ BeginCall(s, [Ask("reverse_refund_payout", b, u) EXCEPT !.payout = i])

-----------------------------------------------------------------------------
(* Commits: save(update_fields=...) on the row as it is now. *)

Review(r, q) ==
    [r EXCEPT !.status = "REVIEWED", !.reviewedBy = q.actor,
              !.enrollment = IF q.enrollment = None THEN @ ELSE q.enrollment]

Approve(r, q) == [r EXCEPT !.status = "APPROVED", !.approvedBy = q.actor]

Reject(r) == [r EXCEPT !.status = "REJECTED"]

PostTo(r, line) == [r EXCEPT !.status = "POSTED", !.line = line]

CarriedForward(r, q) ==
    [r EXCEPT !.status = "APPLIED", !.resolvedBy = q.actor, !.enrollment = q.enrollment]

MarkRefundDue(r, q) == [r EXCEPT !.status = "REFUND_DUE", !.resolvedBy = q.actor]

Pay(r) == [r EXCEPT !.status = "REFUNDED"]

Reopen(r) == [r EXCEPT !.status = "REFUND_DUE"]

(***************************************************************************)
(* The row session s is about to leave behind.                             *)
(***************************************************************************)
NewRow(s) ==
    LET q == call[s]
        r == row[q.balance]
    IN  CASE q.op = "review"                -> Review(r, q)
          [] q.op = "approve"               -> Approve(r, q)
          [] q.op = "reject"                -> Reject(r)
          [] q.op = "post"                  -> PostTo(r, lines[q.balance] + 1)
          [] q.op = "carry_forward"         -> CarriedForward(r, q)
          [] q.op = "mark_refund_due"       -> MarkRefundDue(r, q)
          [] q.op = "pay_refund_due"        -> Pay(r)
          [] q.op = "reverse_refund_payout" -> Reopen(r)

Accepted(s) ==
    LET q == call[s]
    IN  IF q.op = "propose"
        THEN SourceFree(q.source)
        ELSE /\ Admits(NewRow(s))
             /\ q.op = "pay_refund_due" => NoLivePayout(q.balance)

(***************************************************************************)
(* A committed write ends the request and outdates every instance of the   *)
(* row that another session holds.                                         *)
(***************************************************************************)
EndCall(s, b) ==
    /\ call' = [t \in Callers |->
                 IF t = s THEN NoCall
                 ELSE IF Busy(t) /\ call[t].balance = b THEN [call[t] EXCEPT !.fresh = FALSE]
                 ELSE call[t]]
    /\ crossed' = IF call[s].fresh THEN crossed ELSE crossed \cup {b}
    /\ UNCHANGED periodClosed

WritePropose(s, b) ==
    /\ call[s].op = "propose"
    /\ row[b].status = "ABSENT"
    /\ Accepted(s)
    /\ row' = [row EXCEPT ![b] =
                 [Absent EXCEPT !.status = "DRAFT", !.direction = call[s].direction,
                                !.source = call[s].source, !.createdBy = call[s].actor]]
    /\ EndCall(s, b)
    /\ UNCHANGED <<lines, payouts>>

Write(s, op) ==
    /\ call[s].op = op
    /\ Accepted(s)
    /\ row' = [row EXCEPT ![call[s].balance] = NewRow(s)]
    /\ EndCall(s, call[s].balance)

WriteReview(s)        == Write(s, "review") /\ UNCHANGED <<lines, payouts>>
WriteApprove(s)       == Write(s, "approve") /\ UNCHANGED <<lines, payouts>>
WriteReject(s)        == Write(s, "reject") /\ UNCHANGED <<lines, payouts>>
WriteCarryForward(s)  == Write(s, "carry_forward") /\ UNCHANGED <<lines, payouts>>
WriteMarkRefundDue(s) == Write(s, "mark_refund_due") /\ UNCHANGED <<lines, payouts>>

WritePost(s) ==
    /\ Write(s, "post")
    /\ lines' = [lines EXCEPT ![call[s].balance] = @ + 1]
    /\ UNCHANGED payouts

WritePayout(s) ==
    /\ Write(s, "pay_refund_due")
    /\ payouts' = [payouts EXCEPT ![call[s].balance] =
                     Append(@, [payer |-> call[s].actor, live |-> TRUE])]
    /\ UNCHANGED lines

WriteReversal(s) ==
    /\ Write(s, "reverse_refund_payout")
    /\ payouts' = [payouts EXCEPT ![call[s].balance][call[s].payout].live = FALSE]
    /\ UNCHANGED lines

(***************************************************************************)
(* The transaction is rolled back: by a constraint (IntegrityError), or    *)
(* because the worker died or lost its connection before the commit.       *)
(***************************************************************************)
DropCall(s) ==
    /\ Busy(s)
    /\ call' = [call EXCEPT ![s] = NoCall]
    /\ UNCHANGED <<row, lines, payouts, periodClosed, crossed>>

(***************************************************************************)
(* Signing the period off; nothing reopens a period.                       *)
(***************************************************************************)
ClosePeriod ==
    /\ ~periodClosed
    /\ periodClosed' = TRUE
    /\ UNCHANGED <<row, lines, payouts, call, crossed>>

-----------------------------------------------------------------------------
BalanceInit ==
    /\ row = [b \in Balances |-> Absent]
    /\ lines = [b \in Balances |-> 0]
    /\ payouts = [b \in Balances |-> <<>>]
    /\ periodClosed = FALSE
    /\ call = [s \in Callers |-> NoCall]
    /\ crossed = {}

Reads(s) ==
    \/ \E u \in Officers, d \in Directions, src \in OrNone(SourceRows) : ReadPropose(s, u, d, src)
    \/ \E b \in Balances, u \in Users :
         \/ \E e \in OrNone(Enrollments) : ReadReview(s, b, u, e)
         \/ ReadApprove(s, b, u)
         \/ ReadReject(s, b, u)
         \/ ReadPost(s, b, u)
         \/ \E e \in Enrollments : ReadCarryForward(s, b, u, e)
         \/ ReadMarkRefundDue(s, b, u)
         \/ ReadPayRefund(s, b, u)
         \/ ReadReverse(s, b, u)

Writes(s) ==
    \/ \E b \in Balances : WritePropose(s, b)
    \/ WriteReview(s)
    \/ WriteApprove(s)
    \/ WriteReject(s)
    \/ WritePost(s)
    \/ WriteCarryForward(s)
    \/ WriteMarkRefundDue(s)
    \/ WritePayout(s)
    \/ WriteReversal(s)
    \/ DropCall(s)

BalanceNext == ClosePeriod \/ \E s \in Callers : Reads(s) \/ Writes(s)

BalanceSpec == BalanceInit /\ [][BalanceNext]_balanceVars

-----------------------------------------------------------------------------
(* Properties. *)

(***************************************************************************)
(* Every variable has its type.                                            *)
(***************************************************************************)
BalanceTypeOK ==
    /\ row \in [Balances -> Row]
    /\ lines \in [Balances -> Nat]
    /\ payouts \in [Balances -> Seq(Payout)]
    /\ periodClosed \in BOOLEAN
    /\ call \in [Callers -> Request \cup {NoCall}]
    /\ crossed \subseteq Balances

(***************************************************************************)
(* D-24: the proposer, the reviewer and the approver of a balance are      *)
(* different people in every interleaving, late commits included: two      *)
(* requests that each passed their own guard must not add up to one person *)
(* in two roles.                                                           *)
(***************************************************************************)
SeparationOfDuties ==
    \A b \in Balances :
        /\ row[b].status \in {"REVIEWED", "APPROVED"} => row[b].reviewedBy # None
        /\ row[b].reviewedBy # None => row[b].reviewedBy # row[b].createdBy
        /\ row[b].approvedBy # None =>
             row[b].approvedBy \notin {row[b].createdBy, row[b].reviewedBy}

(***************************************************************************)
(* A debt that reached the ledger stays POSTED and names one of its own    *)
(* lines: no racing rejection, review or approval can leave a charge line  *)
(* behind a balance that says it was never posted, and a credit is never   *)
(* billed (post, _write_charge_line and the line_implies_posted CHECK).    *)
(***************************************************************************)
BilledIsPosted ==
    \A b \in Balances :
        /\ lines[b] > 0 <=> row[b].status = "POSTED"
        /\ row[b].line \in 0 .. lines[b]
        /\ lines[b] > 0 => row[b].line > 0 /\ row[b].direction = "RECEIVABLE"

(***************************************************************************)
(* "It can run once": an old debt is charged to the participant at most    *)
(* once, unless it was written from an out-of-date instance (post checks   *)
(* before its transaction, and nothing collides where two requests pass).  *)
(***************************************************************************)
PostedOnceUnlessRaced == \A b \in Balances \ crossed : lines[b] <= 1

(***************************************************************************)
(* The cash of a credit is out of the till exactly while the balance says  *)
(* REFUNDED, however payouts and reversals alternate, and never twice at   *)
(* one time; only a write from an out-of-date instance can part the two.   *)
(***************************************************************************)
CashMatchesStatus ==
    \A b \in Balances :
        /\ Cardinality(Live(b)) <= 1
        /\ b \notin crossed => (Live(b) # {} <=> row[b].status = "REFUNDED")

(***************************************************************************)
(* D-18: whoever declared a refund due is not who hands the cash out.      *)
(***************************************************************************)
PayerIsNotDeclarer ==
    \A b \in Balances \ crossed : \A i \in Live(b) : payouts[b][i].payer # row[b].resolvedBy

(***************************************************************************)
(* One archived row yields one balance, although the check for a duplicate *)
(* runs before the insert and in another transaction.                      *)
(***************************************************************************)
OneBalancePerSource ==
    \A b, c \in Balances :
        b # c /\ row[b].source # None => row[b].source # row[c].source

(***************************************************************************)
(* How a balance has been given effect: charge lines, credit applied to an *)
(* account, cash handed out.                                               *)
(***************************************************************************)
Discharges ==
    [b \in Balances |->
        [ledger  |-> lines[b],
         account |-> IF row[b].status = "APPLIED" THEN 1 ELSE 0,
         cash    |-> Cardinality(Live(b))]]

Obligation == INSTANCE Obligation WITH effect <- Discharges, disturbed <- crossed

(***************************************************************************)
(* Every balance takes effect through one channel at a time and once,      *)
(* until an out-of-date write disturbs it: the abstract specification.     *)
(***************************************************************************)
GivesEffectOnce == Obligation!Spec
=============================================================================
