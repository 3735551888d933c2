------------------------------ MODULE Transfer ------------------------------
(***************************************************************************)
(* Moving a participant between short courses (transfer_service of         *)
(* apps/operations/services): the request, the manager's recommendation,   *)
(* a rejection, and the execution, which opens a seat on the new course    *)
(* and moves charge lines and money to it.  What happens to the same rows  *)
(* meanwhile is here as far as the move meets it: payments, refunds,       *)
(* exits, claims of the partner and decisions of the ministry.             *)
(*                                                                         *)
(* Every enrolment is one of one participant, in short courses.  A form    *)
(* posted at a desk is two or three steps: Read... loads the rows and      *)
(* judges them before any transaction, Start... takes what the transaction *)
(* reads without a lock, Write... commits.  The execution locks the lines  *)
(* it voids before it reads the allocations, so those belong to Write.     *)
(* Deposits, discounts and who may ask are left out.                       *)
(***************************************************************************)
EXTENDS Integers, FiniteSets, SequencesExt, Listing

CONSTANTS
    Cohorts,          \* of short courses
    Price,            \* the tuition of each
    Category,         \* the field each belongs to
    Registration,     \* the registration fee
    Payments,         \* amounts people pay
    Desks,            \* web requests in flight at one time
    MaxSeats, MaxTransfers, MaxReceipts, MaxRefunds, MaxClaims,   \* bounds on rows
    MaxRaces          \* bound on outdated: from there on, one form at a time

ASSUME TransferAssumption ==
    /\ Cohorts # {}
    /\ Price \in [Cohorts -> Nat \ {0}]
    /\ DOMAIN Category = Cohorts
    /\ Payments \subseteq Nat \ {0}
    /\ MaxSeats # 0
    /\ {Registration, MaxSeats, MaxTransfers, MaxReceipts, MaxRefunds, MaxClaims, MaxRaces}
           \subseteq Nat

VARIABLES
    approved,     \* cohorts the ministry approves of
    seats,        \* operations_enrollment
    lines,        \* billing_chargeline
    receipts,     \* cashbox_receipt, all ISSUED: the amounts
    rows,         \* cashbox_paymentallocation
    claims,       \* seat -> the partner's share on an approved claim, 0 on none
    owed,         \* settlements_partnerobligation
    transfers,    \* operations_transfer
    form,         \* what each desk has read and is about to write
    outdated      \* history: <<op, by>> where op committed after by had outdated its reads

money == <<lines, receipts, rows>>
partner == <<claims, owed>>
transferVars == <<approved, seats, money, partner, transfers, form, outdated>>

(***************************************************************************)
(* LIVE: one of the four statuses a transfer may start from.  documented:  *)
(* the lecture counter has its evidence and is within the limit.           *)
(***************************************************************************)
SeatRow == [cohort : Cohorts, status : {"LIVE", "LEFT", "TRANSFERRED_OUT"}, documented : BOOLEAN]

AllocationOrder == <<"REGISTRATION", "TUITION", "TRANSFER_DIFFERENCE">>

ChargeLine == [enrolment : Nat \ {0}, type : Range(AllocationOrder), gross : Nat,
               voided : BOOLEAN]

(***************************************************************************)
(* line 0 stands for a NULL charge_line.                                   *)
(***************************************************************************)
Allocation == [receipt : Nat \ {0}, line : Nat, enrolment : Nat \ {0}, amount : Int \ {0},
               why : {"payment", "refund", "move"}]

Obligation == [enrolment : Nat \ {0}, amount : Nat \ {0}, transfer : Nat]

(***************************************************************************)
(* to 0: to_enrollment is NULL.                                            *)
(***************************************************************************)
TransferRow == [from : Nat \ {0}, cohort : Cohorts, to : Nat, waived : BOOLEAN,
                status : {"PENDING_MANAGER", "PENDING_FINANCE", "EXECUTED", "REJECTED"}]

Decisions == {"recommend", "reject", "execute"}

TransferOps == {"request", "pay", "leave"} \cup Decisions

(***************************************************************************)
(* A form in flight: the row it is about, the cohort and the waiver it     *)
(* asks for or the amount it pays; once its transaction has read, the      *)
(* lines it carries over or what it allocates to which line.               *)
(***************************************************************************)
IsForm(q) ==
    /\ q.op \in TransferOps \cup {"none"}
    /\ {q.on, q.amount} \subseteq Nat
    /\ q.cohort \in Cohorts
    /\ {q.waived, q.started} \subseteq BOOLEAN
    /\ q.lines \in SUBSET Nat
    /\ DOMAIN q.shares \subseteq Nat /\ \A l \in DOMAIN q.shares : q.shares[l] \in Nat \ {0}
    /\ q.overtaken \in SUBSET TransferOps

Blank == [op |-> "none", on |-> 0, cohort |-> CHOOSE c \in Cohorts : TRUE, waived |-> FALSE,
          amount |-> 0, started |-> FALSE, lines |-> {}, shares |-> <<>>, overtaken |-> {}]

TransferTypeOK ==
    /\ approved \in SUBSET Cohorts
    /\ seats \in Seq(SeatRow)
    /\ lines \in Seq(ChargeLine)
    /\ receipts \in Seq(Nat \ {0})
    /\ rows \in Seq(Allocation)
    /\ claims \in [1 .. MaxSeats -> Nat]
    /\ owed \in Seq(Obligation)
    /\ transfers \in Seq(TransferRow)
    /\ \A t \in DOMAIN transfers : transfers[t].status = "EXECUTED" => transfers[t].to # 0
    /\ \A d \in Desks : IsForm(form[d])
    /\ outdated \in SUBSET (TransferOps \X TransferOps)

-----------------------------------------------------------------------------
(* The ledger of an enrolment. *)

Gross(L) == SumFunctionOnSet([l \in DOMAIN lines |-> lines[l].gross], L)

Allocated(I) == SumFunctionOnSet([i \in DOMAIN rows |-> rows[i].amount], I)

LinesOf(e) == {l \in DOMAIN lines : lines[l].enrolment = e /\ ~lines[l].voided}

RowsOf(e) == {i \in DOMAIN rows : rows[i].enrolment = e}

Collected(e) == Allocated(RowsOf(e))

Outstanding(l) == lines[l].gross - Allocated({i \in DOMAIN rows : rows[i].line = l})

Balance(e) == Gross(LinesOf(e)) - Collected(e)

(***************************************************************************)
(* The registration fee is not the partner's.                              *)
(***************************************************************************)
ShareableCollected(e) ==
    Allocated({i \in RowsOf(e) : rows[i].line # 0 /\ lines[rows[i].line].type # "REGISTRATION"})

-----------------------------------------------------------------------------
(* Forms. *)

Unused(d) == form[d] = Blank

Handling(d, op) == form[d].op = op

Alone(d) == \A x \in Desks \ {d} : Unused(x)

BeginForm(d, q) ==
    /\ Unused(d)
    /\ Alone(d) \/ Cardinality(outdated) < MaxRaces
    /\ form' = [form EXCEPT ![d] = q]
    /\ UNCHANGED <<approved, seats, money, partner, transfers, outdated>>

(***************************************************************************)
(* The overtakings that matter: the operation of one form has changed a    *)
(* transfer or an enrolment that the other has read.                       *)
(***************************************************************************)
SeatOf(q) == IF q.op \in Decisions THEN transfers[q.on].from ELSE q.on

Overtake(q, r) ==
    IF r # Blank /\ q.op # "pay" /\ SeatOf(q) = SeatOf(r)
    THEN [r EXCEPT !.overtaken = @ \cup {q.op}]
    ELSE r

EndForm(d) ==
    /\ form' = [x \in Desks |-> IF x = d THEN Blank ELSE Overtake(form[d], form[x])]
    /\ outdated' = outdated \cup ({form[d].op} \X form[d].overtaken)

(***************************************************************************)
(* A refusal, a failed constraint or a lost connection: nothing is kept.   *)
(***************************************************************************)
DropForm(d) ==
    /\ ~Unused(d)
    /\ form' = [form EXCEPT ![d] = Blank]
    /\ UNCHANGED <<approved, seats, money, partner, transfers, outdated>>

-----------------------------------------------------------------------------
(* What goes on around a transfer. *)

Payable == {e \in DOMAIN seats : Balance(e) > 0}

(***************************************************************************)
(* The till: an enrolment that owes, spread over its lines in order.       *)
(***************************************************************************)
ReadPayment(d, e, amount) ==
    /\ Len(receipts) < MaxReceipts
    /\ BeginForm(d, [Blank EXCEPT !.op = "pay", !.on = e, !.amount = amount])

Place(l) == CHOOSE k \in DOMAIN AllocationOrder : AllocationOrder[k] = lines[l].type

Before(k, l) == Place(k) < Place(l) \/ (Place(k) = Place(l) /\ k < l)

(***************************************************************************)
(* What an amount leaves to a line once the lines before it have theirs,   *)
(* and to no line (0) once all have.                                       *)
(***************************************************************************)
PaidTo(l, e, amount) ==
    LET due == [k \in {k \in LinesOf(e) : Outstanding(k) > 0} |-> Outstanding(k)]
        left == amount - SumFunctionOnSet(due, {k \in DOMAIN due : l = 0 \/ Before(k, l)})
    IN  IF l = 0 THEN Max({0, left}) ELSE Max({0, Min({due[l], left})})

Allocate(e, amount) ==
    LET due == {l \in LinesOf(e) : Outstanding(l) > 0}
    IN  [l \in {k \in due \cup {0} : PaidTo(k, e, amount) > 0} |-> PaidTo(l, e, amount)]

(***************************************************************************)
(* allocate refuses a receipt its parts do not come to.                    *)
(***************************************************************************)
StartPayment(d) ==
    LET shares == Allocate(form[d].on, form[d].amount)
    IN  /\ Handling(d, "pay") /\ ~form[d].started
        /\ SumFunction(shares) = form[d].amount
        /\ form' = [form EXCEPT ![d].started = TRUE, ![d].shares = shares]
        /\ UNCHANGED <<approved, seats, money, partner, transfers, outdated>>

Paid(shares, e) ==
    [l \in DOMAIN shares |-> [receipt |-> Len(receipts) + 1, line |-> l, enrolment |-> e,
                              amount |-> shares[l], why |-> "payment"]]

WritePayment(d) ==
    /\ Handling(d, "pay") /\ form[d].started
    /\ Len(receipts) < MaxReceipts
    /\ receipts' = Append(receipts, form[d].amount)
    /\ rows' = rows \o Listed(Paid(form[d].shares, form[d].on))
    /\ EndForm(d)
    /\ UNCHANGED <<approved, seats, lines, partner, transfers>>

(***************************************************************************)
(* A refund of one unit, requested, approved and executed: of the          *)
(* allocations that received money it takes the first in reversal order,   *)
(* money on no line before any, of one type the allocation made last.      *)
(* Where a claim has billed the money, the partner owes it back.           *)
(***************************************************************************)
Received(e) == {i \in RowsOf(e) : rows[i].amount > 0}

Rank(i) == IF rows[i].line = 0 THEN Len(AllocationOrder) + 1 ELSE Place(rows[i].line)

ReversalOrder(i, j) == Rank(i) > Rank(j) \/ (Rank(i) = Rank(j) /\ i > j)

Refunds == Cardinality({i \in DOMAIN rows : rows[i].why = "refund"})

Refund(e) ==
    /\ Refunds < MaxRefunds
    /\ Collected(e) > 0
    /\ \E i \in Received(e) :
          /\ \A j \in Received(e) \ {i} : ReversalOrder(i, j)
          /\ rows' = Append(rows, [rows[i] EXCEPT !.amount = -1, !.why = "refund"])
    /\ owed' = IF claims[e] > 0
               THEN Append(owed, [enrolment |-> e, amount |-> 1, transfer |-> 0])
               ELSE owed
    /\ UNCHANGED <<approved, seats, lines, receipts, claims, transfers, form, outdated>>

(***************************************************************************)
(* Completing, withdrawing and dismissing, each on the enrolment as it was *)
(* loaded.                                                                 *)
(***************************************************************************)
ReadLeave(d, e) ==
    /\ seats[e].status = "LIVE"
    /\ BeginForm(d, [Blank EXCEPT !.op = "leave", !.on = e])

WriteLeave(d) ==
    /\ Handling(d, "leave")
    /\ seats' = [seats EXCEPT ![form[d].on].status = "LEFT"]
    /\ EndForm(d)
    /\ UNCHANGED <<approved, money, partner, transfers>>

(***************************************************************************)
(* A count within the limit, with its evidence.                            *)
(***************************************************************************)
RecordAttendance(e) ==
    /\ ~seats[e].documented
    /\ seats' = [seats EXCEPT ![e].documented = TRUE]
    /\ UNCHANGED <<approved, money, partner, transfers, form, outdated>>

(***************************************************************************)
(* A second file of the cohort comes back from the ministry rejected.      *)
(***************************************************************************)
RejectCohort(c) ==
    /\ c \in approved
    /\ approved' = approved \ {c}
    /\ UNCHANGED <<seats, money, partner, transfers, form, outdated>>

(***************************************************************************)
(* A claim drafted and approved; Settlements has the steps.                *)
(***************************************************************************)
Claims == Cardinality({e \in DOMAIN claims : claims[e] > 0})

ApproveClaim(e) ==
    /\ claims[e] = 0 /\ Claims < MaxClaims
    /\ ShareableCollected(e) > 0
    /\ claims' = [claims EXCEPT ![e] = ShareableCollected(e)]
    /\ UNCHANGED <<approved, seats, money, owed, transfers, form, outdated>>

-----------------------------------------------------------------------------
(* The transfer. *)

InFlight(e) ==
    \E t \in DOMAIN transfers : transfers[t].from = e /\ transfers[t].status # "REJECTED"

(***************************************************************************)
(* validate_transfer: a live enrolment no transfer is on its way from,     *)
(* attendance documented and within the limit, another cohort the ministry *)
(* approves of, of the same field unless the manager waives it because the *)
(* centre cancelled the course.                                            *)
(***************************************************************************)
Transferable(e) == seats[e].status = "LIVE" /\ ~InFlight(e)

ValidTransfer(e, c, waived) ==
    /\ c # seats[e].cohort
    /\ waived = (Category[c] # Category[seats[e].cohort])
    /\ seats[e].documented
    /\ c \in approved

ReadRequest(d, e, c, waived) ==
    /\ Len(transfers) < MaxTransfers
    /\ Transferable(e)
    /\ ValidTransfer(e, c, waived)
    /\ BeginForm(d, [Blank EXCEPT !.op = "request", !.on = e, !.cohort = c, !.waived = waived])

WriteRequest(d) ==
    /\ Handling(d, "request")
    /\ Len(transfers) < MaxTransfers
    /\ transfers' = Append(transfers, [from |-> form[d].on, cohort |-> form[d].cohort, to |-> 0,
                                       waived |-> form[d].waived, status |-> "PENDING_MANAGER"])
    /\ EndForm(d)
    /\ UNCHANGED <<approved, seats, money, partner>>

ReadDecision(d, op, t) == BeginForm(d, [Blank EXCEPT !.op = op, !.on = t])

ReadRecommend(d, t) ==
    /\ transfers[t].status = "PENDING_MANAGER"
    /\ ReadDecision(d, "recommend", t)

ReadRejectionOfAny(d, t) == ReadDecision(d, "reject", t)

ReadRejection(d, t) ==
    /\ transfers[t].status # "EXECUTED"
    /\ ReadDecision(d, "reject", t)

(***************************************************************************)
(* _manager_recommend and _reject save the transfer as it was loaded.      *)
(***************************************************************************)
SaveStatus(d, op, status) ==
    /\ Handling(d, op)
    /\ transfers' = [transfers EXCEPT ![form[d].on].status = status]
    /\ EndForm(d)
    /\ UNCHANGED <<approved, seats, money, partner>>

WriteRecommend(d) == SaveStatus(d, "recommend", "PENDING_FINANCE")

WriteRejection(d) == SaveStatus(d, "reject", "REJECTED")

(***************************************************************************)
(* The enrolment comes with the transfer, and record_status_change refuses *)
(* an enrolment that had a final status when it was loaded.                *)
(***************************************************************************)
ReadExecute(d, t) ==
    /\ transfers[t].status = "PENDING_FINANCE"
    /\ seats[transfers[t].from].status = "LIVE"
    /\ ReadDecision(d, "execute", t)

StartExecute(d) ==
    LET t == transfers[form[d].on] IN
    /\ Handling(d, "execute") /\ ~form[d].started
    /\ t.cohort \in approved
    /\ form' = [form EXCEPT ![d].started = TRUE, ![d].lines = LinesOf(t.from)]
    /\ UNCHANGED <<approved, seats, money, partner, transfers, outdated>>

(***************************************************************************)
(* fee_difference_for.                                                     *)
(***************************************************************************)
OldTuition(old) == Gross({l \in old : lines[l].type = "TUITION"})

Difference(old, c) == Price[c] - OldTuition(old)

(***************************************************************************)
(* What a line carried over is raised at: a charge cannot be negative, so  *)
(* where the new course is cheaper the tuition is.                         *)
(***************************************************************************)
RaisedAt(l, old, c) ==
    IF lines[l].type = "TUITION" /\ Difference(old, c) < 0 THEN Price[c] ELSE lines[l].gross

Mirror(old, new, c) ==
    [l \in old |-> [enrolment |-> new, type |-> lines[l].type, gross |-> RaisedAt(l, old, c),
                    voided |-> FALSE]]

MirrorOf(l, old) == Len(lines) + Cardinality({k \in old : k <= l})

DifferenceLine(old, new, c) ==
    IF Difference(old, c) > 0
    THEN <<[enrolment |-> new, type |-> "TRANSFER_DIFFERENCE", gross |-> Difference(old, c),
            voided |-> FALSE]>>
    ELSE <<>>

(***************************************************************************)
(* An allocation is reversed where it was and laid on the line its own was *)
(* carried to as far as that goes, the rest on no line.  Of a reversal (an *)
(* amount below zero) neither is laid anywhere.                            *)
(***************************************************************************)
OnMirror(i, old, c) ==
    IF rows[i].line \in old THEN Min({rows[i].amount, RaisedAt(rows[i].line, old, c)}) ELSE 0

Remaining(i, old, c) == rows[i].amount - Max({0, OnMirror(i, old, c)})

Relaid(i, l, e, amount) ==
    [receipt |-> rows[i].receipt, line |-> l, enrolment |-> e, amount |-> amount, why |-> "move"]

Taken(e) == [i \in RowsOf(e) |-> Relaid(i, rows[i].line, e, -rows[i].amount)]

Laid(e, old, new, c) ==
    [i \in {j \in RowsOf(e) : OnMirror(j, old, c) > 0} |->
        Relaid(i, MirrorOf(rows[i].line, old), new, OnMirror(i, old, c))]

LeftEvenNothing(e, old, new, c) ==
    [i \in RowsOf(e) |-> Relaid(i, 0, new, Remaining(i, old, c))]

Left(e, old, new, c) ==
    [i \in {j \in RowsOf(e) : Remaining(j, old, c) > 0} |->
        Relaid(i, 0, new, Remaining(i, old, c))]

(***************************************************************************)
(* The partner owes back what an approved claim gave it for the enrolment. *)
(* The code of the obligation is unique and is that of the transfer.       *)
(***************************************************************************)
CodeIsTaken(t) == TRUE

CodeIsFree(t) == \A o \in DOMAIN owed : owed[o].transfer # t

Recover(e, t) ==
    IF claims[e] > 0
    THEN CodeIsFree(t)
         /\ owed' = Append(owed, [enrolment |-> e, amount |-> claims[e], transfer |-> t])
    ELSE UNCHANGED owed

Reseat(e, c) ==
    Append([seats EXCEPT ![e].status = "TRANSFERRED_OUT"],
           [cohort |-> c, status |-> "LIVE", documented |-> FALSE])

WriteExecute(d) ==
    LET t == form[d].on
        e == transfers[t].from
        c == transfers[t].cohort
        old == form[d].lines
        new == Len(seats) + 1
    IN  /\ Handling(d, "execute") /\ form[d].started
        /\ new <= MaxSeats
        /\ seats' = Reseat(e, c)
        /\ lines' = [l \in DOMAIN lines |-> [lines[l] EXCEPT !.voided = @ \/ l \in old]]
                    \o Listed(Mirror(old, new, c)) \o DifferenceLine(old, new, c)
        /\ rows' = rows \o Listed(Taken(e)) \o Listed(Laid(e, old, new, c))
                        \o Listed(Left(e, old, new, c))
        /\ Recover(e, t)
        /\ transfers' = [transfers EXCEPT ![t].status = "EXECUTED", ![t].to = new]
        /\ EndForm(d)
        /\ UNCHANGED <<approved, receipts, claims>>

-----------------------------------------------------------------------------
(***************************************************************************)
(* A participant enrolled and charged, whose attendance is on record.      *)
(***************************************************************************)
TransferInit ==
    \E c \in Cohorts :
        /\ approved = Cohorts
        /\ seats = <<[cohort |-> c, status |-> "LIVE", documented |-> TRUE]>>
        /\ lines = <<[enrolment |-> 1, type |-> "TUITION", gross |-> Price[c], voided |-> FALSE],
                     [enrolment |-> 1, type |-> "REGISTRATION", gross |-> Registration,
                      voided |-> FALSE]>>
        /\ receipts = <<>>
        /\ rows = <<>>
        /\ claims = [e \in 1 .. MaxSeats |-> 0]
        /\ owed = <<>>
        /\ transfers = <<>>
        /\ form = [d \in Desks |-> Blank]
        /\ outdated = {}

PaymentNewView(d) ==
    \/ \E e \in Payable, amount \in Payments : ReadPayment(d, e, amount)
    \/ StartPayment(d)
    \/ WritePayment(d)

LeaveAction(d) == (\E e \in DOMAIN seats : ReadLeave(d, e)) \/ WriteLeave(d)

TransferNewView(d) ==
    \/ \E e \in DOMAIN seats, c \in Cohorts, waived \in BOOLEAN : ReadRequest(d, e, c, waived)
    \/ WriteRequest(d)

TransferDetailView(d) ==
    \/ \E t \in DOMAIN transfers :
          ReadRecommend(d, t) \/ ReadRejection(d, t) \/ ReadExecute(d, t)
    \/ WriteRecommend(d)
    \/ WriteRejection(d)
    \/ StartExecute(d)
    \/ WriteExecute(d)

TransferNext ==
    \/ \E d \in Desks :
          \/ PaymentNewView(d)
          \/ LeaveAction(d)
          \/ TransferNewView(d)
          \/ TransferDetailView(d)
          \/ DropForm(d)
    \/ \E e \in DOMAIN seats : Refund(e) \/ RecordAttendance(e) \/ ApproveClaim(e)
    \/ \E c \in Cohorts : RejectCohort(c)

TransferSpec == TransferInit /\ [][TransferNext]_transferVars

-----------------------------------------------------------------------------
(* Properties. *)

ExecutedFrom(e) == \E t \in DOMAIN transfers : transfers[t].from = e /\ transfers[t].to # 0

Refunded(e) == \E i \in DOMAIN rows : rows[i].enrolment = e /\ rows[i].why = "refund"

(***************************************************************************)
(* Money is moved, neither made nor lost: what the allocations of a        *)
(* receipt come to is the receipt less what was refunded of it, unless a   *)
(* refund came before the move, or a transfer was executed twice.          *)
(***************************************************************************)
RefundedOf(r) == {i \in DOMAIN rows : rows[i].receipt = r /\ rows[i].why = "refund"}

MoneyStays ==
    \/ \E e \in DOMAIN seats : ExecutedFrom(e) /\ Refunded(e)
    \/ <<"execute", "execute">> \in outdated
    \/ \A r \in DOMAIN receipts :
           Allocated({i \in DOMAIN rows : rows[i].receipt = r})
               = receipts[r] - Cardinality(RefundedOf(r))

(***************************************************************************)
(* An enrolment moved away from has collected nothing and is owed nothing, *)
(* unless a payment was on its way when the transfer was executed, or it   *)
(* was executed twice.                                                     *)
(***************************************************************************)
SourceEmptied ==
    outdated \cap ({"pay", "execute"} \X {"execute"}) = {} =>
        \A e \in DOMAIN seats : ExecutedFrom(e) => Collected(e) = 0 /\ LinesOf(e) = {}

(***************************************************************************)
(* A participant sits in one course at a time: of the enrolments transfers *)
(* made one from the other, one at most is live, unless a transfer was     *)
(* executed twice.                                                         *)
(***************************************************************************)
OneSeat ==
    <<"execute", "execute">> \notin outdated =>
        Cardinality({e \in DOMAIN seats : seats[e].status = "LIVE"}) <= 1

(***************************************************************************)
(* A first move leaves tuition at the price of the new course, whether it  *)
(* was dearer or cheaper, unless the transfer was executed twice.          *)
(***************************************************************************)
TuitionOf(e) == Gross({l \in LinesOf(e) : lines[l].type # "REGISTRATION"})

PricedAtFirst ==
    <<"execute", "execute">> \notin outdated =>
        \A t \in DOMAIN transfers :
            transfers[t].from = 1 /\ transfers[t].to # 0 =>
                LinesOf(transfers[t].to) = {}
                    \/ TuitionOf(transfers[t].to) = Price[transfers[t].cohort]

(***************************************************************************)
(* A partner gives a share back once, even where a transfer is executed    *)
(* twice: the code of the obligation is unique.  Two transfers from one    *)
(* enrolment are the exception: requested at once, or one of them          *)
(* rejected and brought back by a decision that had not seen it.           *)
(***************************************************************************)
RecoveredOnce ==
    outdated \cap ({<<"request", "request">>} \cup ({"recommend", "execute"} \X {"reject"})) = {} =>
        \A e \in DOMAIN seats :
            Cardinality({o \in DOMAIN owed : owed[o].enrolment = e /\ owed[o].transfer # 0}) <= 1

(***************************************************************************)
(* What was decided stays decided: an executed transfer stays so with its  *)
(* new enrolment, and a rejected one is never executed, unless two         *)
(* requests decided on it at once.                                         *)
(***************************************************************************)
Decided(t) == transfers[t].status \in {"EXECUTED", "REJECTED"}

DecisionStands ==
    [][outdated' \cap (Decisions \X Decisions) = {} =>
           \A t \in DOMAIN transfers : Decided(t) => transfers'[t] = transfers[t]]_<<transfers, outdated>>

(***************************************************************************)
(* A transfer moves a person with what was paid and what is owed, whole    *)
(* and once (_execute): the money, the seat, the partner's share, and a    *)
(* price that is the new course's.                                         *)
(***************************************************************************)
MovedWhole == MoneyStays /\ SourceEmptied /\ OneSeat /\ RecoveredOnce /\ PricedAtFirst
=============================================================================
