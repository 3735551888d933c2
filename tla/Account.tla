------------------------------ MODULE Account ------------------------------
(***************************************************************************)
(* The ledger of one enrolment and everything that moves its money: charge *)
(* lines, receipts and their allocation, voids, credit returns, refunds,   *)
(* deposits and discounts (apps/billing/services, and allocate and         *)
(* approve_void of apps/cashbox/services/payment_service.py).              *)
(*                                                                         *)
(* A request is two or three steps of a session: Read... evaluates the     *)
(* guards, before any transaction; Spread..., where there is one, takes    *)
(* what the transaction reads without a lock; Write... commits.  Who may   *)
(* ask and who must sign is left out (Till and OpeningBalance have the     *)
(* hands), and so are financial periods, the status of the enrolment, and  *)
(* the reasons outside the ledger to refuse a void.                        *)
(***************************************************************************)
EXTENDS Integers, FiniteSets, Functions, SequencesExt, Listing

CONSTANTS
    Quote,          \* the charge lines the enrolment starts with
    FirstMinimum,   \* what the first payment must reach, 0 where there is no rule
    Payments,       \* amounts people pay
    Fees,           \* charge lines added later: extra fees, posted old debts
    Discounts,      \* amounts of discount granted
    OldCredit,      \* the historical credit that may be applied to the enrolment
    Refunds,        \* amounts asked back
    Deductions,     \* what is withheld from a returned deposit
    Years,          \* numbering partitions of receipts, no numbers themselves
    Sessions,       \* web requests in flight at one time
    MaxMovements    \* bound on the rows written besides allocations and the quote

(***************************************************************************)
(* ALLOCATION_ORDER: what a payment satisfies first.                       *)
(***************************************************************************)
AllocationOrder ==
    <<"OPENING_BALANCE", "REGISTRATION", "CONSUMABLES", "DEPOSIT", "TUITION", "EXTRA_FEE",
      "TRANSFER_DIFFERENCE">>

ChargeTypes == ToSet(AllocationOrder)

ChargeLine == [type : ChargeTypes, gross : Nat \ {0}, shareable : BOOLEAN]

ASSUME ConstantsAssumption ==
    /\ Quote \in Seq(ChargeLine)
    /\ Fees \subseteq ChargeLine
    /\ Payments \cup Discounts \cup Refunds \subseteq Nat \ {0}
    /\ Deductions \subseteq Nat
    /\ {FirstMinimum, OldCredit} \subseteq Nat
    /\ MaxMovements \in Nat

VARIABLES
    charges,    \* billing_chargeline, in order of date and key
    receipts,   \* cashbox_receipt
    rows,       \* cashbox_paymentallocation
    discounts,  \* billing_discount, the amounts
    carried,    \* the sum of the opening credits APPLIED to the enrolment
    returns,    \* billing_creditreturn, the amounts
    refunds,    \* billing_refund
    deposits,   \* billing_depositreturn and billing_depositforfeiture
    req,        \* what each session has read and is about to write
    raced       \* history: <<op, by>> where op committed after by had outdated its reads

vars == <<charges, receipts, rows, discounts, carried, returns, refunds, deposits, req, raced>>

(***************************************************************************)
(* line 0 stands for a NULL charge_line: money received that no line was   *)
(* owed for.  why tells apart what the code tells apart by text alone.     *)
(***************************************************************************)
Allocation == [receipt  : Nat \ {0},
               line     : Nat,
               amount   : Int \ {0},
               why      : {"payment", "void", "return", "refund"},
               reversed : BOOLEAN]

Receipt == [amount : Nat \ {0}, year : Years, status : {"ISSUED", "VOIDED"}]

Refund == [amount : Nat \ {0}, status : {"REQUESTED", "APPROVED", "REJECTED", "EXECUTED"}]

Settlement == [line : Nat \ {0}, kind : {"return", "forfeiture"}, amount : Nat, deduction : Nat]

Decisions == {"approve_refund", "reject_refund", "execute_refund"}

Settling == {"return_deposit", "forfeit_deposit"}

Ops == {"take_payment", "approve_void", "return_credit", "request_refund", "charge",
        "grant_discount", "carry_forward"} \cup Decisions \cup Settling

(***************************************************************************)
(* A request in flight: the row it is about (of a payment, the year of the *)
(* receipt), its amount (and what a deposit is returned less), what its    *)
(* transaction is going to allocate to which line, or reverse of which     *)
(* allocation, once it has read (spread), and the operations that          *)
(* committed since its guards.                                             *)
(***************************************************************************)
IsRequest(q) ==
    /\ q.op \in Ops \cup {"idle"}
    /\ q.on \in Nat \cup Years
    /\ {q.amount, q.less} \subseteq Nat
    /\ DOMAIN q.shares \subseteq Nat /\ \A i \in DOMAIN q.shares : q.shares[i] \in Int \ {0}
    /\ q.spread \in BOOLEAN
    /\ q.overtaken \in SUBSET Ops

Idle == [op |-> "idle", on |-> 0, amount |-> 0, less |-> 0, shares |-> <<>>, spread |-> FALSE,
         overtaken |-> {}]

TypeOK ==
    /\ charges \in Seq(ChargeLine)
    /\ receipts \in Seq(Receipt)
    /\ rows \in Seq(Allocation)
    /\ \A i \in DOMAIN rows : /\ rows[i].receipt \in DOMAIN receipts
                              /\ rows[i].line \in DOMAIN charges \cup {0}
    /\ discounts \in Seq(Nat \ {0})
    /\ carried \in Nat
    /\ returns \in Seq(Nat \ {0})
    /\ refunds \in Seq(Refund)
    /\ deposits \in Seq(Settlement)
    /\ \A s \in Sessions : IsRequest(req[s])
    /\ raced \in SUBSET (Ops \X Ops)

-----------------------------------------------------------------------------
(* The balance equation (account_service). *)

Issued == {r \in DOMAIN receipts : receipts[r].status = "ISSUED"}

LiveRows == {i \in DOMAIN rows : rows[i].receipt \in Issued}

SumRows(I) == SumFunctionOnSet([i \in DOMAIN rows |-> rows[i].amount], I)

Total(seq) == SumFunction(seq)

TotalDue == SumFunction([l \in DOMAIN charges |-> charges[l].gross])

TotalPaid == SumRows(LiveRows)

Balance == TotalDue - Total(discounts) - TotalPaid - carried

UnallocatedCredit == SumRows({i \in LiveRows : rows[i].line = 0})

Allocated(l) == SumRows({i \in LiveRows : rows[i].line = l})

Outstanding(l) == charges[l].gross - Allocated(l)

(***************************************************************************)
(* Spreading an amount over items, each up to its size: what it leaves to  *)
(* an item is what the sizes of the items before it leave of it.           *)
(***************************************************************************)
Portion(amount, sizes, before, x) ==
    Max({0, Min({sizes[x], amount - SumFunctionOnSet(sizes, before)})})

Remainder(amount, sizes) == Max({0, amount - SumFunction(sizes)})

(***************************************************************************)
(* Where money on a line stands in the allocation order, money on no line  *)
(* coming last.                                                            *)
(***************************************************************************)
Place(l) ==
    IF l = 0 THEN Len(AllocationOrder) + 1
    ELSE CHOOSE k \in DOMAIN AllocationOrder : AllocationOrder[k] = charges[l].type

Before(k, l) == Place(k) < Place(l) \/ (Place(k) = Place(l) /\ k < l)

-----------------------------------------------------------------------------
(* Requests. *)

Room ==
    Len(charges) - Len(Quote) + Len(receipts) + Len(returns) + Len(refunds) + Len(deposits)
        + Len(discounts) + Min({1, carried}) < MaxMovements

Free(s) == req[s] = Idle

Serving(s, op) == req[s].op = op

BeginLess(s, op, on, amount, less) ==
    /\ Free(s)
    /\ req' = [req EXCEPT ![s] =
                  [Idle EXCEPT !.op = op, !.on = on, !.amount = amount, !.less = less]]
    /\ UNCHANGED <<charges, receipts, rows, discounts, carried, returns, refunds, deposits, raced>>

Begin(s, op, on, amount) == BeginLess(s, op, on, amount, 0)

Take(s, shares) ==
    /\ ~req[s].spread
    /\ req' = [req EXCEPT ![s].shares = shares, ![s].spread = TRUE]
    /\ UNCHANGED <<charges, receipts, rows, discounts, carried, returns, refunds, deposits, raced>>

(***************************************************************************)
(* The overtakings the properties speak of: of the operation on the left   *)
(* by the one on the right.                                                *)
(***************************************************************************)
HandingBack == {"return_credit", "execute_refund"}

VoidRaces ==
    UNION {{<<"approve_void", "approve_void">>}, HandingBack \X {"approve_void"},
           {"approve_void"} \X HandingBack}

Watched ==
    UNION {{"take_payment"} \X {"take_payment"}, Settling \X Settling, Decisions \X Decisions,
           VoidRaces, {"return_credit"} \X Ops}

Overtakes(op, t) ==
    IF <<req[t].op, op>> \in Watched THEN [req[t] EXCEPT !.overtaken = @ \cup {op}] ELSE req[t]

Remembered ==
    UNION {{"take_payment"} \X {"take_payment"}, Settling \X Settling,
           Decisions \X {"execute_refund"}, VoidRaces}

Finish(s) ==
    /\ req' = [t \in Sessions |-> IF t = s THEN Idle ELSE Overtakes(req[s].op, t)]
    /\ raced' = raced \cup (({req[s].op} \X req[s].overtaken) \cap Remembered)

AtOnce(op) ==
    /\ req' = [t \in Sessions |-> Overtakes(op, t)]
    /\ UNCHANGED raced

(***************************************************************************)
(* A refusal, a failed constraint or a lost connection: nothing is kept.   *)
(***************************************************************************)
Rollback(s) ==
    /\ ~Free(s)
    /\ req' = [req EXCEPT ![s] = Idle]
    /\ UNCHANGED <<charges, receipts, rows, discounts, carried, returns, refunds, deposits, raced>>

-----------------------------------------------------------------------------
(* Payments. *)

IsFirstPayment == LiveRows = {}

ReadPayment(s, y, amount) ==
    /\ Room
    /\ IsFirstPayment => amount >= FirstMinimum
    /\ Begin(s, "take_payment", y, amount)

SequenceFreeUnlocked(y) == TRUE

(***************************************************************************)
(* next_number keeps the sequence row of the year locked until the commit: *)
(* receipts of one year are allocated one after the other.                 *)
(***************************************************************************)
SequenceFree(y) ==
    \A t \in Sessions : ~(Serving(t, "take_payment") /\ req[t].on = y /\ req[t].spread)

Owed == {l \in DOMAIN charges : Outstanding(l) > 0}

PaidTo(l, amount) ==
    LET sizes == [k \in Owed |-> Outstanding(k)]
    IN  IF l = 0 THEN Remainder(amount, sizes)
        ELSE Portion(amount, sizes, {k \in Owed : Before(k, l)}, l)

AllocateAlwaysRest(amount) ==
    [l \in {k \in Owed : PaidTo(k, amount) > 0} \cup {0} |-> PaidTo(l, amount)]

Allocate(amount) ==
    [l \in {k \in Owed \cup {0} : PaidTo(k, amount) > 0} |-> PaidTo(l, amount)]

(***************************************************************************)
(* allocate refuses a receipt its parts do not come to.                    *)
(***************************************************************************)
SpreadPayment(s) ==
    LET shares == Allocate(req[s].amount)
    IN  /\ Serving(s, "take_payment")
        /\ SequenceFree(req[s].on)
        /\ SumFunction(shares) = req[s].amount
        /\ Take(s, shares)

(***************************************************************************)
(* The rows the shares of a request become, those of the receipt about to  *)
(* be issued and those that reverse others.  Their order says nothing:     *)
(* what is handed back first goes by type, receipt and line.               *)
(***************************************************************************)
PaymentRows(shares) ==
    LET at == Ascending(DOMAIN shares)
    IN  [k \in DOMAIN at |->
            [receipt |-> Len(receipts) + 1, line |-> at[k], amount |-> shares[at[k]],
             why |-> "payment", reversed |-> FALSE]]

Reversals(shares, why) ==
    LET at == Ascending(DOMAIN shares)
    IN  [k \in DOMAIN at |->
            [receipt |-> rows[at[k]].receipt, line |-> rows[at[k]].line, amount |-> shares[at[k]],
             why |-> why, reversed |-> FALSE]]

WritePayment(s) ==
    /\ Serving(s, "take_payment") /\ req[s].spread
    /\ Room
    /\ receipts' = Append(receipts,
                          [amount |-> req[s].amount, year |-> req[s].on, status |-> "ISSUED"])
    /\ rows' = rows \o PaymentRows(req[s].shares)
    /\ Finish(s)
    /\ UNCHANGED <<charges, discounts, carried, returns, refunds, deposits>>

-----------------------------------------------------------------------------
(* Voids: every allocation of the receipt not reversed yet is mirrored.    *)

ReadApproveVoid(s, r) ==
    /\ r \in Issued
    /\ Begin(s, "approve_void", r, 0)

MirroredPositive(r) ==
    {i \in DOMAIN rows : rows[i].receipt = r /\ ~rows[i].reversed /\ rows[i].amount > 0}

Mirrored(r) == {i \in DOMAIN rows : rows[i].receipt = r /\ ~rows[i].reversed}

(***************************************************************************)
(* The transaction begins with the list of them, and locks none: money     *)
(* handed back until then is on it, and later money is not.                *)
(***************************************************************************)
SpreadApproveVoid(s) ==
    /\ Serving(s, "approve_void") /\ ~req[s].spread
    /\ req' = [req EXCEPT ![s].shares = [i \in Mirrored(req[s].on) |-> -rows[i].amount],
                          ![s].spread = TRUE,
                          ![s].overtaken = @ \ HandingBack]
    /\ UNCHANGED <<charges, receipts, rows, discounts, carried, returns, refunds, deposits, raced>>

WriteApproveVoid(s) ==
    LET r == req[s].on
        mirror == req[s].shares
    IN  /\ Serving(s, "approve_void") /\ req[s].spread
        /\ receipts' = [receipts EXCEPT ![r].status = "VOIDED"]
        /\ rows' = [i \in DOMAIN rows |-> [rows[i] EXCEPT !.reversed = @ \/ i \in DOMAIN mirror]]
                   \o Reversals(mirror, "void")
        /\ Finish(s)
        /\ UNCHANGED <<charges, discounts, carried, returns, refunds, deposits>>

-----------------------------------------------------------------------------
(* Handing money back: reversing allocations against rows that received it. *)

Received == {i \in LiveRows : rows[i].amount > 0}

HandBack(amount, items, First(_, _)) ==
    LET sizes == [i \in items |-> rows[i].amount]
        back(i) == Portion(amount, sizes, {j \in items : First(j, i)}, i)
    IN  [i \in {j \in items : back(j) > 0} |-> -back(i)]

Covered(amount, shares) == SumFunction(shares) = -amount

OutstandingCreditRows == Max({0, UnallocatedCredit})

(***************************************************************************)
(* Credit returns.  The amount is the whole credit balance.                *)
(***************************************************************************)
OutstandingCredit == Max({0, -Balance})

CreditableRow == OutstandingCredit > 0

ReadReturnCredit(s) ==
    /\ Room
    /\ CreditableRow
    /\ Begin(s, "return_credit", 0, OutstandingCredit)

CreditRows == {i \in Received : rows[i].line = 0}

Earlier(j, i) == rows[j].receipt < rows[i].receipt

SpreadReturnCredit(s) ==
    /\ Serving(s, "return_credit")
    /\ Take(s, HandBack(req[s].amount, CreditRows, Earlier))

WriteReturnCredit(s) ==
    /\ Serving(s, "return_credit") /\ req[s].spread
    /\ Room
    /\ Covered(req[s].amount, req[s].shares)
    /\ returns' = Append(returns, req[s].amount)
    /\ rows' = rows \o Reversals(req[s].shares, "return")
    /\ Finish(s)
    /\ UNCHANGED <<charges, receipts, discounts, carried, refunds, deposits>>

(***************************************************************************)
(* Refunds: requested, decided by another, executed.  Execution unwinds    *)
(* the allocations in the reverse of the order that made them (BR-022).    *)
(***************************************************************************)
Refundable == Max({0, TotalPaid})

RefundableRow == Refundable > 0

(***************************************************************************)
(* A FULL refund asks for whatever the form's row says was paid.           *)
(***************************************************************************)
FullAmount == Refundable

ReadRequestRefund(s, amount) ==
    /\ Room
    /\ amount <= Refundable
    /\ Begin(s, "request_refund", 0, amount)

WriteRequestRefund(s) ==
    /\ Serving(s, "request_refund")
    /\ Room
    /\ refunds' = Append(refunds, [amount |-> req[s].amount, status |-> "REQUESTED"])
    /\ Finish(s)
    /\ UNCHANGED <<charges, receipts, rows, discounts, carried, returns, deposits>>

ReadDecideRefund(s, op, f) ==
    /\ refunds[f].status = "REQUESTED"
    /\ Begin(s, op, f, refunds[f].amount)

WriteDecideRefund(s, op, status) ==
    /\ Serving(s, op)
    /\ refunds' = [refunds EXCEPT ![req[s].on].status = status]
    /\ Finish(s)
    /\ UNCHANGED <<charges, receipts, rows, discounts, carried, returns, deposits>>

WriteApproveRefund(s) == WriteDecideRefund(s, "approve_refund", "APPROVED")

WriteRejectRefund(s) == WriteDecideRefund(s, "reject_refund", "REJECTED")

Executable(f) == refunds[f].status = "APPROVED"

ReadExecuteRefund(s, f) ==
    /\ Executable(f)
    /\ refunds[f].amount <= Refundable
    /\ Begin(s, "execute_refund", f, refunds[f].amount)

(***************************************************************************)
(* Of one type, the allocation made last.                                  *)
(***************************************************************************)
ReversalOrder(j, i) ==
    LET p == Place(rows[j].line)
        q == Place(rows[i].line)
    IN  \/ p > q
        \/ p = q /\ rows[j].receipt > rows[i].receipt
        \/ p = q /\ rows[j].receipt = rows[i].receipt /\ rows[j].line > rows[i].line

SpreadExecuteRefund(s) ==
    /\ Serving(s, "execute_refund")
    /\ Take(s, HandBack(req[s].amount, Received, ReversalOrder))

WriteExecuteRefund(s) ==
    /\ Serving(s, "execute_refund") /\ req[s].spread
    /\ Covered(req[s].amount, req[s].shares)
    /\ rows' = rows \o Reversals(req[s].shares, "refund")
    /\ refunds' = [refunds EXCEPT ![req[s].on].status = "EXECUTED"]
    /\ Finish(s)
    /\ UNCHANGED <<charges, receipts, discounts, carried, returns, deposits>>

-----------------------------------------------------------------------------
(* Deposits: returned, or forfeited into revenue; neither touches the      *)
(* allocations.  The policy's own reasons to refuse are left out.          *)

DepositLines == {l \in DOMAIN charges : charges[l].type = "DEPOSIT"}

SettledAmount(l) ==
    SumFunctionOnSet([d \in DOMAIN deposits |-> deposits[d].amount + deposits[d].deduction],
                     {d \in DOMAIN deposits : deposits[d].line = l})

(***************************************************************************)
(* The guard both operations share: something was collected on the first   *)
(* deposit line, and nothing of it is settled.                             *)
(***************************************************************************)
Settleable(l) ==
    /\ l = Min(DepositLines)
    /\ Allocated(l) > 0
    /\ SettledAmount(l) = 0

ReadReturnDeposit(s, l, deduction) ==
    /\ Room
    /\ Settleable(l)
    /\ deduction < Allocated(l)
    /\ BeginLess(s, "return_deposit", l, Allocated(l) - deduction, deduction)

WriteReturnDeposit(s) ==
    /\ Room
    /\ Serving(s, "return_deposit")
    /\ deposits' = Append(deposits, [line |-> req[s].on, kind |-> "return",
                                     amount |-> req[s].amount, deduction |-> req[s].less])
    /\ Finish(s)
    /\ UNCHANGED <<charges, receipts, rows, discounts, carried, returns, refunds>>

ReadForfeitDeposit(s, l) ==
    /\ Settleable(l)
    /\ Room
    /\ Begin(s, "forfeit_deposit", l, Allocated(l))

WriteForfeitDeposit(s) ==
    /\ Serving(s, "forfeit_deposit")
    /\ Room
    /\ charges' = Append(charges, [type |-> "EXTRA_FEE", gross |-> req[s].amount,
                                   shareable |-> FALSE])
    /\ deposits' = Append(deposits, [line |-> req[s].on, kind |-> "forfeiture",
                                     amount |-> req[s].amount, deduction |-> 0])
    /\ Finish(s)
    /\ UNCHANGED <<receipts, rows, discounts, carried, returns, refunds>>

-----------------------------------------------------------------------------
(* Charges, discounts, and historical credits. *)

Charge(line) ==
    /\ Room
    /\ charges' = Append(charges, line)
    /\ AtOnce("charge")
    /\ UNCHANGED <<receipts, rows, discounts, carried, returns, refunds, deposits>>

TuitionLines == {l \in DOMAIN charges : charges[l].type = "TUITION"}

TuitionBase == SumFunctionOnSet([l \in DOMAIN charges |-> charges[l].gross], TuitionLines)

HasShareableAllocations ==
    \E i \in LiveRows : /\ rows[i].amount > 0 /\ rows[i].line # 0
                       /\ charges[rows[i].line].shareable

(***************************************************************************)
(* The form offers the enrolment before the service asks the same again.   *)
(***************************************************************************)
DiscountableRow == TuitionBase > 0 /\ ~HasShareableAllocations

ReadGrantDiscount(s, amount) ==
    /\ Room
    /\ DiscountableRow
    /\ amount <= TuitionBase
    /\ Begin(s, "grant_discount", 0, amount)

WriteGrantDiscount(s) ==
    /\ Serving(s, "grant_discount")
    /\ Room
    /\ discounts' = Append(discounts, req[s].amount)
    /\ Finish(s)
    /\ UNCHANGED <<charges, receipts, rows, carried, returns, refunds, deposits>>

(***************************************************************************)
(* The opening balance of the participant is APPLIED to this enrolment     *)
(* (OpeningBalance has what leads to it).                                  *)
(***************************************************************************)
CarryForward ==
    /\ Room
    /\ carried = 0 /\ OldCredit > 0
    /\ carried' = OldCredit
    /\ AtOnce("carry_forward")
    /\ UNCHANGED <<charges, receipts, rows, discounts, returns, refunds, deposits>>

-----------------------------------------------------------------------------

Init ==
    /\ charges = Quote
    /\ receipts = <<>>
    /\ rows = <<>>
    /\ discounts = <<>>
    /\ carried = 0
    /\ returns = <<>>
    /\ refunds = <<>>
    /\ deposits = <<>>
    /\ req = [s \in Sessions |-> Idle]
    /\ raced = {}

(***************************************************************************)
(* The screens, each with the requests it can make.                        *)
(***************************************************************************)
PaymentNewView(s) ==
    \/ \E y \in Years, a \in Payments : ReadPayment(s, y, a)
    \/ SpreadPayment(s)
    \/ WritePayment(s)

HandleVoid(s) ==
    \/ \E r \in DOMAIN receipts : ReadApproveVoid(s, r)
    \/ SpreadApproveVoid(s)
    \/ WriteApproveVoid(s)

HandleRefund(s) ==
    \/ /\ RefundableRow
       /\ \E a \in Refunds \cup {FullAmount} : ReadRequestRefund(s, a)
    \/ WriteRequestRefund(s)
    \/ ReadReturnCredit(s)
    \/ SpreadReturnCredit(s)
    \/ WriteReturnCredit(s)

RefundTransition(s) ==
    \/ \E f \in DOMAIN refunds :
        \/ ReadDecideRefund(s, "approve_refund", f)
        \/ ReadDecideRefund(s, "reject_refund", f)
        \/ ReadExecuteRefund(s, f)
    \/ WriteApproveRefund(s)
    \/ WriteRejectRefund(s)
    \/ SpreadExecuteRefund(s)
    \/ WriteExecuteRefund(s)

SettleDeposit(s) ==
    \/ \E l \in DepositLines :
        \/ \E d \in Deductions : ReadReturnDeposit(s, l, d)
        \/ ReadForfeitDeposit(s, l)
    \/ WriteReturnDeposit(s)
    \/ WriteForfeitDeposit(s)

DiscountsView(s) ==
    \/ \E a \in Discounts : ReadGrantDiscount(s, a)
    \/ WriteGrantDiscount(s)

ExtraFeesView == \E line \in Fees : Charge(line)

Next ==
    \/ \E s \in Sessions :
        \/ PaymentNewView(s)
        \/ HandleVoid(s)
        \/ HandleRefund(s)
        \/ RefundTransition(s)
        \/ SettleDeposit(s)
        \/ DiscountsView(s)
        \/ Rollback(s)
    \/ ExtraFeesView
    \/ CarryForward

Spec == Init /\ [][Next]_vars

(***************************************************************************)
(* What the receipts in force brought in, and what the refunds executed    *)
(* and the credit returns handed out again.                                *)
(***************************************************************************)
Collected(R) == SumFunctionOnSet([r \in DOMAIN receipts |-> receipts[r].amount], R)

Executed == {f \in DOMAIN refunds : refunds[f].status = "EXECUTED"}

PaidOut ==
    Total(returns) + SumFunctionOnSet([f \in DOMAIN refunds |-> refunds[f].amount], Executed)

HandBackVoided == \E i \in DOMAIN rows : /\ rows[i].why \in {"return", "refund"}
                                          /\ rows[i].receipt \notin Issued

Raced(pairs) == raced \cap pairs # {}

(***************************************************************************)
(* The paid column of the account is the money of the receipts in force    *)
(* less the money handed back, whatever way allocations, reversals and     *)
(* partial refunds took: unless a receipt was voided after part of it had  *)
(* been handed back (the void erases that too), or a decision on a refund  *)
(* was written over its execution.                                         *)
(***************************************************************************)
PaidIsCollected ==
    \/ HandBackVoided
    \/ Raced(Decisions \X {"execute_refund"})
    \/ TotalPaid = Collected(Issued) - PaidOut

(***************************************************************************)
(* No line is ever paid more than its gross amount (outstanding_for_line:  *)
(* "the reason a payment never over-allocates a line"), although allocate  *)
(* locks no line: it is the lock on the receipt numbers that keeps two     *)
(* payments apart, so only receipts of two years can race.  Refunds may    *)
(* leave a line below zero and a later payment make that up: voiding the   *)
(* receipt that gave back then lifts the line above its gross.             *)
(***************************************************************************)
NoOverAllocation ==
    \/ HandBackVoided
    \/ Raced({<<"take_payment", "take_payment">>}) /\ \E q, r \in DOMAIN receipts :
                                                         receipts[q].year # receipts[r].year
    \/ \A l \in DOMAIN charges : Allocated(l) <= charges[l].gross

(***************************************************************************)
(* A credit return leaves the account at zero, unless another request      *)
(* moved the account after the amount was read.                            *)
(***************************************************************************)
CreditReturnClears ==
    [][\A s \in Sessions :
          Serving(s, "return_credit") /\ returns' # returns /\ req'[s] = Idle
              => Balance' = 0 \/ req[s].overtaken # {}]_vars

(***************************************************************************)
(* A deposit is settled once: returned or forfeited, never both, never     *)
(* twice, unless two settlements were under way at the same time.          *)
(***************************************************************************)
DepositSettledOnce ==
    \/ Raced(Settling \X Settling)
    \/ \A c, d \in DOMAIN deposits : deposits[c].line = deposits[d].line => c = d

(***************************************************************************)
(* A refund rejected or executed stays so, unless the request that changes *)
(* it read the refund before that decision committed.                      *)
(***************************************************************************)
DecisionStands ==
    [][\A f \in DOMAIN refunds :
          refunds[f].status \in {"REJECTED", "EXECUTED"} /\ refunds'[f] # refunds[f]
              => \E s \in Sessions : req[s].on = f /\ req[s].overtaken \cap Decisions # {}]_vars

(***************************************************************************)
(* The allocations of a voided receipt cancel out, hand-backs included,    *)
(* unless some approval or hand-back was written after a void had          *)
(* committed behind its guards, or some void after a hand-back had         *)
(* committed behind its list.                                              *)
(***************************************************************************)
VoidUnwindsReceipt ==
    \/ Raced(VoidRaces)
    \/ \A r \in DOMAIN receipts \ Issued : SumRows({i \in DOMAIN rows : rows[i].receipt = r}) = 0

(***************************************************************************)
(* refund_service, line 133: a refund is "the mirror of allocation         *)
(* (BR-022)", the registration fee "the last thing given back": no line    *)
(* gives back more than was allocated to it.                               *)
(***************************************************************************)
RefundMirrorsAllocation == \A l \in DOMAIN charges : Allocated(l) >= 0

(***************************************************************************)
(* What the ledger sums to, line by line and as a whole (allocate,         *)
(* approve_void, _return_credit, _execute).                                *)
(***************************************************************************)
LedgerAddsUp == PaidIsCollected /\ NoOverAllocation

(***************************************************************************)
(* What was settled stays settled once: a deposit leaves one way, and a    *)
(* voided receipt leaves nothing behind (return_deposit, forfeit_deposit,  *)
(* approve_void).                                                          *)
(***************************************************************************)
SettlementsStand == DepositSettledOnce /\ VoidUnwindsReceipt

(***************************************************************************)
(* Money handed out: a credit return clears the account, a decision on a   *)
(* refund is not written over (_return_credit, _approve, _reject,          *)
(* _execute).                                                              *)
(***************************************************************************)
MovementsStand == CreditReturnClears /\ DecisionStands

=============================================================================
