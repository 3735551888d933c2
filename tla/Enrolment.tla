----------------------------- MODULE Enrolment -----------------------------
(***************************************************************************)
(* The life of one enrolment and the two doors it goes through: approval,  *)
(* which stands on a payment, and the clearance form with the certificate  *)
(* it releases (enrollment_service, clearance_service, certificate_service *)
(* and special_case_service of apps/operations/services), with the daily   *)
(* sweep that marks those behind on payment.  Voiding a receipt reaches    *)
(* into both, so it is here too, with a ledger in which a receipt is one   *)
(* unit of money on one charge line; Account has the real one.             *)
(*                                                                         *)
(* A request that saves an enrolment, a clearance or a certificate it      *)
(* loaded before its guards is two steps of a session; a first signature   *)
(* is three, for it loads the finance step once more before it saves it.   *)
(* The others write nothing their guards depend on and are one step.  Who  *)
(* may ask is left out, deposits too, and so is the daily closing among    *)
(* the reasons to refuse a void.                                           *)
(***************************************************************************)
EXTENDS Integers, FiniteSets, SequencesExt

CONSTANTS
    Tuition,          \* units of money the price list asks
    Sessions,         \* web requests in flight at one time
    MaxReceipts, MaxLines, MaxClearances, MaxCertificates,   \* bounds on rows
    MaxRaces          \* bound on raced: from there on, one request at a time

ASSUME ConstantsAssumption ==
    /\ Tuition \in Nat \ {0}
    /\ {MaxReceipts, MaxLines, MaxClearances, MaxCertificates, MaxRaces} \subseteq Nat

VARIABLES
    status,       \* status of the enrolment
    voucher,      \* voucher_received
    lines,        \* billing_chargeline of the enrolment
    oldDebt,      \* an opening balance not posted yet: unsettled_debt_for
    receipts,     \* cashbox_receipt with its allocation and its void record
    clearances,   \* operations_clearance with its steps
    certificates, \* operations_certificate
    req,          \* what each session has read and is about to write
    raced         \* history: what was written from reads another commit had outdated

money == <<lines, oldDebt, receipts>>
papers == <<clearances, certificates>>
vars == <<status, voucher, money, papers, req, raced>>

Final == {"COMPLETED", "WITHDRAWN", "DISMISSED", "CANCELLED"}

Sweepable == {"ACTIVE", "PAYMENT_OVERDUE"}

Statuses == {"PENDING_FINANCE"} \cup Sweepable \cup Final

Line == [type : {"OPENING_BALANCE", "TUITION", "EXTRA_FEE"}, due : Nat \ {0}, voided : BOOLEAN]

(***************************************************************************)
(* line 0: money no line was owed for.  returned: how often a credit       *)
(* return handed the unit back.  void: the state of the void request.      *)
(***************************************************************************)
Receipt == [line : Nat, returned : Nat, void : {"none", "pending", "rejected", "approved"}]

Cases == {"GRADUATION", "WITHDRAWAL", "DISMISSAL"}

FormStatuses == {"OPEN", "IN_PROGRESS", "BLOCKED", "COMPLETED", "CANCELLED"}

(***************************************************************************)
(* custody, finance and handed are the three steps: finance is signed once *)
(* (certified_by), then twice (is_done).                                   *)
(***************************************************************************)
Clearance == [case    : Cases,
              status  : FormStatuses,
              custody : BOOLEAN,
              finance : {"none", "certified", "done"},
              handed  : BOOLEAN]

(***************************************************************************)
(* clearance 0: a replacement, of the certificate it names, for a fee.     *)
(***************************************************************************)
Certificate == [clearance : Nat, replaces : Nat, fee : Nat,
                status : {"ISSUED", "DELIVERED", "REPLACED"}]

StatusOps == {"approve", "complete", "withdraw", "dismiss", "cancel_registration",
              "sweep"}

FormOps == {"custody", "certify", "second_certify", "block", "close", "cancel"}

PaperOps == {"issue", "issue_replacement", "handover"}

Ops == StatusOps \cup FormOps \cup PaperOps \cup {"open", "approve_void"}

Races == {"status", "money", "form", "step", "certificate"}

Request == [op : Ops \cup {"idle"}, on : Nat, with : Nat, from : Sweepable \cup FormStatuses \cup {""},
            to : Statuses \cup Cases \cup {"certified", "done", ""}, overtaken : SUBSET Races]

Idle == [op |-> "idle", on |-> 0, with |-> 0, from |-> "", to |-> "", overtaken |-> {}]

TypeOK ==
    /\ status \in Statuses
    /\ voucher \in BOOLEAN
    /\ lines \in Seq(Line)
    /\ oldDebt \in BOOLEAN
    /\ receipts \in Seq(Receipt)
    /\ \A r \in DOMAIN receipts : receipts[r].line \in DOMAIN lines \cup {0}
    /\ clearances \in Seq(Clearance)
    /\ certificates \in Seq(Certificate)
    /\ \A k \in DOMAIN certificates :
          /\ certificates[k].clearance \in DOMAIN clearances \cup {0}
          /\ certificates[k].replaces \in 0 .. k - 1
          /\ certificates[k].clearance # 0 <=> certificates[k].replaces = 0
    /\ req \in [Sessions -> Request]
    /\ raced \in SUBSET Races

-----------------------------------------------------------------------------
(* The account of the enrolment. *)

Issued == {r \in DOMAIN receipts : receipts[r].void # "approved"}

Worth(r) == 1 - receipts[r].returned

TotalDue == SumFunction([l \in DOMAIN lines |-> IF lines[l].voided THEN 0 ELSE lines[l].due])

TotalPaid == SumFunctionOnSet([r \in DOMAIN receipts |-> Worth(r)], Issued)

Balance == TotalDue - TotalPaid

Outstanding(l) == lines[l].due - Cardinality({r \in Issued : receipts[r].line = l})

Owed == {l \in DOMAIN lines : ~lines[l].voided /\ Outstanding(l) > 0}

Rank == [OPENING_BALANCE |-> 1, TUITION |-> 2, EXTRA_FEE |-> 3]

Precedes(l, m) ==
    LET a == Rank[lines[l].type]  b == Rank[lines[m].type]
    IN  a < b \/ (a = b /\ l <= m)

(***************************************************************************)
(* allocate(), for one unit: the first line owed, in ALLOCATION_ORDER.     *)
(***************************************************************************)
Allocate == IF Owed = {} THEN 0 ELSE CHOOSE l \in Owed : \A m \in Owed : Precedes(l, m)

PendingVoid == \E r \in Issued : receipts[r].void = "pending"

-----------------------------------------------------------------------------
(* Requests. *)

Free(s) == req[s] = Idle

Serving(s, op) == req[s].op = op

(***************************************************************************)
(* What the commit of request a takes away from under request b: the       *)
(* status it will write over, the money it found paid, the clearance, its  *)
(* finance step or the certificates it read.                               *)
(***************************************************************************)
Standing == {"approve", "certify", "second_certify", "block", "close", "issue",
             "issue_replacement"}

Outdates(a, b) ==
    {race \in Races :
        CASE race = "status" ->
                /\ a.op \in StatusOps \/ (a.op = "approve_void" /\ a.to # "")
                /\ b.op \in StatusOps \cup {"approve_void", "open"}
          [] race = "money" ->
                \/ a.op = "approve_void" /\ b.op \in Standing \cup {"approve_void"}
                \/ a.op \in Standing /\ b.op = "approve_void"
          [] race = "form" ->
                /\ a.op \in FormOps \cup {"open"}
                /\ \/ b.op \in FormOps /\ b.on = a.on
                   \/ b.op \in {"issue", "approve_void", "open"}
          [] race = "step" ->
                /\ a.op = "second_certify"
                /\ b.op = "certify" /\ b.on = a.on /\ b.to = "certified"
          [] race = "certificate" ->
                {a.op, b.op} = {"issue"} \/ {a.op, b.op} \subseteq {"issue_replacement", "handover"}}

(***************************************************************************)
(* Two requests in flight that cannot outdate one another might as well    *)
(* follow one another: only the others overlap here.                       *)
(***************************************************************************)
MayOverlap(a, b) ==
    /\ Cardinality(raced) < MaxRaces
    /\ Outdates(a, b) \cup Outdates(b, a) # {}

BeginWith(s, op, on, with, from, to) ==
    LET new == [Idle EXCEPT !.op = op, !.on = on, !.with = with, !.from = from, !.to = to]
    IN  /\ Free(s)
        /\ \A t \in Sessions : Free(t) \/ MayOverlap(new, req[t])
        /\ req' = [req EXCEPT ![s] = new]
        /\ UNCHANGED <<status, voucher, money, papers, raced>>

Begin(s, op, on, from) == BeginWith(s, op, on, 0, from, "")

Finish(s) ==
    /\ req' = [t \in Sessions |->
                  IF t = s THEN Idle
                  ELSE [req[t] EXCEPT !.overtaken = @ \cup Outdates(req[s], req[t])]]
    /\ raced' = raced \cup req[s].overtaken

Outdated(s, race) == race \in req[s].overtaken

(***************************************************************************)
(* A refusal, a failed constraint or a lost connection: nothing is kept.   *)
(***************************************************************************)
Rollback(s) ==
    /\ ~Free(s)
    /\ req' = [req EXCEPT ![s] = Idle]
    /\ UNCHANGED <<status, voucher, money, papers, raced>>

-----------------------------------------------------------------------------
(* Money in, charges, old debts. *)

Quiet == UNCHANGED <<req, raced>>

TakePayment ==
    /\ Len(receipts) < MaxReceipts
    /\ receipts' = Append(receipts, [line |-> Allocate, returned |-> 0, void |-> "none"])
    /\ Quiet
    /\ UNCHANGED <<status, voucher, lines, oldDebt, papers>>

NewLine(type) == [type |-> type, due |-> 1, voided |-> FALSE]

ChargeExtraFee ==
    /\ Len(lines) < MaxLines
    /\ lines' = Append(lines, NewLine("EXTRA_FEE"))
    /\ Quiet
    /\ UNCHANGED <<status, voucher, oldDebt, receipts, papers>>

(***************************************************************************)
(* An opening balance comes to light, and is posted on the enrolment       *)
(* (OpeningBalance has both).                                              *)
(***************************************************************************)
FindOldDebt ==
    /\ ~oldDebt
    /\ Len(lines) < MaxLines
    /\ oldDebt' = TRUE
    /\ Quiet
    /\ UNCHANGED <<status, voucher, lines, receipts, papers>>

PostOldDebt ==
    /\ oldDebt
    /\ Len(lines) < MaxLines
    /\ oldDebt' = FALSE
    /\ lines' = Append(lines, NewLine("OPENING_BALANCE"))
    /\ Quiet
    /\ UNCHANGED <<status, voucher, receipts, papers>>

CreditRows == {r \in Issued : receipts[r].line = 0}

(***************************************************************************)
(* return_credit, from the page of refunds: the whole credit, against the  *)
(* first rows that no line was owed for, whatever was handed back of them  *)
(* before.  Account has its steps; here it only outdates a void.           *)
(***************************************************************************)
ReturnCredit ==
    /\ Balance < 0
    /\ \E back \in kSubset(-Balance, CreditRows) :
          /\ \A r \in back, later \in CreditRows \ back : r < later
          /\ receipts' = [r \in DOMAIN receipts |->
                             [receipts[r] EXCEPT !.returned = IF r \in back THEN @ + 1 ELSE @]]
    /\ req' = [s \in Sessions |->
                  IF Serving(s, "approve_void")
                  THEN [req[s] EXCEPT !.overtaken = @ \cup {"money"}]
                  ELSE req[s]]
    /\ UNCHANGED <<status, voucher, lines, oldDebt, papers, raced>>

(***************************************************************************)
(* The same, from the form of a clearance.                                 *)
(***************************************************************************)
ReturnCreditAtClearance(c) ==
    /\ clearances[c].custody
    /\ clearances[c].finance # "done"
    /\ ReturnCredit

-----------------------------------------------------------------------------
(* Voids: asked for, then rejected, or approved unless something was built *)
(* on the money.                                                           *)

MarkVoid(r, from, to) ==
    /\ receipts[r].void = from
    /\ receipts' = [receipts EXCEPT ![r].void = to]
    /\ Quiet
    /\ UNCHANGED <<status, voucher, lines, oldDebt, papers>>

RequestVoid(r) == MarkVoid(r, "none", "pending")

RejectVoid(r) == MarkVoid(r, "pending", "none")

Live == {c \in DOMAIN clearances : clearances[c].status # "CANCELLED"}

VoidBlockedByCompleted ==
    \/ certificates # <<>>
    \/ \E c \in Live : clearances[c].status = "COMPLETED"

VoidBlocked ==
    \/ certificates # <<>>
    \/ \E c \in Live : clearances[c].finance # "none" \/ clearances[c].status = "COMPLETED"

(***************************************************************************)
(* void_consequences: the enrolment that would be left with nothing paid.  *)
(***************************************************************************)
Reverts(r) == status \in Sweepable /\ TotalPaid - Worth(r) <= 0 /\ TotalDue > 0

ReadApproveVoid(s, r) ==
    /\ receipts[r].void = "pending"
    /\ ~VoidBlocked
    /\ BeginWith(s, "approve_void", r, 0, "", IF Reverts(r) THEN "PENDING_FINANCE" ELSE "")

WriteApproveVoid(s) ==
    /\ Serving(s, "approve_void")
    /\ receipts[req[s].on].void # "none"    \* rejected meanwhile: a CHECK refuses both
    /\ receipts' = [receipts EXCEPT ![req[s].on].void = "approved"]
    /\ status' = IF req[s].to = "" THEN status ELSE req[s].to
    /\ Finish(s)
    /\ UNCHANGED <<voucher, lines, oldDebt, papers>>

-----------------------------------------------------------------------------
(* The enrolment. *)

RecordVoucher ==
    /\ ~voucher /\ status \notin Final
    /\ voucher' = TRUE
    /\ Quiet
    /\ UNCHANGED <<status, money, papers>>

ReadStatusAnywhere(s, op, to) ==
    /\ status # to
    /\ BeginWith(s, op, 0, 0, "", to)

(***************************************************************************)
(* record_status_change: no move to the same status, none out of a final   *)
(* one, judged on the instance loaded.                                     *)
(***************************************************************************)
ReadStatus(s, op, to) ==
    /\ status \notin Final \cup {to}
    /\ BeginWith(s, op, 0, 0, "", to)

RequireFirstPayment == ~PendingVoid /\ ~(Balance > 0 /\ TotalPaid = 0)

ReadApprove(s) ==
    /\ voucher
    /\ RequireFirstPayment
    /\ ReadStatus(s, "approve", "ACTIVE")

Exit == [complete |-> "COMPLETED", withdraw |-> "WITHDRAWN", dismiss |-> "DISMISSED"]

Leavable == status = "ACTIVE"

ReadLeave(s, op) ==
    /\ Leavable
    /\ ReadStatus(s, op, Exit[op])

ReadCancelRegistration(s) ==
    /\ status = "PENDING_FINANCE"
    /\ ReadStatus(s, "cancel_registration", "CANCELLED")

MoveStatus(s) ==
    /\ status' = req[s].to
    /\ Finish(s)
    /\ UNCHANGED <<voucher, oldDebt, receipts, papers>>

WriteApprove(s) ==
    /\ Serving(s, "approve")
    /\ MoveStatus(s)
    /\ UNCHANGED lines

WriteLeave(s) ==
    /\ req[s].op \in DOMAIN Exit
    /\ MoveStatus(s)
    /\ UNCHANGED lines

WriteCancelRegistration(s) ==
    /\ Serving(s, "cancel_registration")
    /\ lines' = [l \in DOMAIN lines |-> [lines[l] EXCEPT !.voided = TRUE]]
    /\ MoveStatus(s)

(***************************************************************************)
(* run_daily: an enrolment loaded as ACTIVE that owes, and has not paid    *)
(* for long enough, is marked; one loaded as PAYMENT_OVERDUE that no       *)
(* longer is goes back.  How long ago it paid is left open.                *)
(***************************************************************************)
ReadSweep(s) ==
    /\ status \in Sweepable
    /\ BeginWith(s, "sweep", 0, 0, status, "")

PaymentOverdue == {late \in BOOLEAN : late => Balance > 0}

WriteSweep(s) ==
    /\ Serving(s, "sweep")
    /\ \E late \in PaymentOverdue :
          /\ req[s].from = (IF late THEN "ACTIVE" ELSE "PAYMENT_OVERDUE")
          /\ status' = IF late THEN "PAYMENT_OVERDUE" ELSE "ACTIVE"
    /\ Finish(s)
    /\ UNCHANGED <<voucher, money, papers>>

-----------------------------------------------------------------------------
(* The clearance form.  Steps are read afresh, the status of the form is   *)
(* the one loaded with it (req.from).                                      *)

CaseForStatus == [COMPLETED |-> "GRADUATION", WITHDRAWN |-> "WITHDRAWAL", DISMISSED |-> "DISMISSAL"]

ReadOpen(s) ==
    /\ status \in DOMAIN CaseForStatus
    /\ Live = {}
    /\ Len(clearances) < MaxClearances
    /\ BeginWith(s, "open", 0, 0, "", CaseForStatus[status])

WriteOpen(s) ==
    /\ Serving(s, "open")
    /\ Live = {}
    /\ clearances' = Append(clearances, [case |-> req[s].to, status |-> "OPEN", custody |-> FALSE,
                                         finance |-> "none", handed |-> FALSE])
    /\ Finish(s)
    /\ UNCHANGED <<status, voucher, money, certificates>>

ReadForm(s, op, c) == Begin(s, op, c, clearances[c].status)

(***************************************************************************)
(* Saving a clearance with a status: the unique key on live clearances     *)
(* refuses a second one.                                                   *)
(***************************************************************************)
SaveForm(s, row) ==
    /\ row.status # "CANCELLED" => Live \subseteq {req[s].on}
    /\ clearances' = [clearances EXCEPT ![req[s].on] = row]
    /\ Finish(s)
    /\ UNCHANGED <<status, voucher, money, certificates>>

Moved(s, from, to) == IF req[s].from = from THEN to ELSE clearances[req[s].on].status

(***************************************************************************)
(* A refused signature parks the form, in a transaction of its own.        *)
(***************************************************************************)
ReadBlock(s, c) ==
    /\ clearances[c].status # "BLOCKED"
    /\ ReadForm(s, "block", c)

WriteBlock(s) ==
    /\ Serving(s, "block")
    /\ SaveForm(s, [clearances[req[s].on] EXCEPT !.status = "BLOCKED"])

(***************************************************************************)
(* A second list of returned property changes nothing kept here.           *)
(***************************************************************************)
ReadCustody(s, c) ==
    /\ ~clearances[c].custody
    /\ ReadForm(s, "custody", c)

WriteCustody(s) ==
    /\ Serving(s, "custody")
    /\ SaveForm(s, [clearances[req[s].on] EXCEPT !.custody = TRUE,
                                                 !.status = Moved(s, "OPEN", "IN_PROGRESS")])

Certifiable == ~oldDebt /\ Balance = 0

ReadCertify(s, c) ==
    /\ clearances[c].custody
    /\ ~PendingVoid
    /\ IF Certifiable THEN ReadForm(s, "certify", c) ELSE ReadBlock(s, c)

(***************************************************************************)
(* The step is loaded in the transaction and saved with all its columns,   *)
(* is_done among them.                                                     *)
(***************************************************************************)
LoadCertify(s) ==
    LET done == clearances[req[s].on].finance = "done"
    IN  /\ Serving(s, "certify") /\ req[s].to = ""
        /\ req' = [req EXCEPT ![s].to = IF done THEN "done" ELSE "certified"]
        /\ UNCHANGED <<status, voucher, money, papers, raced>>

WriteCertify(s) ==
    /\ Serving(s, "certify") /\ req[s].to # ""
    /\ SaveForm(s, [clearances[req[s].on] EXCEPT
                       !.finance = req[s].to,
                       !.status = Moved(s, "BLOCKED", "IN_PROGRESS")])

ReadSecondCertify(s, c) ==
    /\ clearances[c].finance = "certified"
    /\ IF Balance = 0 THEN ReadForm(s, "second_certify", c) ELSE ReadBlock(s, c)

WriteSecondCertify(s) ==
    /\ Serving(s, "second_certify")
    /\ SaveForm(s, [clearances[req[s].on] EXCEPT !.finance = "done"])

StepsDoneButHandover(c) == clearances[c].custody /\ clearances[c].finance = "done"

StepsDone(c) ==
    /\ clearances[c].custody
    /\ clearances[c].finance = "done"
    /\ clearances[c].case = "GRADUATION" => clearances[c].handed

ReadClose(s, c) ==
    /\ StepsDone(c)
    /\ IF Balance = 0 THEN ReadForm(s, "close", c) ELSE ReadBlock(s, c)

WriteClose(s) ==
    /\ Serving(s, "close")
    /\ SaveForm(s, [clearances[req[s].on] EXCEPT !.status = "COMPLETED"])

ReadCancel(s, c) ==
    /\ clearances[c].status # "COMPLETED"
    /\ ReadForm(s, "cancel", c)

WriteCancel(s) ==
    /\ Serving(s, "cancel")
    /\ SaveForm(s, [clearances[req[s].on] EXCEPT !.status = "CANCELLED"])

-----------------------------------------------------------------------------
(* The certificate: issued between steps 2 and 3, handed over by step 3,   *)
(* replaced when lost.                                                     *)

Originals == {k \in DOMAIN certificates : certificates[k].replaces = 0}

CertificateReady(c) ==
    /\ clearances[c].case = "GRADUATION"
    /\ clearances[c].status \notin {"BLOCKED", "CANCELLED"}
    /\ clearances[c].custody
    /\ clearances[c].finance = "done"

(***************************************************************************)
(* The choices of the form: no enrolment with an original is offered.      *)
(***************************************************************************)
Issuable == Originals = {} /\ \E c \in Live : CertificateReady(c)

ReadIssue(s) ==
    /\ Issuable
    /\ Balance = 0
    /\ \E c \in Live : CertificateReady(c) /\ Begin(s, "issue", c, "")

PaperOfClearance(clearance, replaces, fee) ==
    [clearance |-> Max({clearance} \cup {certificates[k].clearance : k \in {replaces} \ {0}}),
     replaces |-> replaces, fee |-> fee, status |-> "ISSUED"]

Paper(clearance, replaces, fee) ==
    [clearance |-> clearance, replaces |-> replaces, fee |-> fee, status |-> "ISSUED"]

WriteIssue(s) ==
    /\ Serving(s, "issue")
    /\ Len(certificates) < MaxCertificates
    /\ certificates' = Append(certificates, Paper(req[s].on, 0, 0))
    /\ Finish(s)
    /\ UNCHANGED <<status, voucher, money, clearances>>

(***************************************************************************)
(* An extra fee collected in full that paid for no replacement yet.        *)
(***************************************************************************)
CollectedFees ==
    {l \in DOMAIN lines : /\ lines[l].type = "EXTRA_FEE" /\ ~lines[l].voided
                          /\ \A k \in DOMAIN certificates : certificates[k].fee # l
                          /\ Outstanding(l) <= 0}

ReadReplacement(s, k) ==
    /\ certificates[k].status # "REPLACED"
    /\ CollectedFees # {}
    /\ BeginWith(s, "issue_replacement", k, Min(CollectedFees), "", "")

WriteReplacement(s) ==
    LET k == req[s].on
    IN  /\ Serving(s, "issue_replacement")
        /\ Len(certificates) < MaxCertificates
        /\ certificates' = Append([certificates EXCEPT ![k].status = "REPLACED"],
                                  Paper(0, k, req[s].with))
        /\ Finish(s)
        /\ UNCHANGED <<status, voucher, money, clearances>>

ReadHandover(s, c) ==
    /\ clearances[c].case = "GRADUATION"
    /\ clearances[c].finance = "done"
    /\ \E k \in Originals : /\ certificates[k].clearance = c
                             /\ certificates[k].status = "ISSUED"
                             /\ BeginWith(s, "handover", c, k, "", "")

Delivered(k) == [certificates EXCEPT ![k].status = "DELIVERED"]

WriteHandover(s) ==
    /\ Serving(s, "handover")
    /\ clearances' = [clearances EXCEPT ![req[s].on].handed = TRUE]
    /\ certificates' = Delivered(req[s].with)
    /\ Finish(s)
    /\ UNCHANGED <<status, voucher, money>>

-----------------------------------------------------------------------------

Init ==
    /\ status = "PENDING_FINANCE"
    /\ voucher = FALSE
    /\ lines = <<[type |-> "TUITION", due |-> Tuition, voided |-> FALSE]>>
    /\ oldDebt = FALSE
    /\ receipts = <<>>
    /\ clearances = <<>>
    /\ certificates = <<>>
    /\ req = [s \in Sessions |-> Idle]
    /\ raced = {}

(***************************************************************************)
(* The screens, each with the requests it can make, and the daily command. *)
(***************************************************************************)
EnrollmentActionView(s) ==
    \/ ReadApprove(s)
    \/ WriteApprove(s)
    \/ \E op \in DOMAIN Exit : ReadLeave(s, op)
    \/ WriteLeave(s)
    \/ ReadCancelRegistration(s)
    \/ WriteCancelRegistration(s)

RunDaily(s) == ReadSweep(s) \/ WriteSweep(s)

HandleVoid(s) ==
    \/ \E r \in DOMAIN receipts : ReadApproveVoid(s, r)
    \/ WriteApproveVoid(s)

ClearancesView(s) == ReadOpen(s) \/ WriteOpen(s)

ClearanceDetailView(s) ==
    \/ \E c \in DOMAIN clearances :
        \/ ReadCustody(s, c)
        \/ ReadCertify(s, c)
        \/ ReadSecondCertify(s, c)
        \/ ReadHandover(s, c)
        \/ ReadClose(s, c)
        \/ ReadCancel(s, c)
    \/ WriteCustody(s)
    \/ LoadCertify(s)
    \/ WriteCertify(s)
    \/ WriteSecondCertify(s)
    \/ WriteBlock(s)
    \/ WriteHandover(s)
    \/ WriteClose(s)
    \/ WriteCancel(s)

CertificatesView(s) ==
    \/ ReadIssue(s)
    \/ WriteIssue(s)
    \/ \E k \in DOMAIN certificates : ReadReplacement(s, k)
    \/ WriteReplacement(s)

Next ==
    \/ TakePayment
    \/ ChargeExtraFee
    \/ FindOldDebt
    \/ PostOldDebt
    \/ RecordVoucher
    \/ ReturnCredit
    \/ \E c \in DOMAIN clearances : ReturnCreditAtClearance(c)
    \/ \E r \in DOMAIN receipts : RequestVoid(r) \/ RejectVoid(r)
    \/ \E s \in Sessions :
        \/ EnrollmentActionView(s)
        \/ RunDaily(s)
        \/ HandleVoid(s)
        \/ ClearancesView(s)
        \/ ClearanceDetailView(s)
        \/ CertificatesView(s)
        \/ Rollback(s)

Spec == Init /\ [][Next]_vars

(***************************************************************************)
(* approve_enrollment and void_consequences: an enrolment runs on money or *)
(* owes nothing, however payments were voided since, unless the approval   *)
(* or a void was written over another (two voids at one time each see the  *)
(* other's payment and leave the enrolment running on nothing), or one     *)
(* payment was handed back twice: a sum below zero passes the approval.    *)
(***************************************************************************)
ActiveOnMoney ==
    \/ raced \cap {"status", "money"} # {}
    \/ \E r \in DOMAIN receipts : receipts[r].returned > 1
    \/ status \in Sweepable => TotalPaid > 0 \/ Balance <= 0

(***************************************************************************)
(* No return from a final status (WORKFLOWS 1.2), unless the request read  *)
(* the enrolment before it became final.                                   *)
(***************************************************************************)
FinalStaysFinal ==
    [][status' # status /\ status \in Final
          => \E s \in Sessions : Outdated(s, "status") /\ req'[s] = Idle]_vars

(***************************************************************************)
(* A certificate means the course was completed (BR-075): the case of the  *)
(* clearance, fixed when it was opened, still tells the status.            *)
(***************************************************************************)
CertificateMeansCompleted ==
    \/ "status" \in raced
    \/ certificates # <<>> => status = "COMPLETED"

(***************************************************************************)
(* Money a certificate or a signed clearance stands on is not taken back:  *)
(* what the course costs stays paid, through voids, credit returns and     *)
(* cancelled clearances, unless a void and a signature, a certificate or   *)
(* another void were written over one another (money), one status over     *)
(* another (an approval over a cancellation leaves nothing to pay), or a   *)
(* form over another request's (a step saved late revives a cancelled      *)
(* form, with its signature and after a void of its money).                *)
(***************************************************************************)
CertifiedMoneyStands ==
    \/ raced \cap {"status", "money", "form"} # {}
    \/ certificates # <<>>
        \/ (\E c \in Live : /\ clearances[c].finance # "none"
                            /\ clearances[c].status # "BLOCKED")
        => TotalPaid >= Tuition

(***************************************************************************)
(* A completed clearance went through its steps in order (BR-072): custody *)
(* and two signatures, and a graduate's certificate left the centre,       *)
(* unless a first signature was saved over the second one.                 *)
(***************************************************************************)
CompletedInOrder ==
    \/ "step" \in raced
    \/ \A c \in DOMAIN clearances : clearances[c].status = "COMPLETED" =>
           /\ clearances[c].custody /\ clearances[c].finance = "done"
           /\ clearances[c].case = "GRADUATION" =>
                 \E k \in Originals : /\ certificates[k].clearance = c
                                      /\ certificates[k].status # "ISSUED"

(***************************************************************************)
(* One certificate of the course is in force: the original or the last     *)
(* replacement, unless two requests issued, replaced or delivered it at    *)
(* one time.                                                               *)
(***************************************************************************)
OneCertificateInForce ==
    \/ "certificate" \in raced
    \/ Cardinality({k \in DOMAIN certificates : certificates[k].status # "REPLACED"}) <= 1

(***************************************************************************)
(* Whoever takes the course, is certified for it or signed off stands on   *)
(* money that stays (void_consequences, certify_finance_step).             *)
(***************************************************************************)
StandsOnMoney == ActiveOnMoney /\ CertifiedMoneyStands

(***************************************************************************)
(* The papers tell what happened: a certificate means a completed course   *)
(* and is the only one in force, a completed clearance went through its    *)
(* steps (open_clearance, close_clearance, issue_certificate).             *)
(***************************************************************************)
PapersTellTruth == CertificateMeansCompleted /\ CompletedInOrder /\ OneCertificateInForce

=============================================================================
