------------------------------- MODULE Till -------------------------------
(***************************************************************************)
(* One cashier's day at the till: receipts, their void requests and the    *)
(* daily closing (apps/cashbox/services/payment_service.py and             *)
(* closing_service.py).                                                    *)
(*                                                                         *)
(* As everywhere in this code a request reads its rows and runs its guards *)
(* first (Read...) and opens its transaction afterwards (Write...).  What  *)
(* happens to the money of a receipt inside the participant's account is   *)
(* module Account.  The guard of the financial period (module              *)
(* OpeningBalance has it) and the clearances and certificates that block a *)
(* void are left out, so more requests pass here than in the code.         *)
(***************************************************************************)
EXTENDS Integers, FiniteSets, Functions

CONSTANTS
    Receipts,          \* primary keys of the day's receipts
    Amount,            \* Amount[r]: what receipt r is made out for
    Refs,              \* voucher numbers of the finance department
    Cashier,           \* the user whose day this is
    Clerks,            \* users who may take payments and ask for a void
    Deciders,          \* users who may approve or reject a void
    Signers,           \* users who may sign off a closing
    Gaps,              \* counted total minus system total, as people find it
    VouchersRequired,  \* the setting closing_requires_vouchers
    Sessions,          \* web requests in flight at one time
    None               \* SQL NULL

Users == Clerks \cup Deciders \cup Signers

ASSUME ConstantsAssumption ==
    /\ Amount \in [Receipts -> Nat \ {0}]
    /\ IsFiniteSet(Receipts)
    /\ Cashier \in Clerks
    /\ Gaps \subseteq Int
    /\ VouchersRequired \in BOOLEAN
    /\ None \notin Users \cup Refs \cup Receipts

VARIABLES
    receipt,       \* cashbox_receipt
    void,          \* cashbox_receiptvoid, one row per receipt at most
    closing,       \* the DailyClosing row of this cashier and day
    req,           \* what each session has read and is about to write
    raced          \* history: rows written from out-of-date reads

vars == <<receipt, void, closing, req, raced>>

Till == "closing"    \* names the closing row among the rows a request reads

OrNone(S) == S \cup {None}

ReceiptRow == [status : {"ABSENT", "ISSUED", "VOIDED"},
               ref    : OrNone(Refs),
               closed : BOOLEAN]

VoidRow == [requestedBy : OrNone(Users),
            approvedBy  : OrNone(Users),
            rejectedBy  : OrNone(Users)]

NoVoid == [requestedBy |-> None, approvedBy |-> None, rejectedBy |-> None]

(***************************************************************************)
(* counted is not a column: it remembers which receipts system_total was   *)
(* summed over.                                                            *)
(***************************************************************************)
ClosingRow == [status     : {"ABSENT", "OPEN", "VARIANCE_PENDING", "RECONCILED"},
               system     : Nat,
               variance   : Int,
               unvouched  : Nat,
               resolved   : BOOLEAN,
               approvedBy : OrNone(Users),
               counted    : SUBSET Receipts]

NoClosing == [status |-> "ABSENT", system |-> 0, variance |-> 0, unvouched |-> 0,
              resolved |-> FALSE, approvedBy |-> None, counted |-> {}]

Request == [op       : {"take_payment", "record_external_ref", "request_void", "approve_void",
                        "reject_void", "open_closing", "reconcile"},
            actor    : Users,
            receipt  : OrNone(Receipts),
            ref      : OrNone(Refs),
            again    : BOOLEAN,
            instance : ClosingRow,
            reads    : SUBSET (Receipts \cup {Till}),
            fresh    : BOOLEAN]

Idle == [op |-> "idle"]

Busy(s) == req[s] # Idle

Total(R) == SumFunctionOnSet(Amount, R)

Issued == {r \in Receipts : receipt[r].status = "ISSUED"}

Unvouched == {r \in Issued : receipt[r].ref = None}

-----------------------------------------------------------------------------
(* Slips: wrong versions of definitions below, each a bug somebody could    *)
(* have written.  The specification does not use them; they show that its   *)
(* properties can fail.                                                     *)

\* The database compares the approver with nobody.
VoidAdmittedUnchecked(v) == ~(v.approvedBy # None /\ v.rejectedBy # None)

\* The closing is not looked at again under its lock.
DayOpenUnchecked == TRUE

\* The unvouched receipts are counted down instead of counted again.
CountedDown(n) ==
    IF closing.status = "ABSENT" THEN closing
    ELSE [closing EXCEPT !.unvouched = @ - 1,
                         !.status = IF n = 0 /\ closing.variance = 0 THEN "OPEN" ELSE @]

\* The signed-off closing is attached to every receipt of the day.
AttachableAll == {r \in Receipts : receipt[r].status # "ABSENT"}

-----------------------------------------------------------------------------
(* The database's own rules. *)

VoidAdmitted(v) ==
    /\ v.approvedBy # None => v.approvedBy # v.requestedBy
    /\ v.rejectedBy # None => v.rejectedBy # v.requestedBy
    /\ v.approvedBy = None \/ v.rejectedBy = None

RefFree(r, x) == x = None \/ \A o \in Receipts \ {r} : receipt[o].ref # x

ClosingAdmitted(c) ==
    c.status = "RECONCILED" =>
        /\ c.approvedBy \notin {None, Cashier}
        /\ c.variance # 0 => c.resolved

-----------------------------------------------------------------------------
(* Requests. *)

Begin(s, q) ==
    /\ ~Busy(s)
    /\ req' = [req EXCEPT ![s] = q]
    /\ UNCHANGED <<receipt, void, closing, raced>>

Ask(op, u, reads) ==
    [op |-> op, actor |-> u, receipt |-> None, ref |-> None, again |-> FALSE,
     instance |-> NoClosing, reads |-> reads, fresh |-> TRUE]

About(op, u, r, reads) == [Ask(op, u, reads) EXCEPT !.receipt = r]

(***************************************************************************)
(* A commit ends the request, outdates every request that had read a row   *)
(* it wrote, and is remembered if it was itself out of date.               *)
(***************************************************************************)
Finish(s, written) ==
    /\ req' = [t \in Sessions |->
                 IF t = s THEN Idle
                 ELSE IF Busy(t) /\ req[t].reads \cap written # {}
                      THEN [req[t] EXCEPT !.fresh = FALSE]
                 ELSE req[t]]
    /\ raced' = IF req[s].fresh THEN raced ELSE raced \cup written

Rollback(s) ==
    /\ Busy(s)
    /\ req' = [req EXCEPT ![s] = Idle]
    /\ UNCHANGED <<receipt, void, closing, raced>>

-----------------------------------------------------------------------------
(* Taking a payment and completing its voucher number. *)

(***************************************************************************)
(* take_payment never asks whether the day is being closed.                *)
(***************************************************************************)
ReadPayment(s, x) ==
    Begin(s, [Ask("take_payment", Cashier, {}) EXCEPT !.ref = x])

WritePayment(s, r) ==
    /\ req[s].op = "take_payment"
    /\ receipt[r].status = "ABSENT"
    /\ RefFree(r, req[s].ref)
    /\ receipt' = [receipt EXCEPT ![r] = [status |-> "ISSUED", ref |-> req[s].ref,
                                          closed |-> FALSE]]
    /\ Finish(s, {r})
    /\ UNCHANGED <<void, closing>>

RefMissing(r) == receipt[r].status = "ISSUED" /\ receipt[r].ref = None

ReadRef(s, r, x) ==
    /\ RefMissing(r)
    /\ RefFree(r, x)
    /\ Begin(s, [About("record_external_ref", Cashier, r, {r}) EXCEPT !.ref = x])

DayOpen == closing.status # "RECONCILED"

(***************************************************************************)
(* The closing row is locked and read again inside the transaction; a day  *)
(* still open is recounted, and promoted once nothing is missing.          *)
(***************************************************************************)
Recounted(n) ==
    IF closing.status = "ABSENT" THEN closing
    ELSE [closing EXCEPT !.unvouched = n,
                         !.status = IF n = 0 /\ closing.variance = 0 THEN "OPEN" ELSE @]

WriteRef(s) ==
    LET r == req[s].receipt IN
    /\ req[s].op = "record_external_ref"
    /\ DayOpen
    /\ RefFree(r, req[s].ref)
    /\ receipt' = [receipt EXCEPT ![r].ref = req[s].ref]
    /\ closing' = Recounted(Cardinality(Unvouched \ {r}))
    /\ Finish(s, {r} \cup IF closing.status = "ABSENT" THEN {} ELSE {Till})
    /\ UNCHANGED void

-----------------------------------------------------------------------------
(* Voiding a receipt: one asks, another decides. *)

(***************************************************************************)
(* A first request inserts the row; one after a rejection resets every     *)
(* column of the row it has read.                                          *)
(***************************************************************************)
ReadVoidRequest(s, u, r) ==
    /\ receipt[r].status # "ABSENT"
    /\ void[r].approvedBy = None
    /\ void[r].requestedBy = None \/ void[r].rejectedBy # None
    /\ Begin(s, [About("request_void", u, r, {r}) EXCEPT !.again = void[r] # NoVoid])

WriteVoidRequest(s) ==
    LET r == req[s].receipt IN
    /\ req[s].op = "request_void"
    /\ req[s].again \/ void[r] = NoVoid
    /\ void' = [void EXCEPT ![r] = [NoVoid EXCEPT !.requestedBy = req[s].actor]]
    /\ Finish(s, {r})
    /\ UNCHANGED <<receipt, closing>>

Decidable(r, u) ==
    /\ void[r].requestedBy \notin {None, u}
    /\ void[r].approvedBy = None
    /\ void[r].rejectedBy = None

(***************************************************************************)
(* void_blockers: once the day's cash was counted the receipt stands.      *)
(***************************************************************************)
Voidable(r, u) == Decidable(r, u) /\ closing.status = "ABSENT"

ReadApproveVoid(s, u, r) ==
    /\ Voidable(r, u)
    /\ Begin(s, About("approve_void", u, r, {r, Till}))

MarkVoided(row) == [row EXCEPT !.status = "VOIDED"]

WriteApproveVoid(s) ==
    LET r == req[s].receipt
        v == [void[r] EXCEPT !.approvedBy = req[s].actor]
    IN  /\ req[s].op = "approve_void"
        /\ VoidAdmitted(v)
        /\ void' = [void EXCEPT ![r] = v]
        /\ receipt' = [receipt EXCEPT ![r] = MarkVoided(@)]
        /\ Finish(s, {r})
        /\ UNCHANGED closing

ReadRejectVoid(s, u, r) ==
    /\ Decidable(r, u)
    /\ Begin(s, About("reject_void", u, r, {r}))

WriteRejectVoid(s) ==
    LET r == req[s].receipt
        v == [void[r] EXCEPT !.rejectedBy = req[s].actor]
    IN  /\ req[s].op = "reject_void"
        /\ VoidAdmitted(v)
        /\ void' = [void EXCEPT ![r] = v]
        /\ Finish(s, {r})
        /\ UNCHANGED <<receipt, closing>>

-----------------------------------------------------------------------------
(* Closing the day. *)

(***************************************************************************)
(* The count is compared with the receipts as they are before the          *)
(* transaction; the row written is the one computed then.  Who opens the   *)
(* closing, or completes a voucher number, leaves no trace a guard reads.  *)
(***************************************************************************)
Count(gap) ==
    LET n     == Cardinality(Unvouched)
        clean == gap = 0 /\ (VouchersRequired => n = 0)
    IN  [NoClosing EXCEPT !.status = IF clean THEN "OPEN" ELSE "VARIANCE_PENDING",
                          !.system = Total(Issued), !.variance = gap,
                          !.unvouched = n, !.counted = Issued]

ReadOpenClosing(s, gap) ==
    /\ closing.status = "ABSENT"
    /\ Issued # {}
    /\ Begin(s, [Ask("open_closing", Cashier, Receipts \cup {Till}) EXCEPT !.instance = Count(gap)])

WriteOpenClosing(s) ==
    /\ req[s].op = "open_closing"
    /\ closing.status = "ABSENT"
    /\ closing' = req[s].instance
    /\ Finish(s, {Till})
    /\ UNCHANGED <<receipt, void>>

(***************************************************************************)
(* reconcile asks nothing of the status it finds.                          *)
(***************************************************************************)
MayReconcile(c, u, explained) ==
    /\ c.status # "ABSENT"
    /\ u # Cashier
    /\ c.variance # 0 => explained
    /\ c.unvouched # 0 /\ VouchersRequired => explained

ReadReconcile(s, u, explained) ==
    /\ MayReconcile(closing, u, explained)
    /\ Begin(s, [Ask("reconcile", u, {Till}) EXCEPT
                   !.instance = [closing EXCEPT !.status = "RECONCILED", !.approvedBy = u,
                                                !.resolved = explained]])

Attachable == {r \in Issued : ~receipt[r].closed}

(***************************************************************************)
(* The whole instance is saved, every column as it was read, and the       *)
(* day's receipts are attached as they are now.                            *)
(***************************************************************************)
WriteReconcile(s) ==
    LET attached == Attachable IN
    /\ req[s].op = "reconcile"
    /\ ClosingAdmitted(req[s].instance)
    /\ closing' = req[s].instance
    /\ receipt' = [r \in Receipts |->
                     IF r \in attached THEN [receipt[r] EXCEPT !.closed = TRUE] ELSE receipt[r]]
    /\ Finish(s, {Till} \cup attached)
    /\ UNCHANGED void

-----------------------------------------------------------------------------
Init ==
    /\ receipt = [r \in Receipts |-> [status |-> "ABSENT", ref |-> None, closed |-> FALSE]]
    /\ void = [r \in Receipts |-> NoVoid]
    /\ closing = NoClosing
    /\ req = [s \in Sessions |-> Idle]
    /\ raced = {}

(***************************************************************************)
(* The three screens.  A post to one of them is one of its actions, asked  *)
(* for by somebody the permission matrix lets ask; the service then reads, *)
(* and writes or gives up.                                                 *)
(***************************************************************************)
PaymentNewView(s) ==
    \/ \E x \in OrNone(Refs) : ReadPayment(s, x)
    \/ \E r \in Receipts : WritePayment(s, r)

ReceiptDetailView(s) ==
    \/ \E r \in Receipts :
         \/ \E x \in Refs : ReadRef(s, r, x)
         \/ \E u \in Clerks : ReadVoidRequest(s, u, r)
         \/ \E u \in Deciders : ReadApproveVoid(s, u, r) \/ ReadRejectVoid(s, u, r)
    \/ WriteRef(s)
    \/ WriteVoidRequest(s)
    \/ WriteApproveVoid(s)
    \/ WriteRejectVoid(s)

ClosingView(s) ==
    \/ \E gap \in Gaps : ReadOpenClosing(s, gap)
    \/ \E u \in Signers, explained \in BOOLEAN : ReadReconcile(s, u, explained)
    \/ WriteOpenClosing(s)
    \/ WriteReconcile(s)

Next == \E s \in Sessions :
    PaymentNewView(s) \/ ReceiptDetailView(s) \/ ClosingView(s) \/ Rollback(s)

Spec == Init /\ [][Next]_vars

-----------------------------------------------------------------------------
(* Properties. *)

(***************************************************************************)
(* Every variable has its type.                                            *)
(***************************************************************************)
TypeOK ==
    /\ receipt \in [Receipts -> ReceiptRow]
    /\ void \in [Receipts -> VoidRow]
    /\ closing \in ClosingRow
    /\ req \in [Sessions -> Request \cup {Idle}]
    /\ raced \subseteq Receipts \cup {Till}

(***************************************************************************)
(* D-18: whoever asks for a void never decides it, and a request is never  *)
(* both approved and rejected, also when a decision overlaps another or a  *)
(* renewed request.                                                        *)
(***************************************************************************)
VoidNeedsTwo ==
    \A r \in Receipts :
        /\ void[r].requestedBy # None =>
             void[r].requestedBy \notin {void[r].approvedBy, void[r].rejectedBy}
        /\ void[r].approvedBy = None \/ void[r].rejectedBy = None
        /\ receipt[r].status = "VOIDED" => void[r].requestedBy # None

(***************************************************************************)
(* A receipt is void exactly when somebody approved its void request; only *)
(* a write from an out-of-date read can part the two (approve_void,        *)
(* request_void after a rejection).                                        *)
(***************************************************************************)
VoidIsDecided ==
    \A r \in Receipts \ raced :
        receipt[r].status = "VOIDED" <=> void[r].approvedBy # None

(***************************************************************************)
(* void_blockers: a receipt whose cash has been counted into the day's     *)
(* total is not voided, unless the receipt, or the closing, was written by *)
(* a request whose read another commit had outdated: a void approved while *)
(* the day was being counted, a count taken before a void.                 *)
(***************************************************************************)
CountedReceiptStands ==
    Till \in raced \/ \A r \in closing.counted \ raced : receipt[r].status = "ISSUED"

(***************************************************************************)
(* BR-025: a voucher number once written is never changed, unless two      *)
(* requests completed the same receipt from the same empty read.           *)
(***************************************************************************)
RefWrittenOnce ==
    [][\A r \in Receipts \ raced' : receipt[r].ref # None => receipt'[r].ref = receipt[r].ref]_vars

(***************************************************************************)
(* BR-026, BR-027: a day that is signed off stays signed off, with the     *)
(* total it was counted at, whatever requests were in flight; a voucher    *)
(* number arriving late must not demote it to OPEN.                        *)
(***************************************************************************)
SignedOffForGood ==
    [][closing.status = "RECONCILED" =>
         /\ closing'.status = "RECONCILED"
         /\ closing'.system = closing.system
         /\ closing'.variance = closing.variance]_vars

(***************************************************************************)
(* BR-027, BR-028: no silent difference.  A day signed off without a       *)
(* written resolution had no variance and no receipt without a voucher on  *)
(* record, and whoever held the cash did not sign.                         *)
(***************************************************************************)
NoSilentDifference ==
    closing.status = "RECONCILED" =>
        /\ closing.approvedBy \notin {None, Cashier}
        /\ \/ closing.resolved
           \/ closing.variance = 0 /\ (VouchersRequired => closing.unvouched = 0)

(***************************************************************************)
(* Only issued receipts of a signed-off day are attached to its closing,   *)
(* unless the receipt was written from an outdated read.                   *)
(***************************************************************************)
AttachedAreIssued ==
    \A r \in Receipts :
        receipt[r].closed =>
            /\ closing.status = "RECONCILED"
            /\ r \notin raced => receipt[r].status = "ISSUED"

(***************************************************************************)
(* A void takes two people, in every order of requests, renewed requests   *)
(* and decisions, and is what was decided, but for outdated writes         *)
(* (request_void, approve_void, reject_void).                              *)
(***************************************************************************)
VoidsAreDecided == VoidNeedsTwo /\ VoidIsDecided

(***************************************************************************)
(* What a closing stands on: the counted receipts stand, a difference is   *)
(* explained by somebody who did not hold the cash, and what is attached   *)
(* to a signed-off day was issued, the first and the last but for outdated *)
(* writes (open_closing, reconcile).                                       *)
(***************************************************************************)
ClosingStands == CountedReceiptStands /\ NoSilentDifference /\ AttachedAreIssued

(***************************************************************************)
(* BR-025, BR-026: what was written for good stays, a voucher number on a  *)
(* receipt as well as the signed-off total of a day (record_external_ref,  *)
(* reconcile).                                                             *)
(***************************************************************************)
WrittenForGood == RefWrittenOnce /\ SignedOffForGood
=============================================================================
