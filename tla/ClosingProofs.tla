---------------------------- MODULE ClosingProofs ----------------------------
(***************************************************************************)
(* What is closed stays as it was signed off: theorems about the day of a  *)
(* cashier (Till) and about the financial periods (Periods), for all       *)
(* values of their constants.  The two components share no name: each half *)
(* of this module speaks of one specification.                             *)
(***************************************************************************)
EXTENDS Till, Periods, Sums, SequenceTheorems, TLAPS

-----------------------------------------------------------------------------
(* The day of a cashier. *)

AboutReceipt == {"record_external_ref", "request_void", "approve_void", "reject_void"}

(***************************************************************************)
(* A closing signed off by somebody who did not hold the cash, with what   *)
(* has to be explained explained.                                          *)
(***************************************************************************)
SignedOff(c) ==
    /\ c.approvedBy \notin {None, Cashier}
    /\ c.resolved \/ (c.variance = 0 /\ (VouchersRequired => c.unvouched = 0))

(***************************************************************************)
(* What stays true of a request however out of date its reads are: a void  *)
(* that was asked for stays asked for, and a day once counted keeps its    *)
(* count.                                                                  *)
(***************************************************************************)
Lasting(q) ==
    /\ q.op \in AboutReceipt => q.receipt \in Receipts /\ q.receipt \in q.reads
    /\ q.op = "record_external_ref" => receipt[q.receipt].status # "ABSENT"
    /\ q.op \in {"approve_void", "reject_void"} => void[q.receipt].requestedBy # None
    /\ q.op = "approve_void" => Till \in q.reads
    /\ q.op = "open_closing" =>
          /\ q.reads = Receipts \cup {Till}
          /\ q.instance.status \in {"OPEN", "VARIANCE_PENDING"}
    /\ q.op = "reconcile" =>
          /\ closing.status # "ABSENT"
          /\ q.instance.status = "RECONCILED" /\ SignedOff(q.instance)
          /\ q.instance.system = closing.system
          /\ q.instance.variance = closing.variance
          /\ q.instance.counted = closing.counted

(***************************************************************************)
(* What is true of a request as long as nobody has written a row it read.  *)
(***************************************************************************)
UpToDate(q) ==
    /\ q.op = "record_external_ref" => receipt[q.receipt].ref = None
    /\ q.op = "request_void" => void[q.receipt].approvedBy = None
    /\ q.op = "approve_void" => closing.status = "ABSENT"
    /\ q.op = "open_closing" => \A r \in q.instance.counted : receipt[r].status = "ISSUED"

(***************************************************************************)
(* Rows that are not there yet are empty.                                  *)
(***************************************************************************)
EmptyRows ==
    /\ \A r \in Receipts : receipt[r].status = "ABSENT" => receipt[r].ref = None
    /\ closing.status = "ABSENT" => closing.counted = {}

Requests ==
    \A s \in Sessions : Busy(s) => Lasting(req[s]) /\ (req[s].fresh => UpToDate(req[s]))

Inv ==
    /\ TypeOK /\ Requests /\ EmptyRows
    /\ VoidNeedsTwo /\ VoidIsDecided
    /\ CountedReceiptStands /\ NoSilentDifference /\ AttachedAreIssued

LEMMA TotalTyped ==
    ASSUME NEW S, IsFiniteSet(S), \A r \in S : Amount[r] \in Nat
    PROVE  Total(S) \in Nat
<1>1. SumFunctionOnSet(Amount, S) \in Nat
  BY SumOfNaturals
<1> QED
  BY <1>1 DEF Total

-----------------------------------------------------------------------------
(* Requests. *)

LEMMA BusyTyped ==
    ASSUME TypeOK, NEW s \in Sessions
    PROVE  /\ Busy(s) => req[s] \in Request
           /\ req[s].op # "idle" => Busy(s)
           /\ \A q \in Request : q # Idle
<1>1. \A q \in Request : q.op # "idle"
  BY DEF Request
<1>2. Idle.op = "idle"
  BY DEF Idle
<1> QED
  BY <1>1, <1>2 DEF TypeOK, Busy

(***************************************************************************)
(* What a commit leaves of the requests in flight.                         *)
(***************************************************************************)
LEMMA FinishTells ==
    ASSUME TypeOK, NEW s \in Sessions, NEW written \in SUBSET (Receipts \cup {Till}),
           Finish(s, written)
    PROVE  /\ req' \in [Sessions -> Request \cup {Idle}]
           /\ raced \subseteq raced' /\ raced' \subseteq Receipts \cup {Till}
           /\ req[s].fresh \/ written \subseteq raced'
           /\ \A t \in Sessions :
                 \/ req'[t] = Idle
                 \/ /\ req[t] \in Request
                    /\ req'[t].op = req[t].op /\ req'[t].receipt = req[t].receipt
                    /\ req'[t].reads = req[t].reads /\ req'[t].instance = req[t].instance
                    /\ req'[t].fresh => req[t].fresh /\ req[t].reads \cap written = {}
<1>1. \A q \in Request : [q EXCEPT !.fresh = FALSE] \in Request
  BY DEF Request
<1>2. req' = [t \in Sessions |->
                IF t = s THEN Idle
                ELSE IF Busy(t) /\ req[t].reads \cap written # {}
                     THEN [req[t] EXCEPT !.fresh = FALSE]
                ELSE req[t]]
  BY DEF Finish
<1>3. ASSUME NEW t \in Sessions
      PROVE  \/ req'[t] = Idle
             \/ /\ req[t] \in Request /\ req'[t] \in Request
                /\ req'[t].op = req[t].op /\ req'[t].receipt = req[t].receipt
                /\ req'[t].reads = req[t].reads /\ req'[t].instance = req[t].instance
                /\ req'[t].fresh => req[t].fresh /\ req[t].reads \cap written = {}
  <2>1. CASE t = s \/ req[t] = Idle
    BY <1>2, <2>1 DEF Busy
  <2>2. CASE t # s /\ req[t] # Idle
    <3>1. req[t] \in Request /\ Busy(t)
      BY <2>2 DEF TypeOK, Busy
    <3>2. CASE req[t].reads \cap written # {}
      <4>1. req'[t] = [req[t] EXCEPT !.fresh = FALSE]
        BY <1>2, <2>2, <3>1, <3>2
      <4> QED
        BY <1>1, <3>1, <4>1 DEF Request
    <3>3. CASE req[t].reads \cap written = {}
      BY <1>2, <2>2, <3>1, <3>3
    <3> QED
      BY <3>2, <3>3
  <2> QED
    BY <2>1, <2>2
<1>4. req' \in [Sessions -> Request \cup {Idle}]
  BY <1>2, <1>3
<1> QED
  BY <1>3, <1>4 DEF Finish, TypeOK

(***************************************************************************)
(* The requests in flight survive a commit that upsets only what it tells. *)
(***************************************************************************)
LEMMA CommitKeeps ==
    ASSUME TypeOK, Requests, NEW s \in Sessions,
           NEW written \in SUBSET (Receipts \cup {Till}), Finish(s, written),
           \A q \in Request : Lasting(q) => Lasting(q)',
           \A q \in Request :
               Lasting(q) /\ UpToDate(q) /\ q.reads \cap written = {} => UpToDate(q)'
    PROVE  Requests'
<1> SUFFICES ASSUME NEW t \in Sessions, Busy(t)'
             PROVE  Lasting(req[t])' /\ (req'[t].fresh => UpToDate(req[t])')
  BY DEF Requests
<1>1. /\ req[t] \in Request
      /\ req'[t].op = req[t].op /\ req'[t].receipt = req[t].receipt
      /\ req'[t].reads = req[t].reads /\ req'[t].instance = req[t].instance
      /\ req'[t].fresh => req[t].fresh /\ req[t].reads \cap written = {}
  BY FinishTells DEF Busy
<1>2. PICK q \in Request : q = req[t]
  BY <1>1
<1>3. Lasting(q) /\ (q.fresh => UpToDate(q))
  BY <1>2, BusyTyped DEF Requests, Busy
<1>4. Lasting(q)' /\ (req'[t].fresh => UpToDate(q)')
  BY <1>1, <1>2, <1>3
<1>5. Lasting(req[t])'
  BY <1>1, <1>2, <1>4 DEF Lasting
<1> QED
  BY <1>1, <1>2, <1>4, <1>5 DEF UpToDate

(***************************************************************************)
(* A request begins with what it has just read, and touches no row.        *)
(***************************************************************************)
LEMMA BeginKeeps ==
    ASSUME Inv, NEW s \in Sessions, NEW q \in Request, Lasting(q), UpToDate(q), Begin(s, q)
    PROVE  Inv'
<1>1. UNCHANGED <<receipt, void, closing, raced>> /\ req' = [req EXCEPT ![s] = q]
  BY DEF Begin
<1>2. TypeOK'
  BY <1>1 DEF Inv, TypeOK
<1>3. \A t \in Sessions : req'[t] = IF t = s THEN q ELSE req[t]
  BY <1>1 DEF Inv, TypeOK
<1>4. Requests'
  BY <1>1, <1>3 DEF Inv, Requests, Busy, Lasting, UpToDate
<1> QED
  BY <1>1, <1>2, <1>4
     DEF Inv, EmptyRows, VoidNeedsTwo, VoidIsDecided, CountedReceiptStands, NoSilentDifference,
         AttachedAreIssued

LEMMA RollbackKeeps ==
    ASSUME Inv, NEW s \in Sessions, Rollback(s)
    PROVE  Inv'
<1>1. UNCHANGED <<receipt, void, closing, raced>> /\ req' = [req EXCEPT ![s] = Idle]
  BY DEF Rollback
<1>2. TypeOK'
  BY <1>1 DEF Inv, TypeOK
<1>3. \A t \in Sessions : req'[t] = IF t = s THEN Idle ELSE req[t]
  BY <1>1 DEF Inv, TypeOK
<1>4. Requests'
  BY <1>1, <1>3 DEF Inv, Requests, Busy, Lasting, UpToDate
<1> QED
  BY <1>1, <1>2, <1>4
     DEF Inv, EmptyRows, VoidNeedsTwo, VoidIsDecided, CountedReceiptStands, NoSilentDifference,
         AttachedAreIssued

(***************************************************************************)
(* What is read is judged as it stands.                                    *)
(***************************************************************************)
LEMMA AskTyped ==
    ASSUME NEW u \in Users, NEW reads \in SUBSET (Receipts \cup {Till}),
           NEW op \in {"take_payment", "record_external_ref", "request_void", "approve_void",
                       "reject_void", "open_closing", "reconcile"}
    PROVE  Ask(op, u, reads) \in Request
  BY ConstantsAssumption DEF Ask, Request, NoClosing, ClosingRow, OrNone

LEMMA CountsAreNumbers ==
    ASSUME TypeOK
    PROVE  /\ Cardinality(Unvouched) \in Nat /\ Total(Issued) \in Nat
           /\ \A r \in Receipts : Cardinality(Unvouched \ {r}) \in Nat
<1>1. IsFiniteSet(Issued) /\ IsFiniteSet(Unvouched)
  BY ConstantsAssumption, FS_Subset DEF Issued, Unvouched
<1>2. \A r \in Receipts : IsFiniteSet(Unvouched \ {r})
  BY <1>1, FS_RemoveElement
<1>3. \A r \in Issued : Amount[r] \in Nat
  BY ConstantsAssumption DEF Issued
<1> QED
  BY <1>1, <1>2, <1>3, FS_CardinalityType, TotalTyped

LEMMA ReadsKeep ==
    ASSUME Inv, NEW s \in Sessions
    PROVE  /\ \A x \in OrNone(Refs) : ReadPayment(s, x) => Inv'
           /\ \A r \in Receipts, x \in Refs : ReadRef(s, r, x) => Inv'
           /\ \A r \in Receipts, u \in Clerks : ReadVoidRequest(s, u, r) => Inv'
           /\ \A r \in Receipts, u \in Deciders : ReadApproveVoid(s, u, r) => Inv'
           /\ \A r \in Receipts, u \in Deciders : ReadRejectVoid(s, u, r) => Inv'
           /\ \A gap \in Gaps : ReadOpenClosing(s, gap) => Inv'
           /\ \A u \in Signers, explained \in BOOLEAN : ReadReconcile(s, u, explained) => Inv'
<1> USE ConstantsAssumption
<1>1. ASSUME NEW x \in OrNone(Refs), ReadPayment(s, x) PROVE Inv'
  <2> DEFINE q == [Ask("take_payment", Cashier, {}) EXCEPT !.ref = x]
  <2>1. Ask("take_payment", Cashier, {}) \in Request
    BY AskTyped DEF Users
  <2>2. q \in Request /\ q.op = "take_payment"
    BY <2>1 DEF Ask, Request
  <2> QED
    BY <1>1, <2>2, BeginKeeps DEF ReadPayment, Lasting, UpToDate, AboutReceipt
<1>2. ASSUME NEW r \in Receipts, NEW x \in Refs, ReadRef(s, r, x) PROVE Inv'
  <2> DEFINE q == [About("record_external_ref", Cashier, r, {r}) EXCEPT !.ref = x]
  <2>1. Ask("record_external_ref", Cashier, {r}) \in Request
    BY AskTyped DEF Users
  <2>2. q \in Request /\ q.op = "record_external_ref" /\ q.receipt = r /\ q.reads = {r}
    BY <2>1 DEF About, Ask, Request, OrNone
  <2> QED
    BY <1>2, <2>2, BeginKeeps DEF ReadRef, RefMissing, Lasting, UpToDate, AboutReceipt
<1>3. ASSUME NEW r \in Receipts, NEW u \in Clerks, ReadVoidRequest(s, u, r) PROVE Inv'
  <2> DEFINE a == (void[r] # NoVoid)
             q == [About("request_void", u, r, {r}) EXCEPT !.again = a]
  <2>1. Ask("request_void", u, {r}) \in Request
    BY AskTyped DEF Users
  <2>2. a \in BOOLEAN
    OBVIOUS
  <2>3. Begin(s, q) /\ void[r].approvedBy = None
    BY <1>3 DEF ReadVoidRequest
  <2> HIDE DEF a
  <2>4. q \in Request /\ q.op = "request_void" /\ q.receipt = r /\ q.reads = {r}
    BY <2>1, <2>2 DEF About, Ask, Request, OrNone
  <2> QED
    BY <2>3, <2>4, BeginKeeps DEF Lasting, UpToDate, AboutReceipt
<1>4. ASSUME NEW r \in Receipts, NEW u \in Deciders, ReadApproveVoid(s, u, r) PROVE Inv'
  <2> DEFINE q == About("approve_void", u, r, {r, Till})
  <2>1. Ask("approve_void", u, {r, Till}) \in Request
    BY AskTyped DEF Users
  <2>2. q \in Request /\ q.op = "approve_void" /\ q.receipt = r /\ q.reads = {r, Till}
    BY <2>1 DEF About, Ask, Request, OrNone
  <2> QED
    BY <1>4, <2>2, BeginKeeps
       DEF ReadApproveVoid, Voidable, Decidable, Lasting, UpToDate, AboutReceipt
<1>5. ASSUME NEW r \in Receipts, NEW u \in Deciders, ReadRejectVoid(s, u, r) PROVE Inv'
  <2> DEFINE q == About("reject_void", u, r, {r})
  <2>1. Ask("reject_void", u, {r}) \in Request
    BY AskTyped DEF Users
  <2>2. q \in Request /\ q.op = "reject_void" /\ q.receipt = r /\ q.reads = {r}
    BY <2>1 DEF About, Ask, Request, OrNone
  <2> QED
    BY <1>5, <2>2, BeginKeeps DEF ReadRejectVoid, Decidable, Lasting, UpToDate, AboutReceipt
<1>6. ASSUME NEW gap \in Gaps, ReadOpenClosing(s, gap) PROVE Inv'
  <2> DEFINE c == Count(gap)
             all == Receipts \cup {Till}
             q == [Ask("open_closing", Cashier, all) EXCEPT !.instance = c]
  <2>1. Ask("open_closing", Cashier, all) \in Request
    BY AskTyped DEF Users
  <2>2. /\ c \in ClosingRow /\ c.counted = Issued
        /\ c.status \in {"OPEN", "VARIANCE_PENDING"}
    BY CountsAreNumbers DEF Inv, Count, NoClosing, ClosingRow, OrNone, Issued
  <2>3. Begin(s, q)
    BY <1>6 DEF ReadOpenClosing
  <2> HIDE DEF c, all
  <2>4. /\ q \in Request /\ q.op = "open_closing" /\ q.instance = c /\ q.reads = all
    BY <2>1, <2>2 DEF Ask, Request
  <2> QED
    BY <2>2, <2>3, <2>4, BeginKeeps DEF Lasting, UpToDate, AboutReceipt, Issued, all
<1>7. ASSUME NEW u \in Signers, NEW explained \in BOOLEAN, ReadReconcile(s, u, explained)
      PROVE  Inv'
  <2> DEFINE c == [closing EXCEPT !.status = "RECONCILED", !.approvedBy = u, !.resolved = explained]
             q == [Ask("reconcile", u, {Till}) EXCEPT !.instance = c]
  <2>1. Ask("reconcile", u, {Till}) \in Request
    BY AskTyped DEF Users
  <2>2. closing \in ClosingRow /\ u \in Users
    BY DEF Inv, TypeOK, Users
  <2>3. /\ c \in ClosingRow /\ c.status = "RECONCILED" /\ c.approvedBy = u
        /\ c.resolved = explained /\ c.system = closing.system
        /\ c.variance = closing.variance /\ c.unvouched = closing.unvouched
        /\ c.counted = closing.counted
    BY <2>2 DEF ClosingRow, OrNone
  <2>4. Begin(s, q) /\ MayReconcile(closing, u, explained)
    BY <1>7 DEF ReadReconcile
  <2> HIDE DEF c
  <2>5. q \in Request /\ q.op = "reconcile" /\ q.instance = c
    BY <2>1, <2>3 DEF Ask, Request
  <2>6. SignedOff(c)
    BY <2>2, <2>3, <2>4 DEF MayReconcile, SignedOff, Users
  <2> QED
    BY <2>3, <2>4, <2>5, <2>6, BeginKeeps DEF MayReconcile, Lasting, UpToDate, AboutReceipt
<1> QED
  BY <1>1, <1>2, <1>3, <1>4, <1>5, <1>6, <1>7

-----------------------------------------------------------------------------
(* Commits. *)

LEMMA ServingTyped ==
    ASSUME Inv, NEW s \in Sessions, req[s].op # "idle"
    PROVE  /\ req[s] \in Request /\ Lasting(req[s])
           /\ req[s].fresh => UpToDate(req[s])
           /\ req[s].op \in AboutReceipt => req[s].receipt \in Receipts
  BY BusyTyped DEF Inv, Requests, Lasting

LEMMA PaymentKeeps ==
    ASSUME Inv, NEW s \in Sessions, NEW r \in Receipts, WritePayment(s, r)
    PROVE  Inv'
<1> DEFINE row == [status |-> "ISSUED", ref |-> req[s].ref, closed |-> FALSE]
<1>1. /\ receipt' = [receipt EXCEPT ![r] = row] /\ UNCHANGED <<void, closing>>
      /\ receipt[r].status = "ABSENT" /\ Finish(s, {r}) /\ req[s] \in Request
  BY ServingTyped DEF WritePayment
<1>2. row \in ReceiptRow /\ row.status = "ISSUED" /\ row.closed = FALSE
  BY <1>1 DEF ReceiptRow, Request
<1> HIDE DEF row
<1>3. \A o \in Receipts : receipt'[o] = IF o = r THEN row ELSE receipt[o]
  BY <1>1 DEF Inv, TypeOK
<1>4. TypeOK' /\ raced \subseteq raced'
  BY <1>1, <1>2, FinishTells DEF Inv, TypeOK
<1>5. Requests'
  <2>1. \A q \in Request : Lasting(q) => Lasting(q)'
    BY <1>1, <1>2, <1>3 DEF Lasting, AboutReceipt
  <2>2. \A q \in Request :
           Lasting(q) /\ UpToDate(q) /\ q.reads \cap {r} = {} => UpToDate(q)'
    BY <1>1, <1>3 DEF Lasting, UpToDate, AboutReceipt, Request, ClosingRow
  <2> QED
    BY <1>1, <2>1, <2>2, CommitKeeps DEF Inv
<1>6. EmptyRows' /\ VoidNeedsTwo' /\ NoSilentDifference'
  BY <1>1, <1>2, <1>3 DEF Inv, EmptyRows, VoidNeedsTwo, NoSilentDifference
<1>7. VoidIsDecided'
  BY <1>1, <1>2, <1>3, <1>4 DEF Inv, VoidIsDecided
<1>8. CountedReceiptStands' /\ AttachedAreIssued'
  BY <1>1, <1>2, <1>3, <1>4 DEF Inv, TypeOK, ClosingRow, CountedReceiptStands, AttachedAreIssued
<1> QED
  BY <1>4, <1>5, <1>6, <1>7, <1>8 DEF Inv

LEMMA RefKeeps ==
    ASSUME Inv, NEW s \in Sessions, WriteRef(s)
    PROVE  Inv'
<1> DEFINE r == req[s].receipt
           row == [receipt[r] EXCEPT !.ref = req[s].ref]
           day == IF closing.status = "ABSENT" THEN {} ELSE {Till}
           n == Cardinality(Unvouched \ {r})
<1>1. /\ receipt' = [receipt EXCEPT ![r] = row] /\ UNCHANGED void
      /\ closing.status # "RECONCILED" /\ closing' = Recounted(n)
      /\ Finish(s, {r} \cup day) /\ req[s].op = "record_external_ref"
  BY DEF WriteRef, DayOpen
<1>2. req[s] \in Request /\ r \in Receipts
  BY <1>1, ServingTyped DEF AboutReceipt
<1>3. receipt[r] \in ReceiptRow /\ closing \in ClosingRow /\ n \in Nat
  BY <1>2, CountsAreNumbers DEF Inv, TypeOK
<1>4. /\ row \in ReceiptRow /\ row.status = receipt[r].status
      /\ row.closed = receipt[r].closed
  BY <1>2, <1>3 DEF ReceiptRow, Request
<1>5. /\ closing' \in ClosingRow /\ closing'.status # "RECONCILED"
      /\ closing'.status = "ABSENT" <=> closing.status = "ABSENT"
      /\ closing'.system = closing.system /\ closing'.variance = closing.variance
      /\ closing'.counted = closing.counted
  <2> HIDE DEF n
  <2> QED
    BY <1>1, <1>3 DEF Recounted, ClosingRow
<1>6. {r} \cup day \in SUBSET (Receipts \cup {Till})
  BY <1>2
<1> HIDE DEF row, day, n
<1>7. \A o \in Receipts : receipt'[o] = IF o = r THEN row ELSE receipt[o]
  BY <1>1 DEF Inv, TypeOK
<1>8. TypeOK' /\ raced \subseteq raced'
  BY <1>1, <1>2, <1>4, <1>5, <1>6, FinishTells DEF Inv, TypeOK
<1>9. Requests'
  <2>1. \A q \in Request : Lasting(q) => Lasting(q)'
    BY <1>1, <1>4, <1>5, <1>7 DEF Lasting, AboutReceipt
  <2>2. \A q \in Request :
           Lasting(q) /\ UpToDate(q) /\ q.reads \cap ({r} \cup day) = {} => UpToDate(q)'
    BY <1>1, <1>4, <1>5, <1>7 DEF Lasting, UpToDate, AboutReceipt, Request, ClosingRow
  <2> QED
    BY <1>1, <1>6, <2>1, <2>2, CommitKeeps DEF Inv
<1>10. VoidNeedsTwo' /\ NoSilentDifference' /\ VoidIsDecided'
  BY <1>1, <1>4, <1>5, <1>7, <1>8
     DEF Inv, EmptyRows, VoidNeedsTwo, NoSilentDifference, VoidIsDecided
<1>11. CountedReceiptStands' /\ AttachedAreIssued'
  BY <1>1, <1>4, <1>5, <1>7, <1>8
     DEF Inv, TypeOK, ClosingRow, CountedReceiptStands, AttachedAreIssued
<1>12. EmptyRows'
  <2>1. receipt[r].status # "ABSENT"
    BY <1>1, ServingTyped DEF Lasting
  <2> QED
    BY <1>1, <1>4, <1>5, <1>7, <2>1 DEF Inv, EmptyRows
<1> QED
  BY <1>8, <1>9, <1>10, <1>11, <1>12 DEF Inv

LEMMA VoidRequestKeeps ==
    ASSUME Inv, NEW s \in Sessions, WriteVoidRequest(s)
    PROVE  Inv'
<1> DEFINE r == req[s].receipt
           row == [NoVoid EXCEPT !.requestedBy = req[s].actor]
<1>1. /\ void' = [void EXCEPT ![r] = row] /\ UNCHANGED <<receipt, closing>>
      /\ Finish(s, {r}) /\ req[s].op = "request_void"
  BY DEF WriteVoidRequest
<1>2. req[s] \in Request /\ r \in Receipts /\ req[s].actor \in Users
  BY <1>1, ServingTyped DEF AboutReceipt, Request
<1>3. /\ row \in VoidRow /\ row.requestedBy = req[s].actor
      /\ row.approvedBy = None /\ row.rejectedBy = None
  BY <1>2 DEF NoVoid, VoidRow, OrNone
<1>4. req[s].actor # None
  BY <1>2, ConstantsAssumption
<1> HIDE DEF row
<1>5. \A o \in Receipts : void'[o] = IF o = r THEN row ELSE void[o]
  BY <1>1 DEF Inv, TypeOK
<1>6. TypeOK' /\ raced \subseteq raced' /\ (req[s].fresh \/ r \in raced')
  BY <1>1, <1>2, <1>3, FinishTells DEF Inv, TypeOK
<1>7. Requests'
  <2>1. \A q \in Request : Lasting(q) => Lasting(q)'
    BY <1>1, <1>3, <1>4, <1>5 DEF Lasting, AboutReceipt
  <2>2. \A q \in Request :
           Lasting(q) /\ UpToDate(q) /\ q.reads \cap {r} = {} => UpToDate(q)'
    BY <1>1, <1>5 DEF Lasting, UpToDate, AboutReceipt
  <2> QED
    BY <1>1, <1>2, <2>1, <2>2, CommitKeeps DEF Inv
<1>8. VoidNeedsTwo'
  BY <1>1, <1>3, <1>4, <1>5 DEF Inv, VoidNeedsTwo
<1>9. VoidIsDecided'
  <2>1. r \in raced' \/ void[r].approvedBy = None
    BY <1>1, <1>6, ServingTyped DEF UpToDate
  <2> QED
    BY <1>1, <1>2, <1>3, <1>5, <1>6, <2>1 DEF Inv, VoidIsDecided
<1>10. EmptyRows' /\ NoSilentDifference' /\ CountedReceiptStands' /\ AttachedAreIssued'
  BY <1>1, <1>6 DEF Inv, EmptyRows, NoSilentDifference, CountedReceiptStands, AttachedAreIssued
<1> QED
  BY <1>6, <1>7, <1>8, <1>9, <1>10 DEF Inv

LEMMA ApproveKeeps ==
    ASSUME Inv, NEW s \in Sessions, WriteApproveVoid(s)
    PROVE  Inv'
<1> DEFINE r == req[s].receipt
           v == [void[r] EXCEPT !.approvedBy = req[s].actor]
           row == MarkVoided(receipt[r])
<1>1. /\ void' = [void EXCEPT ![r] = v] /\ receipt' = [receipt EXCEPT ![r] = row]
      /\ UNCHANGED closing /\ VoidAdmitted(v)
      /\ Finish(s, {r}) /\ req[s].op = "approve_void"
  BY DEF WriteApproveVoid
<1>2. /\ req[s] \in Request /\ r \in Receipts /\ req[s].actor \in Users
      /\ void[r].requestedBy # None
  BY <1>1, ServingTyped DEF AboutReceipt, Request, Lasting
<1>3. void[r] \in VoidRow /\ receipt[r] \in ReceiptRow
  BY <1>2 DEF Inv, TypeOK
<1>4. /\ v \in VoidRow /\ v.approvedBy = req[s].actor
      /\ v.requestedBy = void[r].requestedBy /\ v.rejectedBy = void[r].rejectedBy
  BY <1>2, <1>3 DEF VoidRow, OrNone
<1>5. /\ row \in ReceiptRow /\ row.status = "VOIDED"
      /\ row.ref = receipt[r].ref /\ row.closed = receipt[r].closed
  BY <1>3 DEF ReceiptRow, MarkVoided
<1>6. req[s].actor # None
  BY <1>2, ConstantsAssumption
<1> HIDE DEF v, row
<1>7. /\ \A o \in Receipts : void'[o] = IF o = r THEN v ELSE void[o]
      /\ \A o \in Receipts : receipt'[o] = IF o = r THEN row ELSE receipt[o]
  BY <1>1 DEF Inv, TypeOK
<1>8. TypeOK' /\ raced \subseteq raced' /\ (req[s].fresh \/ r \in raced')
  BY <1>1, <1>2, <1>4, <1>5, FinishTells DEF Inv, TypeOK
<1>9. Requests'
  <2>1. \A q \in Request : Lasting(q) => Lasting(q)'
    BY <1>1, <1>4, <1>5, <1>7 DEF Lasting, AboutReceipt
  <2>2. \A q \in Request :
           Lasting(q) /\ UpToDate(q) /\ q.reads \cap {r} = {} => UpToDate(q)'
    BY <1>1, <1>7 DEF Lasting, UpToDate, AboutReceipt, Request, ClosingRow
  <2> QED
    BY <1>1, <1>2, <2>1, <2>2, CommitKeeps DEF Inv
<1>10. VoidNeedsTwo' /\ VoidIsDecided'
  BY <1>1, <1>2, <1>4, <1>5, <1>6, <1>7, <1>8
     DEF Inv, VoidAdmitted, VoidNeedsTwo, VoidIsDecided
<1>11. r \in raced' \/ closing.status = "ABSENT"
  BY <1>1, <1>8, ServingTyped DEF UpToDate
<1>12. CountedReceiptStands' /\ AttachedAreIssued'
  BY <1>1, <1>5, <1>7, <1>8, <1>11
     DEF Inv, TypeOK, ClosingRow, EmptyRows, CountedReceiptStands, AttachedAreIssued
<1>13. EmptyRows' /\ NoSilentDifference'
  BY <1>1, <1>5, <1>7 DEF Inv, EmptyRows, NoSilentDifference
<1> QED
  BY <1>8, <1>9, <1>10, <1>12, <1>13 DEF Inv

LEMMA RejectKeeps ==
    ASSUME Inv, NEW s \in Sessions, WriteRejectVoid(s)
    PROVE  Inv'
<1> DEFINE r == req[s].receipt
           v == [void[r] EXCEPT !.rejectedBy = req[s].actor]
<1>1. /\ void' = [void EXCEPT ![r] = v] /\ UNCHANGED <<receipt, closing>>
      /\ VoidAdmitted(v) /\ Finish(s, {r}) /\ req[s].op = "reject_void"
  BY DEF WriteRejectVoid
<1>2. /\ req[s] \in Request /\ r \in Receipts /\ req[s].actor \in Users
      /\ void[r].requestedBy # None
  BY <1>1, ServingTyped DEF AboutReceipt, Request, Lasting
<1>3. /\ v \in VoidRow /\ v.rejectedBy = req[s].actor
      /\ v.requestedBy = void[r].requestedBy /\ v.approvedBy = void[r].approvedBy
  BY <1>2 DEF Inv, TypeOK, VoidRow, OrNone
<1> HIDE DEF v
<1>4. \A o \in Receipts : void'[o] = IF o = r THEN v ELSE void[o]
  BY <1>1 DEF Inv, TypeOK
<1>5. TypeOK' /\ raced \subseteq raced'
  BY <1>1, <1>2, <1>3, FinishTells DEF Inv, TypeOK
<1>6. Requests'
  <2>1. \A q \in Request : Lasting(q) => Lasting(q)'
    BY <1>1, <1>3, <1>4 DEF Lasting, AboutReceipt
  <2>2. \A q \in Request :
           Lasting(q) /\ UpToDate(q) /\ q.reads \cap {r} = {} => UpToDate(q)'
    BY <1>1, <1>4 DEF Lasting, UpToDate, AboutReceipt
  <2> QED
    BY <1>1, <1>2, <2>1, <2>2, CommitKeeps DEF Inv
<1>7. VoidNeedsTwo'
  <2>1. \A o \in Receipts \ {r} : void'[o] = void[o]
    BY <1>4
  <2>2. void'[r] = v
    BY <1>2, <1>4
  <2>3. req[s].actor # None
    BY <1>2, ConstantsAssumption
  <2> QED
    BY <1>1, <1>2, <1>3, <2>1, <2>2, <2>3 DEF Inv, VoidAdmitted, VoidNeedsTwo
<1>8. VoidIsDecided'
  BY <1>1, <1>3, <1>4, <1>5 DEF Inv, VoidIsDecided
<1>9. EmptyRows' /\ NoSilentDifference' /\ CountedReceiptStands' /\ AttachedAreIssued'
  BY <1>1, <1>5 DEF Inv, EmptyRows, NoSilentDifference, CountedReceiptStands, AttachedAreIssued
<1> QED
  BY <1>5, <1>6, <1>7, <1>8, <1>9 DEF Inv

LEMMA OpenClosingKeeps ==
    ASSUME Inv, NEW s \in Sessions, WriteOpenClosing(s)
    PROVE  Inv'
<1> DEFINE c == req[s].instance
<1>1. /\ closing' = c /\ UNCHANGED <<receipt, void>> /\ closing.status = "ABSENT"
      /\ Finish(s, {Till}) /\ req[s].op = "open_closing"
  BY DEF WriteOpenClosing
<1>2. /\ req[s] \in Request /\ c \in ClosingRow /\ c.status \in {"OPEN", "VARIANCE_PENDING"}
      /\ req[s].fresh => \A r \in c.counted : receipt[r].status = "ISSUED"
  BY <1>1, ServingTyped DEF Request, Lasting, UpToDate
<1> HIDE DEF c
<1>3. TypeOK' /\ raced \subseteq raced' /\ (req[s].fresh \/ Till \in raced')
  BY <1>1, <1>2, FinishTells DEF Inv, TypeOK
<1>4. Requests'
  <2>1. \A q \in Request : Lasting(q) => Lasting(q)'
    BY <1>1 DEF Lasting
  <2>2. \A q \in Request :
           Lasting(q) /\ UpToDate(q) /\ q.reads \cap {Till} = {} => UpToDate(q)'
    BY <1>1 DEF Lasting, UpToDate
  <2> QED
    BY <1>1, <2>1, <2>2, CommitKeeps DEF Inv
<1>5. VoidNeedsTwo' /\ VoidIsDecided' /\ EmptyRows' /\ NoSilentDifference'
  BY <1>1, <1>2, <1>3 DEF Inv, VoidNeedsTwo, VoidIsDecided, EmptyRows, NoSilentDifference
<1>6. CountedReceiptStands' /\ AttachedAreIssued'
  BY <1>1, <1>2, <1>3 DEF Inv, CountedReceiptStands, AttachedAreIssued
<1> QED
  BY <1>3, <1>4, <1>5, <1>6 DEF Inv

LEMMA ReconcileKeeps ==
    ASSUME Inv, NEW s \in Sessions, WriteReconcile(s)
    PROVE  Inv'
<1> DEFINE c == req[s].instance
           written == {Till} \cup Attachable
<1>1. /\ closing' = c /\ UNCHANGED void /\ Finish(s, written) /\ req[s].op = "reconcile"
      /\ receipt' = [r \in Receipts |->
                        IF r \in Attachable THEN [receipt[r] EXCEPT !.closed = TRUE]
                        ELSE receipt[r]]
  BY DEF WriteReconcile
<1>2. /\ req[s] \in Request /\ c \in ClosingRow /\ c.status = "RECONCILED" /\ SignedOff(c)
      /\ closing.status # "ABSENT" /\ c.counted = closing.counted
      /\ c.system = closing.system /\ c.variance = closing.variance
  BY <1>1, ServingTyped DEF Request, Lasting
<1> HIDE DEF c
<1>3. \A r \in Attachable : r \in Receipts /\ receipt[r].status = "ISSUED"
  BY DEF Attachable, Issued
<1>4. ASSUME NEW r \in Receipts
      PROVE  /\ receipt'[r] \in ReceiptRow
             /\ receipt'[r].status = receipt[r].status /\ receipt'[r].ref = receipt[r].ref
             /\ r \notin Attachable => receipt'[r] = receipt[r]
  <2>1. receipt[r] \in ReceiptRow
    BY DEF Inv, TypeOK
  <2>2. CASE r \in Attachable
    <3>1. receipt'[r] = [receipt[r] EXCEPT !.closed = TRUE]
      BY <1>1, <2>2
    <3> QED
      BY <2>1, <2>2, <3>1 DEF ReceiptRow
  <2>3. CASE r \notin Attachable
    BY <1>1, <2>1, <2>3
  <2> QED
    BY <2>2, <2>3
<1>5. written \in SUBSET (Receipts \cup {Till}) /\ Till \in written
  BY <1>3
<1> HIDE DEF written
<1>6. TypeOK' /\ raced \subseteq raced' /\ (req[s].fresh \/ written \subseteq raced')
  <2>1. receipt' \in [Receipts -> ReceiptRow]
    BY <1>1, <1>4
  <2> QED
    BY <1>1, <1>2, <1>5, <2>1, FinishTells DEF Inv, TypeOK
<1>7. Requests'
  <2>1. \A q \in Request : Lasting(q) => Lasting(q)'
    BY <1>1, <1>2, <1>4 DEF Lasting, AboutReceipt
  <2>2. \A q \in Request :
           Lasting(q) /\ UpToDate(q) /\ q.reads \cap written = {} => UpToDate(q)'
    BY <1>1, <1>4, <1>5 DEF Lasting, UpToDate, AboutReceipt, Request, ClosingRow
  <2> QED
    BY <1>1, <1>5, <2>1, <2>2, CommitKeeps DEF Inv
<1>8. VoidNeedsTwo' /\ VoidIsDecided' /\ EmptyRows'
  BY <1>1, <1>2, <1>4, <1>6 DEF Inv, VoidNeedsTwo, VoidIsDecided, EmptyRows
<1>9. NoSilentDifference'
  BY <1>1, <1>2 DEF SignedOff, NoSilentDifference
<1>10. CountedReceiptStands'
  BY <1>1, <1>2, <1>4, <1>6 DEF Inv, TypeOK, ClosingRow, CountedReceiptStands
<1>11. AttachedAreIssued'
  BY <1>1, <1>2, <1>3, <1>4, <1>6 DEF Inv, AttachedAreIssued
<1> QED
  BY <1>6, <1>7, <1>8, <1>9, <1>10, <1>11 DEF Inv

-----------------------------------------------------------------------------
(* The theorems. *)

LEMMA StartsRight == Init => Inv
<1> SUFFICES ASSUME Init PROVE Inv
  OBVIOUS
<1>1. TypeOK
  BY ConstantsAssumption
     DEF Init, TypeOK, ReceiptRow, VoidRow, NoVoid, ClosingRow, NoClosing, OrNone
<1>2. Requests
  BY DEF Init, Requests, Busy
<1> QED
  BY <1>1, <1>2
     DEF Init, Inv, NoVoid, NoClosing, EmptyRows, VoidNeedsTwo, VoidIsDecided,
         CountedReceiptStands, NoSilentDifference, AttachedAreIssued

LEMMA StepKeeps ==
    ASSUME Inv, [Next]_vars
    PROVE  Inv'
<1>1. CASE UNCHANGED vars
  BY <1>1
     DEF vars, Inv, TypeOK, Requests, Busy, Lasting, UpToDate, EmptyRows, VoidNeedsTwo,
         VoidIsDecided, CountedReceiptStands, NoSilentDifference, AttachedAreIssued
<1>2. ASSUME NEW s \in Sessions, PaymentNewView(s) PROVE Inv'
  BY <1>2, ReadsKeep, PaymentKeeps DEF PaymentNewView
<1>3. ASSUME NEW s \in Sessions, ReceiptDetailView(s) PROVE Inv'
  BY <1>3, ReadsKeep, RefKeeps, VoidRequestKeeps, ApproveKeeps, RejectKeeps
     DEF ReceiptDetailView
<1>4. ASSUME NEW s \in Sessions, ClosingView(s) PROVE Inv'
  BY <1>4, ReadsKeep, OpenClosingKeeps, ReconcileKeeps DEF ClosingView
<1> QED
  BY <1>1, <1>2, <1>3, <1>4, RollbackKeeps DEF Next

LEMMA Invariant == Spec => []Inv
  BY StartsRight, StepKeeps, PTL DEF Spec

(***************************************************************************)
(* Every row of the till keeps its type; the total of a closing is a       *)
(* number whatever receipts it is summed over.                             *)
(***************************************************************************)
THEOREM TypeCorrect == Spec => []TypeOK
<1>1. Inv => TypeOK
  BY DEF Inv
<1> QED
  BY <1>1, Invariant, PTL

(***************************************************************************)
(* D-18 for any number of clerks and overlapping requests: a void is       *)
(* decided by another than asked for it, and a receipt that no write from  *)
(* an out-of-date read has touched is void exactly when that was approved. *)
(***************************************************************************)
THEOREM VoidTakesTwo == Spec => []VoidsAreDecided
<1>1. Inv => VoidsAreDecided
  BY DEF Inv, VoidsAreDecided
<1> QED
  BY <1>1, Invariant, PTL

(***************************************************************************)
(* What a day was counted and signed off on still stands, for any number   *)
(* of receipts and requests: guards and constraints together suffice,      *)
(* until a write from an out-of-date read.                                 *)
(***************************************************************************)
THEOREM DayStands == Spec => []ClosingStands
<1>1. Inv => ClosingStands
  BY DEF Inv, ClosingStands
<1> QED
  BY <1>1, Invariant, PTL

(***************************************************************************)
(* What a step does to a voucher number and to a signed-off day.           *)
(***************************************************************************)
LEMMA StepKeepsRefs ==
    ASSUME Inv, [Next]_vars, NEW r \in Receipts \ raced', receipt[r].ref # None
    PROVE  receipt'[r].ref = receipt[r].ref
<1>1. CASE UNCHANGED receipt
  BY <1>1
<1>2. ASSUME NEW s \in Sessions, NEW o \in Receipts, WritePayment(s, o)
      PROVE  receipt'[r].ref = receipt[r].ref
  <2>1. o # r
    BY <1>2 DEF WritePayment, Inv, EmptyRows
  <2> QED
    BY <1>2, <2>1 DEF WritePayment, Inv, TypeOK
<1>3. ASSUME NEW s \in Sessions, WriteRef(s)
      PROVE  receipt'[r].ref = receipt[r].ref
  <2> DEFINE o == req[s].receipt
             written == {o} \cup IF closing.status = "ABSENT" THEN {} ELSE {Till}
  <2>1. /\ receipt' = [receipt EXCEPT ![o] = [receipt[o] EXCEPT !.ref = req[s].ref]]
        /\ Finish(s, written) /\ req[s].op = "record_external_ref"
    BY <1>3 DEF WriteRef
  <2>2. req[s].fresh \/ o \in raced'
    BY <2>1, ServingTyped, FinishTells DEF Inv, AboutReceipt
  <2>3. o # r
    BY <2>1, <2>2, ServingTyped DEF UpToDate
  <2> QED
    BY <2>1, <2>3 DEF Inv, TypeOK
<1>4. ASSUME NEW s \in Sessions, WriteApproveVoid(s)
      PROVE  receipt'[r].ref = receipt[r].ref
  <2> DEFINE o == req[s].receipt
             row == MarkVoided(receipt[o])
  <2>1. receipt' = [receipt EXCEPT ![o] = row] /\ o \in Receipts
    BY <1>4, ServingTyped DEF WriteApproveVoid, AboutReceipt
  <2>2. row.ref = receipt[o].ref
    BY <2>1 DEF MarkVoided, Inv, TypeOK, ReceiptRow
  <2> HIDE DEF row
  <2> QED
    BY <2>1, <2>2 DEF Inv, TypeOK
<1>5. ASSUME NEW s \in Sessions, WriteReconcile(s)
      PROVE  receipt'[r].ref = receipt[r].ref
  <2>1. receipt'[r] = IF r \in Attachable THEN [receipt[r] EXCEPT !.closed = TRUE] ELSE receipt[r]
    BY <1>5 DEF WriteReconcile
  <2>2. receipt[r] \in ReceiptRow
    BY DEF Inv, TypeOK
  <2>3. [receipt[r] EXCEPT !.closed = TRUE].ref = receipt[r].ref
    BY <2>2 DEF ReceiptRow
  <2> QED
    BY <2>1, <2>3
<1> QED
  BY <1>1, <1>2, <1>3, <1>4, <1>5
     DEF vars, Next, PaymentNewView, ReceiptDetailView, ClosingView, Begin, Rollback,
         ReadPayment, ReadRef, ReadVoidRequest, ReadApproveVoid, ReadRejectVoid,
         ReadOpenClosing, ReadReconcile, WriteVoidRequest, WriteRejectVoid, WriteOpenClosing

LEMMA StepKeepsDay ==
    ASSUME Inv, [Next]_vars, closing.status = "RECONCILED"
    PROVE  /\ closing'.status = "RECONCILED"
           /\ closing'.system = closing.system
           /\ closing'.variance = closing.variance
<1>1. CASE UNCHANGED closing
  BY <1>1
<1>2. ASSUME NEW s \in Sessions, WriteReconcile(s)
      PROVE  /\ closing'.status = "RECONCILED"
             /\ closing'.system = closing.system
             /\ closing'.variance = closing.variance
  BY <1>2, ServingTyped DEF WriteReconcile, Lasting
<1> QED
  BY <1>1, <1>2
     DEF vars, Next, PaymentNewView, ReceiptDetailView, ClosingView, Begin, Rollback,
         ReadPayment, ReadRef, ReadVoidRequest, ReadApproveVoid, ReadRejectVoid,
         ReadOpenClosing, ReadReconcile, WritePayment, WriteVoidRequest, WriteApproveVoid,
         WriteRejectVoid, WriteOpenClosing, WriteRef, DayOpen

(***************************************************************************)
(* BR-025, BR-026: a voucher number is never written over but by a write   *)
(* from an out-of-date read, and a signed-off day never, not even by that: *)
(* record_external_ref locks the closing and looks again.                  *)
(***************************************************************************)
THEOREM ForGood == Spec => WrittenForGood
<1>1. Spec => []Inv /\ [][Next]_vars
  BY Invariant, PTL DEF Spec
<1>2. Inv /\ [Next]_vars =>
         [\A r \in Receipts \ raced' : receipt[r].ref # None => receipt'[r].ref = receipt[r].ref]_vars
  BY StepKeepsRefs
<1>3. Inv /\ [Next]_vars =>
         [closing.status = "RECONCILED" =>
            /\ closing'.status = "RECONCILED"
            /\ closing'.system = closing.system
            /\ closing'.variance = closing.variance]_vars
  BY StepKeepsDay
<1> QED
  BY <1>1, <1>2, <1>3, PTL DEF WrittenForGood, RefWrittenOnce, SignedOffForGood

-----------------------------------------------------------------------------
(* Financial periods, for every set of users and of requests in flight, and *)
(* any number of days and rows.                                             *)

(***************************************************************************)
(* A decision that is on its way is one, and has a hand; so has a close.   *)
(***************************************************************************)
Signing(q) ==
    /\ q.op \in {"close", "decide", "record"} => q.user \in Staff
    /\ q.op = "decide" => q.status # "RECORDED"

(***************************************************************************)
(* A request about a row names one, and knows its dates: no row is ever    *)
(* deleted, nor its dates edited.                                          *)
(***************************************************************************)
Aims(q) ==
    /\ q.op = "close" => /\ q.row \in DOMAIN periods
                         /\ q.day = periods[q.row].from /\ q.to = periods[q.row].to
    /\ q.op = "decide" => q.row \in DOMAIN expenses
    /\ q.op = "void" => q.row \in DOMAIN receipts /\ q.day = receipts[q.row].day

Typed == PeriodsTypeOK /\ \A s \in Workers : Signing(task[s]) /\ Aims(task[s])

(***************************************************************************)
(* What a request was judged by, as long as no commit has overtaken it.    *)
(***************************************************************************)
Judged(q) ==
    /\ q.op = "create" => ~Overlaps(q.day, q.to)
    /\ q.op \in Movements => RequireOpen(q.day)
    /\ q.op = "close" => ~periods[q.row].closed
    /\ q.op = "decide" => expenses[q.row].status = "RECORDED"

(***************************************************************************)
(* Requests that no commit has overtaken see the rows as they are.         *)
(***************************************************************************)
Current == \A s \in Workers : ~task[s].overtaken => Judged(task[s])

Sighted == Typed /\ Current

-----------------------------------------------------------------------------
(* Types. *)

(***************************************************************************)
(* Loading a row touches no table, and a well-typed request stays so.      *)
(***************************************************************************)
LEMMA BeginTyped ==
    ASSUME Typed, NEW s \in Workers, NEW new \in Task, Signing(new), Aims(new),
           Start(s, new)
    PROVE  Typed'
<1>1. UNCHANGED <<periods, expenses, receipts>> /\ task' = [task EXCEPT ![s] = new]
  BY DEF Start, books
<1>2. PeriodsTypeOK'
  BY <1>1 DEF Typed, PeriodsTypeOK
<1>3. (\A t \in Workers : Signing(task[t]) /\ Aims(task[t]))'
  BY <1>1 DEF Typed, PeriodsTypeOK, Signing, Aims
<1> QED
  BY <1>2, <1>3 DEF Typed

(***************************************************************************)
(* Rows stay where they are, with their dates.                             *)
(***************************************************************************)
RowsStay ==
    /\ \A p \in DOMAIN periods :
          p \in DOMAIN periods' /\ periods'[p].from = periods[p].from /\ periods'[p].to = periods[p].to
    /\ \A e \in DOMAIN expenses :
          e \in DOMAIN expenses' /\ expenses'[e].day = expenses[e].day
    /\ \A r \in DOMAIN receipts :
          r \in DOMAIN receipts' /\ receipts'[r].day = receipts[r].day

(***************************************************************************)
(* An idle session names nothing.                                          *)
(***************************************************************************)
LEMMA IdleTyped == NoTask \in Task /\ Signing(NoTask) /\ Aims(NoTask) /\ ~NoTask.overtaken
  BY PeriodsAssumption DEF NoTask, Signing, Aims, Task, Ops, Days, People

(***************************************************************************)
(* A commit that leaves the rows in place leaves every request well typed. *)
(***************************************************************************)
LEMMA FinishTyped ==
    ASSUME Typed, NEW s \in Workers, Complete(s), RowsStay
    PROVE  /\ task' \in [Workers -> Task]
           /\ (\A t \in Workers : Signing(task[t]) /\ Aims(task[t]))'
<1>1. ASSUME NEW q \in Task, NEW o \in BOOLEAN
      PROVE  /\ [q EXCEPT !.overtaken = o] \in Task
             /\ Signing(q) => Signing([q EXCEPT !.overtaken = o])
  BY DEF Task, Signing
<1>2. \A t \in Workers : task[t] \in Task /\ task[t].overtaken \in BOOLEAN
  BY DEF Typed, PeriodsTypeOK, Task
<1>3. ASSUME NEW t \in Workers
      PROVE  \/ task'[t] = NoTask
             \/ \E o \in BOOLEAN : task'[t] = [task[t] EXCEPT !.overtaken = o]
  BY <1>2, <1>3 DEF Complete
<1>4. ASSUME NEW t \in Workers
      PROVE  task'[t] \in Task /\ Signing(task'[t])
  <2>1. CASE task'[t] = NoTask
    BY <2>1, IdleTyped
  <2>2. ASSUME NEW o \in BOOLEAN, task'[t] = [task[t] EXCEPT !.overtaken = o]
        PROVE  task'[t] \in Task /\ Signing(task'[t])
    BY <1>1, <1>2, <2>2 DEF Typed
  <2> QED
    BY <1>3, <2>1, <2>2
<1>5. (\A t \in Workers : Aims(task[t]))'
  <2> SUFFICES ASSUME NEW t \in Workers
               PROVE  Aims(task[t])'
    OBVIOUS
  <2>1. CASE task'[t] = NoTask
    BY <2>1 DEF NoTask, Aims
  <2>2. ASSUME NEW o \in BOOLEAN, task'[t] = [task[t] EXCEPT !.overtaken = o]
        PROVE  Aims(task[t])'
    <3>1. Aims(task[t]) /\ task[t] \in Task
      BY <1>2 DEF Typed
    <3>2. /\ task'[t].op = task[t].op /\ task'[t].row = task[t].row
          /\ task'[t].day = task[t].day /\ task'[t].to = task[t].to
      BY <2>2, <3>1 DEF Task
    <3> QED
      BY <3>1, <3>2 DEF Aims, RowsStay
  <2> QED
    BY <1>3, <2>1, <2>2
<1> QED
  BY <1>2, <1>4, <1>5 DEF Complete, Typed, PeriodsTypeOK

(***************************************************************************)
(* What a page loads is well typed.                                        *)
(***************************************************************************)
Reads(s) ==
    \/ \E from, to \in Days : ReadCreatePeriod(s, from, to)
    \/ \E p \in DOMAIN periods, u \in Staff : ReadClosePeriod(s, p, u)
    \/ \E day \in Days, u \in Staff : ReadRecord(s, day, u)
    \/ \E e \in DOMAIN expenses, u \in Staff : ReadApprove(s, e, u) \/ ReadReject(s, e, u)
    \/ \E day \in Days : ReadTakePayment(s, day)
    \/ \E r \in DOMAIN receipts : ReadVoid(s, r)

Writes(s) ==
    \/ WriteCreatePeriod(s) \/ WriteClosePeriod(s) \/ WriteRecord(s) \/ WriteDecide(s)
    \/ WriteTakePayment(s) \/ WriteVoid(s)

(***************************************************************************)
(* The rows of the tables.                                                 *)
(***************************************************************************)
LEMMA RowsTyped ==
    ASSUME Typed
    PROVE  /\ \A p \in DOMAIN periods : p \in Nat /\ periods[p] \in FinancialPeriod
           /\ \A e \in DOMAIN expenses : e \in Nat /\ expenses[e] \in Expense
           /\ \A r \in DOMAIN receipts : r \in Nat /\ receipts[r] \in Receipt
  BY DEF Typed, PeriodsTypeOK

(***************************************************************************)
(* A request begins well typed, judged by the rows as they are, and        *)
(* overtaken by none.                                                      *)
(***************************************************************************)
Sound(new) ==
    new \in Task /\ Signing(new) /\ Aims(new) /\ Judged(new) /\ ~new.overtaken

LEMMA ReadsJudge ==
    ASSUME Typed, NEW s \in Workers, Reads(s)
    PROVE  \E new : Sound(new) /\ Start(s, new)
<1> USE IdleTyped DEF Sound, Task, NoTask, Signing, Aims, Judged, Ops, People, Movements
<1>1. ASSUME NEW from \in Days, NEW to \in Days,
             ReadCreatePeriod(s, from, to)
      PROVE  \E new : Sound(new) /\ Start(s, new)
  <2> DEFINE new == [NoTask EXCEPT !.op = "create", !.day = from, !.to = to]
  <2>1. Sound(new)
    BY <1>1 DEF ReadCreatePeriod
  <2> QED
    BY <1>1, <2>1 DEF ReadCreatePeriod
<1>2. ASSUME NEW p \in DOMAIN periods, NEW u \in Staff,
             ReadClosePeriod(s, p, u)
      PROVE  \E new : Sound(new) /\ Start(s, new)
  <2> DEFINE new == [NoTask EXCEPT !.op = "close", !.row = p, !.day = periods[p].from,
                               !.to = periods[p].to, !.user = u]
  <2>1. Sound(new)
    BY <1>2, RowsTyped DEF ReadClosePeriod, FinancialPeriod
  <2> QED
    BY <1>2, <2>1 DEF ReadClosePeriod
<1>3. ASSUME NEW day \in Days, NEW u \in Staff,
             ReadRecord(s, day, u)
      PROVE  \E new : Sound(new) /\ Start(s, new)
  <2> DEFINE new == [NoTask EXCEPT !.op = "record", !.day = day, !.user = u]
  <2>1. Sound(new)
    BY <1>3 DEF ReadRecord
  <2> QED
    BY <1>3, <2>1 DEF ReadRecord
<1>4. ASSUME NEW e \in DOMAIN expenses, NEW u \in Staff,
             ReadApprove(s, e, u)
      PROVE  \E new : Sound(new) /\ Start(s, new)
  <2> DEFINE new == Decision(e, u, "APPROVED")
  <2>1. Sound(new)
    BY <1>4, RowsTyped DEF ReadApprove, Decision, Expense
  <2> QED
    BY <1>4, <2>1 DEF ReadApprove
<1>5. ASSUME NEW e \in DOMAIN expenses, NEW u \in Staff,
             ReadReject(s, e, u)
      PROVE  \E new : Sound(new) /\ Start(s, new)
  <2> DEFINE new == Decision(e, u, "REJECTED")
  <2>1. Sound(new)
    BY <1>5, RowsTyped DEF ReadReject, Decision, Expense
  <2> QED
    BY <1>5, <2>1 DEF ReadReject
<1>6. ASSUME NEW day \in Days,
             ReadTakePayment(s, day)
      PROVE  \E new : Sound(new) /\ Start(s, new)
  <2> DEFINE new == [NoTask EXCEPT !.op = "pay", !.day = day]
  <2>1. Sound(new)
    BY <1>6 DEF ReadTakePayment
  <2> QED
    BY <1>6, <2>1 DEF ReadTakePayment
<1>7. ASSUME NEW r \in DOMAIN receipts,
             ReadVoid(s, r)
      PROVE  \E new : Sound(new) /\ Start(s, new)
  <2> DEFINE new == [NoTask EXCEPT !.op = "void", !.row = r, !.day = receipts[r].day]
  <2>1. Sound(new)
    BY <1>7, RowsTyped DEF ReadVoid, Receipt
  <2> QED
    BY <1>7, <2>1 DEF ReadVoid
<1> QED
  BY <1>1, <1>2, <1>3, <1>4, <1>5, <1>6, <1>7 DEF Reads

(***************************************************************************)
(* Inserting a row, and saving one over.                                   *)
(***************************************************************************)
LEMMA InsertRow ==
    ASSUME NEW S, NEW rows \in Seq(S), NEW r \in S
    PROVE  /\ Append(rows, r) \in Seq(S)
           /\ DOMAIN Append(rows, r) = DOMAIN rows \cup {Len(rows) + 1}
           /\ Len(rows) + 1 \notin DOMAIN rows
           /\ \A i \in DOMAIN rows : Append(rows, r)[i] = rows[i]
           /\ Append(rows, r)[Len(rows) + 1] = r
  BY AppendProperties, LenProperties

LEMMA SaveRow ==
    ASSUME NEW S, NEW rows \in Seq(S), NEW i \in DOMAIN rows, NEW r \in S
    PROVE  /\ [rows EXCEPT ![i] = r] \in Seq(S)
           /\ DOMAIN [rows EXCEPT ![i] = r] = DOMAIN rows
           /\ \A j \in DOMAIN rows : [rows EXCEPT ![i] = r][j] = IF j = i THEN r ELSE rows[j]
  BY ExceptSeq, LenProperties

(***************************************************************************)
(* Each commit leaves well-typed tables, with every row in its place.      *)
(***************************************************************************)
LEMMA WritesTyped ==
    ASSUME Typed, NEW s \in Workers, Writes(s)
    PROVE  Typed' /\ RowsStay /\ Complete(s)
<1> SUFFICES /\ Complete(s) /\ RowsStay
             /\ periods' \in Seq(FinancialPeriod)
             /\ (\A p \in DOMAIN periods : periods[p].closed <=> periods[p].closedBy # Nobody)'
             /\ (\A p, q \in DOMAIN periods : periods[p].from = periods[q].from => p = q)'
             /\ expenses' \in Seq(Expense)
             /\ (\A e \in DOMAIN expenses :
                     /\ expenses[e].approvedBy # expenses[e].createdBy
                     /\ expenses[e].status # "RECORDED" <=> expenses[e].approvedBy # Nobody)'
             /\ receipts' \in Seq(Receipt)
  BY FinishTyped DEF Typed, PeriodsTypeOK
<1>1. task[s] \in Task /\ Signing(task[s]) /\ Aims(task[s])
  BY DEF Typed, PeriodsTypeOK
<1> USE PeriodsAssumption
<1>2. CASE WriteCreatePeriod(s)
  <2> DEFINE new == [from |-> task[s].day, to |-> task[s].to, closed |-> FALSE, closedBy |-> Nobody]
  <2>1. new \in FinancialPeriod /\ periods \in Seq(FinancialPeriod)
    BY <1>1 DEF Task, FinancialPeriod, People, Typed, PeriodsTypeOK
  <2>2. /\ periods' \in Seq(FinancialPeriod)
        /\ DOMAIN periods' = DOMAIN periods \cup {Len(periods) + 1}
        /\ Len(periods) + 1 \notin DOMAIN periods
        /\ \A i \in DOMAIN periods : periods'[i] = periods[i]
        /\ periods'[Len(periods) + 1] = new
    BY <1>2, <2>1, InsertRow DEF WriteCreatePeriod
  <2> HIDE DEF new
  <2>3. /\ Complete(s) /\ UNCHANGED books /\ new.closed = FALSE /\ new.closedBy = Nobody
        /\ \A p \in DOMAIN periods : periods[p].from # new.from
    BY <1>2 DEF WriteCreatePeriod, StartsAlone, new
  <2> QED
    BY <2>2, <2>3 DEF RowsStay, books, Typed, PeriodsTypeOK
<1>3. CASE WriteClosePeriod(s)
  <2> DEFINE p == task[s].row
             new == [periods[p] EXCEPT !.closed = TRUE, !.closedBy = task[s].user]
  <2>1. p \in DOMAIN periods /\ periods[p] \in FinancialPeriod /\ task[s].user \in Staff
    BY <1>1, <1>3, RowsTyped DEF WriteClosePeriod, Serving, Aims, Signing
  <2>2. new \in FinancialPeriod /\ new.closed = TRUE /\ new.closedBy = task[s].user
        /\ new.from = periods[p].from /\ new.to = periods[p].to
    BY <2>1 DEF FinancialPeriod, People
  <2>3. periods' = [periods EXCEPT ![p] = new]
    BY <1>3 DEF WriteClosePeriod
  <2> HIDE DEF p, new
  <2>4. /\ periods' \in Seq(FinancialPeriod)
        /\ DOMAIN periods' = DOMAIN periods
        /\ \A j \in DOMAIN periods : periods'[j] = IF j = p THEN new ELSE periods[j]
    BY <2>1, <2>2, <2>3, SaveRow DEF Typed, PeriodsTypeOK
  <2>5. Complete(s) /\ UNCHANGED books
    BY <1>3 DEF WriteClosePeriod
  <2>6. RowsStay
    BY <2>1, <2>2, <2>4, <2>5 DEF RowsStay, books
  <2>7. new.closed <=> new.closedBy # Nobody
    BY <2>1, <2>2
  <2>8. (\A q \in DOMAIN periods : periods[q].closed <=> periods[q].closedBy # Nobody)'
    BY <2>4, <2>7 DEF Typed, PeriodsTypeOK
  <2> QED
    BY <2>1, <2>2, <2>4, <2>5, <2>6, <2>8, SMTT(30) DEF books, Typed, PeriodsTypeOK
<1>4. CASE WriteRecord(s)
  <2> DEFINE new == [day |-> task[s].day, status |-> "RECORDED", createdBy |-> task[s].user,
                     approvedBy |-> Nobody]
  <2>1. new \in Expense /\ expenses \in Seq(Expense) /\ new.createdBy # Nobody
    BY <1>1, <1>4 DEF WriteRecord, Serving, Signing, Task, Expense, People, Typed, PeriodsTypeOK
  <2>2. /\ expenses' \in Seq(Expense)
        /\ DOMAIN expenses' = DOMAIN expenses \cup {Len(expenses) + 1}
        /\ \A i \in DOMAIN expenses : expenses'[i] = expenses[i]
        /\ expenses'[Len(expenses) + 1] = new
    BY <1>4, <2>1, InsertRow DEF WriteRecord
  <2>3. Complete(s) /\ UNCHANGED <<periods, receipts>>
    BY <1>4 DEF WriteRecord
  <2> QED
    BY <2>1, <2>2, <2>3 DEF RowsStay, Typed, PeriodsTypeOK
<1>5. CASE WriteDecide(s)
  <2> DEFINE e == task[s].row
             new == [expenses[e] EXCEPT !.status = task[s].status, !.approvedBy = task[s].user]
  <2>1. e \in DOMAIN expenses /\ expenses[e] \in Expense /\ task[s].user \in Staff
        /\ task[s].status # "RECORDED" /\ expenses[e].createdBy # task[s].user
    BY <1>1, <1>5, RowsTyped DEF WriteDecide, Serving, Aims, Signing
  <2>2. new \in Expense /\ new.status = task[s].status /\ new.approvedBy = task[s].user
        /\ new.day = expenses[e].day /\ new.createdBy = expenses[e].createdBy
    BY <1>1, <2>1 DEF Expense, People, Task
  <2>3. expenses' = [expenses EXCEPT ![e] = new]
    BY <1>5 DEF WriteDecide
  <2> HIDE DEF e, new
  <2>4. /\ expenses' \in Seq(Expense)
        /\ DOMAIN expenses' = DOMAIN expenses
        /\ \A j \in DOMAIN expenses : expenses'[j] = IF j = e THEN new ELSE expenses[j]
    BY <2>1, <2>2, <2>3, SaveRow DEF Typed, PeriodsTypeOK
  <2>5. Complete(s) /\ UNCHANGED <<periods, receipts>>
    BY <1>5 DEF WriteDecide
  <2>6. \A j \in DOMAIN expenses : expenses'[j].day = expenses[j].day
    BY <2>2, <2>4
  <2>7. RowsStay
    BY <2>4, <2>5, <2>6 DEF RowsStay
  <2>8. ASSUME NEW j \in DOMAIN expenses
        PROVE  /\ expenses'[j].approvedBy # expenses'[j].createdBy
               /\ expenses'[j].status # "RECORDED" <=> expenses'[j].approvedBy # Nobody
    <3>1. CASE j = e
      BY <2>1, <2>2, <2>4, <3>1
    <3>2. CASE j # e
      BY <2>4, <3>2 DEF Typed, PeriodsTypeOK
    <3> QED
      BY <3>1, <3>2
  <2>9. (\A j \in DOMAIN expenses :
             /\ expenses[j].approvedBy # expenses[j].createdBy
             /\ expenses[j].status # "RECORDED" <=> expenses[j].approvedBy # Nobody)'
    BY <2>4, <2>8
  <2> QED
    BY <2>4, <2>5, <2>7, <2>9 DEF Typed, PeriodsTypeOK
<1>6. CASE WriteTakePayment(s)
  <2> DEFINE new == [day |-> task[s].day, status |-> "ISSUED"]
  <2>1. new \in Receipt /\ receipts \in Seq(Receipt)
    BY <1>1 DEF Task, Receipt, Typed, PeriodsTypeOK
  <2>2. /\ receipts' \in Seq(Receipt)
        /\ DOMAIN receipts' = DOMAIN receipts \cup {Len(receipts) + 1}
        /\ \A i \in DOMAIN receipts : receipts'[i] = receipts[i]
    BY <1>6, <2>1, InsertRow DEF WriteTakePayment
  <2>3. Complete(s) /\ UNCHANGED <<periods, expenses>>
    BY <1>6 DEF WriteTakePayment
  <2> QED
    BY <2>2, <2>3 DEF RowsStay, Typed, PeriodsTypeOK
<1>7. CASE WriteVoid(s)
  <2> DEFINE r == task[s].row
             new == [receipts[r] EXCEPT !.status = "VOIDED"]
  <2>1. r \in DOMAIN receipts /\ receipts[r] \in Receipt
    BY <1>1, <1>7, RowsTyped DEF WriteVoid, Serving, Aims
  <2>2. new \in Receipt /\ new.day = receipts[r].day
    BY <2>1 DEF Receipt
  <2>3. receipts' = [receipts EXCEPT ![r] = new]
    BY <1>7 DEF WriteVoid
  <2> HIDE DEF r, new
  <2>4. /\ receipts' \in Seq(Receipt)
        /\ DOMAIN receipts' = DOMAIN receipts
        /\ \A j \in DOMAIN receipts : receipts'[j] = IF j = r THEN new ELSE receipts[j]
    BY <2>1, <2>2, <2>3, SaveRow DEF Typed, PeriodsTypeOK
  <2>5. Complete(s) /\ UNCHANGED <<periods, expenses>>
    BY <1>7 DEF WriteVoid
  <2> QED
    BY <2>2, <2>4, <2>5 DEF RowsStay, Typed, PeriodsTypeOK
<1> QED
  BY <1>2, <1>3, <1>4, <1>5, <1>6, <1>7 DEF Writes

(***************************************************************************)
(* Every step keeps the types.                                             *)
(***************************************************************************)
LEMMA PeriodsBeginKeeps ==
    ASSUME Typed, NEW s \in Workers, NEW new, Sound(new), Start(s, new)
    PROVE  Typed'
  BY BeginTyped DEF Sound

LEMMA RollbackTyped ==
    ASSUME Typed, NEW s \in Workers, Abandon(s)
    PROVE  Typed'
  BY IdleTyped DEF Abandon, books, Typed, PeriodsTypeOK, Signing, Aims

LEMMA NextSteps ==
    ASSUME PeriodsNext
    PROVE  \E s \in Workers : Reads(s) \/ Writes(s) \/ Abandon(s)
  BY DEF PeriodsNext, FinancialPeriodsView, ExpensesView, Reads, Writes

LEMMA StepTyped ==
    ASSUME Typed, [PeriodsNext]_periodsVars
    PROVE  Typed'
<1>1. CASE UNCHANGED periodsVars
  BY <1>1 DEF periodsVars, books, Typed, PeriodsTypeOK, Signing, Aims
<1>2. CASE PeriodsNext
  BY <1>2, NextSteps, ReadsJudge, PeriodsBeginKeeps, WritesTyped, RollbackTyped
<1> QED
  BY <1>1, <1>2

LEMMA InitTyped == PeriodsInit => Typed
<1> SUFFICES ASSUME PeriodsInit PROVE Typed
  OBVIOUS
<1>1. \A s \in Workers : task[s] = NoTask
  BY DEF PeriodsInit
<1>2. \A s \in Workers : Signing(task[s]) /\ Aims(task[s])
  BY <1>1, IdleTyped
<1>3. task \in [Workers -> Task]
  BY IdleTyped DEF PeriodsInit
<1>4. DOMAIN periods = {} /\ DOMAIN expenses = {}
  BY DEF PeriodsInit
<1>5. periods \in Seq(FinancialPeriod) /\ expenses \in Seq(Expense) /\ receipts \in Seq(Receipt)
  BY EmptySeq DEF PeriodsInit
<1> QED
  BY <1>2, <1>3, <1>4, <1>5 DEF PeriodsInit, Typed, PeriodsTypeOK

(***************************************************************************)
(* Types, one period a starting day, one hand for a close and another for  *)
(* a decision than for the record, in every interleaving.                  *)
(***************************************************************************)
THEOREM PeriodsTypeCorrect == PeriodsSpec => []PeriodsTypeOK
<1>1. PeriodsSpec => []Typed
  BY InitTyped, StepTyped, PTL DEF PeriodsSpec
<1> QED
  BY <1>1, PTL DEF Typed

-----------------------------------------------------------------------------
(* What a request was judged by is so until a commit overtakes it. *)

(***************************************************************************)
(* What no commit has outdated is still judged right: the commit of s is   *)
(* told to whoever it concerns.                                            *)
(***************************************************************************)
LEMMA PeriodsFinishTells ==
    ASSUME Typed, NEW s \in Workers, Complete(s)
    PROVE  /\ task'[s] = NoTask
           /\ \A t \in Workers \ {s} :
                 ~task'[t].overtaken =>
                     /\ ~task[t].overtaken /\ ~Outdates(task[s], task[t])
                     /\ task'[t].op = task[t].op /\ task'[t].row = task[t].row
                     /\ task'[t].day = task[t].day /\ task'[t].to = task[t].to
<1>1. \A t \in Workers : task[t] \in Task
  BY DEF Typed, PeriodsTypeOK
<1>2. task'[s] = NoTask
  BY DEF Complete
<1>3. ASSUME NEW t \in Workers \ {s}, ~task'[t].overtaken
      PROVE  /\ ~task[t].overtaken /\ ~Outdates(task[s], task[t])
             /\ task'[t].op = task[t].op /\ task'[t].row = task[t].row
             /\ task'[t].day = task[t].day /\ task'[t].to = task[t].to
  <2>1. task'[t] = [task[t] EXCEPT !.overtaken = @ \/ Outdates(task[s], task[t])]
    BY DEF Complete
  <2> QED
    BY <1>1, <1>3, <2>1 DEF Task
<1> QED
  BY <1>2, <1>3

(***************************************************************************)
(* It suffices that a commit upsets no judgement but those it tells.       *)
(***************************************************************************)
LEMMA PeriodsCommitKeeps ==
    ASSUME Sighted, NEW s \in Workers, Complete(s),
           \A q \in Task :
               Aims(q) /\ Judged(q) /\ ~Outdates(task[s], q) => Judged(q)'
    PROVE  Current'
<1> SUFFICES ASSUME NEW t \in Workers, ~task'[t].overtaken
             PROVE  Judged(task[t])'
  BY DEF Current
<1>1. CASE t = s
  <2>1. task'[t] = NoTask
    BY <1>1, PeriodsFinishTells DEF Sighted
  <2> QED
    BY <2>1 DEF Judged, NoTask, Movements
<1>2. CASE t # s
  <2>1. /\ ~task[t].overtaken /\ ~Outdates(task[s], task[t])
        /\ task'[t].op = task[t].op /\ task'[t].row = task[t].row
        /\ task'[t].day = task[t].day /\ task'[t].to = task[t].to
    BY <1>2, PeriodsFinishTells DEF Sighted
  <2>2. task[t] \in Task /\ Aims(task[t]) /\ Judged(task[t])
    BY <2>1 DEF Typed, PeriodsTypeOK, Current, Sighted
  <2>3. PICK q \in Task : q = task[t]
    BY <2>2
  <2>4. Judged(q)'
    BY <2>1, <2>2, <2>3
  <2> QED
    BY <2>1, <2>3, <2>4 DEF Judged
<1> QED
  BY <1>1, <1>2

(***************************************************************************)
(* What the two writes of a period do to the table.                        *)
(***************************************************************************)
LEMMA CreateInserts ==
    ASSUME Typed, NEW s \in Workers, WriteCreatePeriod(s)
    PROVE  /\ DOMAIN periods' = DOMAIN periods \cup {Len(periods) + 1}
           /\ \A p \in DOMAIN periods : periods'[p] = periods[p]
           /\ periods'[Len(periods) + 1].from = task[s].day
           /\ periods'[Len(periods) + 1].to = task[s].to
           /\ ~periods'[Len(periods) + 1].closed
           /\ UNCHANGED <<expenses, receipts>>
<1> DEFINE new == [from |-> task[s].day, to |-> task[s].to, closed |-> FALSE, closedBy |-> Nobody]
<1>1. new \in FinancialPeriod /\ periods \in Seq(FinancialPeriod)
  BY DEF Task, FinancialPeriod, People, Typed, PeriodsTypeOK
<1>2. periods' = Append(periods, new) /\ UNCHANGED <<expenses, receipts>>
  BY DEF WriteCreatePeriod, books
<1>3. new.from = task[s].day /\ new.to = task[s].to /\ new.closed = FALSE
  OBVIOUS
<1> HIDE DEF new
<1> QED
  BY <1>1, <1>2, <1>3, InsertRow

LEMMA CloseSaves ==
    ASSUME Typed, NEW s \in Workers, WriteClosePeriod(s)
    PROVE  /\ task[s].row \in DOMAIN periods
           /\ DOMAIN periods' = DOMAIN periods
           /\ \A p \in DOMAIN periods \ {task[s].row} : periods'[p] = periods[p]
           /\ periods'[task[s].row].from = periods[task[s].row].from
           /\ periods'[task[s].row].to = periods[task[s].row].to
           /\ periods'[task[s].row].closed
           /\ UNCHANGED <<expenses, receipts>>
<1> DEFINE p == task[s].row
           new == [periods[p] EXCEPT !.closed = TRUE, !.closedBy = task[s].user]
<1>1. /\ task[s] \in Task /\ Signing(task[s]) /\ Aims(task[s]) /\ task[s].op = "close"
  BY DEF Typed, PeriodsTypeOK, WriteClosePeriod, Serving
<1>2. p \in DOMAIN periods /\ periods[p] \in FinancialPeriod /\ task[s].user \in Staff
  BY <1>1, RowsTyped DEF Aims, Signing
<1>3. /\ new \in FinancialPeriod /\ new.closed = TRUE
      /\ new.from = periods[p].from /\ new.to = periods[p].to
  BY <1>2 DEF FinancialPeriod, People
<1>4. periods' = [periods EXCEPT ![p] = new] /\ UNCHANGED <<expenses, receipts>>
  BY DEF WriteClosePeriod, books
<1> HIDE DEF new
<1>5. /\ DOMAIN periods' = DOMAIN periods
      /\ \A j \in DOMAIN periods : periods'[j] = IF j = p THEN new ELSE periods[j]
  BY <1>2, <1>3, <1>4, SaveRow DEF Typed, PeriodsTypeOK
<1> QED
  BY <1>2, <1>3, <1>4, <1>5

(***************************************************************************)
(* What days a new period and a close leave as they were.  A new one is    *)
(* open, so no day comes to be closed by it; it hides the close of another *)
(* only on its own days.  A close reopens nothing.                         *)
(***************************************************************************)
LEMMA PeriodDays ==
    ASSUME Typed
    PROVE  /\ \A p \in DOMAIN periods : periods[p].from \in Int /\ periods[p].to \in Int
           /\ \A q \in Task : q.day \in Int /\ q.to \in Int
           /\ \A s \in Workers : task[s] \in Task
           /\ \A day \in Days : day \in Int
  BY RowsTyped DEF FinancialPeriod, Task, Days, Typed, PeriodsTypeOK

LEMMA CreateCloses ==
    ASSUME Typed, NEW s \in Workers, WriteCreatePeriod(s), NEW day \in Days
    PROVE  /\ Closed(day)' => Closed(day)
           /\ Closed(day) => Closed(day)' \/ (task[s].day <= day /\ day <= task[s].to)
<1> DEFINE n == Len(periods) + 1
<1>1. /\ DOMAIN periods' = DOMAIN periods \cup {n}
      /\ \A p \in DOMAIN periods : periods'[p] = periods[p]
      /\ periods'[n].from = task[s].day /\ periods'[n].to = task[s].to /\ ~periods'[n].closed
  BY CreateInserts
<1> HIDE DEF n
<1>2. ASSUME Closed(day)' PROVE Closed(day)
  <2>1. PICK p \in DOMAIN periods' :
           /\ Covers(p, day)' /\ periods'[p].closed
           /\ \A q \in DOMAIN periods' : Covers(q, day)' => periods'[q].from <= periods'[p].from
    BY <1>2 DEF Closed
  <2>2. p \in DOMAIN periods
    BY <1>1, <2>1
  <2> QED
    BY <1>1, <2>1, <2>2 DEF Closed, Covers
<1>3. ASSUME Closed(day), ~(task[s].day <= day /\ day <= task[s].to) PROVE Closed(day)'
  BY <1>1, <1>3 DEF Closed, Covers
<1> QED
  BY <1>2, <1>3

LEMMA CloseCloses ==
    ASSUME Typed, NEW s \in Workers, WriteClosePeriod(s), NEW day \in Days
    PROVE  /\ Closed(day)' => Closed(day) \/ (task[s].day <= day /\ day <= task[s].to)
           /\ Closed(day) => Closed(day)'
<1> DEFINE c == task[s].row
<1>1. /\ c \in DOMAIN periods
      /\ DOMAIN periods' = DOMAIN periods
      /\ \A j \in DOMAIN periods \ {c} : periods'[j] = periods[j]
      /\ periods'[c].from = periods[c].from /\ periods'[c].to = periods[c].to /\ periods'[c].closed
  BY CloseSaves
<1>2. task[s].day = periods[c].from /\ task[s].to = periods[c].to
  BY DEF WriteClosePeriod, Serving, Typed, Aims
<1> HIDE DEF c
<1>3. \A p \in DOMAIN periods : /\ periods'[p].from = periods[p].from /\ periods'[p].to = periods[p].to
                                /\ periods[p].closed => periods'[p].closed
                                /\ periods'[p].closed => periods[p].closed \/ p = c
  BY <1>1
<1> QED
  BY <1>1, <1>2, <1>3 DEF Closed, Covers

(***************************************************************************)
(* No commit spoils what others were judged by without telling them.       *)
(***************************************************************************)
LEMMA CreateKeeps ==
    ASSUME Sighted, NEW s \in Workers, WriteCreatePeriod(s)
    PROVE  Current'
<1> DEFINE n == Len(periods) + 1
<1>0. Typed
  BY DEF Sighted
<1>1. /\ DOMAIN periods' = DOMAIN periods \cup {n}
      /\ \A p \in DOMAIN periods : periods'[p] = periods[p]
      /\ periods'[n].from = task[s].day /\ periods'[n].to = task[s].to
      /\ UNCHANGED <<expenses, receipts>>
  BY <1>0, CreateInserts
<1> HIDE DEF n
<1>2. Complete(s) /\ task[s].op = "create"
  BY DEF WriteCreatePeriod, Serving
<1>3. ASSUME NEW q \in Task, Aims(q), Judged(q), ~Outdates(task[s], q)
      PROVE  Judged(q)'
  <2>1. q.op = "create" => ~Overlaps(q.day, q.to)'
    BY <1>0, <1>1, <1>2, <1>3, PeriodDays DEF Judged, Outdates, Overlaps
  <2>2. q.op \in Movements => RequireOpen(q.day)'
    BY <1>0, <1>3, CreateCloses DEF Judged, RequireOpen, Task
  <2> QED
    BY <1>1, <1>3, <2>1, <2>2 DEF Judged, Aims
<1> QED
  BY <1>2, <1>3, PeriodsCommitKeeps

LEMMA CloseKeeps ==
    ASSUME Sighted, NEW s \in Workers, WriteClosePeriod(s)
    PROVE  Current'
<1> DEFINE c == task[s].row
<1>0. Typed
  BY DEF Sighted
<1>1. /\ c \in DOMAIN periods
      /\ DOMAIN periods' = DOMAIN periods
      /\ \A j \in DOMAIN periods \ {c} : periods'[j] = periods[j]
      /\ periods'[c].from = periods[c].from /\ periods'[c].to = periods[c].to
      /\ UNCHANGED <<expenses, receipts>>
  BY <1>0, CloseSaves
<1>2. Complete(s) /\ task[s].op = "close"
  BY DEF WriteClosePeriod, Serving
<1>3. ASSUME NEW q \in Task, Aims(q), Judged(q), ~Outdates(task[s], q)
      PROVE  Judged(q)'
  <2>1. q.op = "create" => ~Overlaps(q.day, q.to)'
    BY <1>1, <1>3 DEF Judged, Overlaps
  <2>2. q.op \in Movements => RequireOpen(q.day)'
    BY <1>0, <1>2, <1>3, CloseCloses DEF Judged, RequireOpen, Outdates, Task
  <2>3. q.op = "close" => ~periods'[q.row].closed
    BY <1>1, <1>2, <1>3 DEF Judged, Outdates, Aims
  <2> QED
    BY <1>1, <1>3, <2>1, <2>2, <2>3 DEF Judged
<1> QED
  BY <1>2, <1>3, PeriodsCommitKeeps

(***************************************************************************)
(* What the writes of the movements do to the books.                       *)
(***************************************************************************)
LEMMA RecordInserts ==
    ASSUME Typed, NEW s \in Workers, WriteRecord(s)
    PROVE  /\ DOMAIN expenses' = DOMAIN expenses \cup {Len(expenses) + 1}
           /\ Len(expenses) + 1 \notin DOMAIN expenses
           /\ \A e \in DOMAIN expenses : expenses'[e] = expenses[e]
           /\ expenses'[Len(expenses) + 1].day = task[s].day
           /\ UNCHANGED <<periods, receipts>>
<1> DEFINE new == [day |-> task[s].day, status |-> "RECORDED", createdBy |-> task[s].user,
                   approvedBy |-> Nobody]
<1>1. new \in Expense /\ expenses \in Seq(Expense)
  BY DEF WriteRecord, Serving, Signing, Task, Expense, People, Typed, PeriodsTypeOK
<1>2. expenses' = Append(expenses, new) /\ UNCHANGED <<periods, receipts>> /\ new.day = task[s].day
  BY DEF WriteRecord
<1> HIDE DEF new
<1> QED
  BY <1>1, <1>2, InsertRow

LEMMA DecideSaves ==
    ASSUME Typed, NEW s \in Workers, WriteDecide(s)
    PROVE  /\ task[s].row \in DOMAIN expenses
           /\ DOMAIN expenses' = DOMAIN expenses
           /\ \A e \in DOMAIN expenses \ {task[s].row} : expenses'[e] = expenses[e]
           /\ expenses'[task[s].row].day = expenses[task[s].row].day
           /\ expenses'[task[s].row].createdBy = expenses[task[s].row].createdBy
           /\ UNCHANGED <<periods, receipts>>
<1> DEFINE e == task[s].row
           new == [expenses[e] EXCEPT !.status = task[s].status, !.approvedBy = task[s].user]
<1>1. /\ task[s] \in Task /\ Signing(task[s]) /\ Aims(task[s]) /\ task[s].op = "decide"
  BY DEF Typed, PeriodsTypeOK, WriteDecide, Serving
<1>2. e \in DOMAIN expenses /\ expenses[e] \in Expense /\ task[s].user \in Staff
  BY <1>1, RowsTyped DEF Aims, Signing
<1>3. /\ new \in Expense
      /\ new.day = expenses[e].day /\ new.createdBy = expenses[e].createdBy
  BY <1>1, <1>2 DEF Expense, People, Task
<1>4. expenses' = [expenses EXCEPT ![e] = new] /\ UNCHANGED <<periods, receipts>>
  BY DEF WriteDecide
<1> HIDE DEF new
<1>5. /\ DOMAIN expenses' = DOMAIN expenses
      /\ \A j \in DOMAIN expenses : expenses'[j] = IF j = e THEN new ELSE expenses[j]
  BY <1>2, <1>3, <1>4, SaveRow DEF Typed, PeriodsTypeOK
<1> QED
  BY <1>2, <1>3, <1>4, <1>5

LEMMA PaymentInserts ==
    ASSUME Typed, NEW s \in Workers, WriteTakePayment(s)
    PROVE  /\ DOMAIN receipts' = DOMAIN receipts \cup {Len(receipts) + 1}
           /\ Len(receipts) + 1 \notin DOMAIN receipts
           /\ \A r \in DOMAIN receipts : receipts'[r] = receipts[r]
           /\ receipts'[Len(receipts) + 1].day = task[s].day
           /\ UNCHANGED <<periods, expenses>>
<1> DEFINE new == [day |-> task[s].day, status |-> "ISSUED"]
<1>1. new \in Receipt /\ receipts \in Seq(Receipt)
  BY DEF Task, Receipt, Typed, PeriodsTypeOK
<1>2. receipts' = Append(receipts, new) /\ UNCHANGED <<periods, expenses>> /\ new.day = task[s].day
  BY DEF WriteTakePayment
<1> HIDE DEF new
<1> QED
  BY <1>1, <1>2, InsertRow

LEMMA VoidSaves ==
    ASSUME Typed, NEW s \in Workers, WriteVoid(s)
    PROVE  /\ task[s].row \in DOMAIN receipts
           /\ task[s].day = receipts[task[s].row].day
           /\ DOMAIN receipts' = DOMAIN receipts
           /\ \A r \in DOMAIN receipts \ {task[s].row} : receipts'[r] = receipts[r]
           /\ receipts'[task[s].row].day = receipts[task[s].row].day
           /\ UNCHANGED <<periods, expenses>>
<1> DEFINE r == task[s].row
           new == [receipts[r] EXCEPT !.status = "VOIDED"]
<1>1. task[s] \in Task /\ Aims(task[s]) /\ task[s].op = "void"
  BY DEF Typed, PeriodsTypeOK, WriteVoid, Serving
<1>2. r \in DOMAIN receipts /\ receipts[r] \in Receipt /\ task[s].day = receipts[r].day
  BY <1>1, RowsTyped DEF Aims
<1>3. new \in Receipt /\ new.day = receipts[r].day
  BY <1>2 DEF Receipt
<1>4. receipts' = [receipts EXCEPT ![r] = new] /\ UNCHANGED <<periods, expenses>>
  BY DEF WriteVoid
<1> HIDE DEF new
<1>5. /\ DOMAIN receipts' = DOMAIN receipts
      /\ \A j \in DOMAIN receipts : receipts'[j] = IF j = r THEN new ELSE receipts[j]
  BY <1>2, <1>3, <1>4, SaveRow DEF Typed, PeriodsTypeOK
<1> QED
  BY <1>2, <1>3, <1>4, <1>5

(***************************************************************************)
(* A movement leaves the periods as they are, and of expenses changes at   *)
(* most the one whose deciders it tells.                                   *)
(***************************************************************************)
LEMMA MovementKeeps ==
    ASSUME Sighted, NEW s \in Workers,
           WriteRecord(s) \/ WriteDecide(s) \/ WriteTakePayment(s) \/ WriteVoid(s)
    PROVE  Current'
<1>1. Complete(s) /\ UNCHANGED periods /\ Typed
  BY DEF WriteRecord, WriteDecide, WriteTakePayment, WriteVoid, Sighted
<1>2. \A e \in DOMAIN expenses :
         expenses'[e] = expenses[e] \/ (task[s].op = "decide" /\ task[s].row = e)
  <2>1. CASE WriteRecord(s)
    BY <1>1, <2>1, RecordInserts
  <2>2. CASE WriteDecide(s)
    BY <1>1, <2>2, DecideSaves DEF WriteDecide, Serving
  <2>3. CASE WriteTakePayment(s) \/ WriteVoid(s)
    BY <2>3 DEF WriteTakePayment, WriteVoid
  <2> QED
    BY <2>1, <2>2, <2>3
<1>3. ASSUME NEW q \in Task, Aims(q), Judged(q), ~Outdates(task[s], q)
      PROVE  Judged(q)'
  <2>1. /\ q.op = "create" => ~Overlaps(q.day, q.to)'
        /\ q.op \in Movements => RequireOpen(q.day)'
        /\ q.op = "close" => ~periods'[q.row].closed
    BY <1>1, <1>3 DEF Judged, Overlaps, RequireOpen, Closed, Covers
  <2>2. q.op = "decide" => expenses'[q.row].status = "RECORDED"
    BY <1>2, <1>3 DEF Judged, Outdates, Aims
  <2> QED
    BY <2>1, <2>2 DEF Judged
<1> QED
  BY <1>1, <1>3, PeriodsCommitKeeps

(***************************************************************************)
(* Every request in flight that was not overtaken is judged right.         *)
(***************************************************************************)
LEMMA StepSighted ==
    ASSUME Sighted, [PeriodsNext]_periodsVars
    PROVE  Sighted'
<1>1. Typed /\ Typed' /\ Current
  BY StepTyped DEF Sighted
<1> SUFFICES Current'
  BY <1>1 DEF Sighted
<1>2. CASE UNCHANGED periodsVars
  BY <1>1, <1>2 DEF periodsVars, books, Current, Judged, Overlaps, RequireOpen, Closed, Covers
<1>3. ASSUME NEW s \in Workers, Reads(s)
      PROVE  Current'
  <2>1. PICK new : Sound(new) /\ Start(s, new)
    BY <1>1, <1>3, ReadsJudge
  <2>2. UNCHANGED <<periods, expenses, receipts>> /\ task' = [task EXCEPT ![s] = new]
    BY <2>1 DEF Start, books
  <2>3. \A t \in Workers : task'[t] = IF t = s THEN new ELSE task[t]
    BY <1>1, <2>2 DEF Typed, PeriodsTypeOK
  <2>4. Current /\ Judged(new)
    BY <1>1, <2>1 DEF Sound
  <2> QED
    BY <2>2, <2>3, <2>4 DEF Current, Judged, Overlaps, RequireOpen, Closed, Covers
<1>4. ASSUME NEW s \in Workers, Writes(s)
      PROVE  Current'
  BY <1>4, CreateKeeps, CloseKeeps, MovementKeeps DEF Writes
<1>5. ASSUME NEW s \in Workers, Abandon(s)
      PROVE  Current'
  <2>1. UNCHANGED <<periods, expenses, receipts>> /\ task' = [task EXCEPT ![s] = NoTask]
    BY <1>5 DEF Abandon, books
  <2>2. \A t \in Workers : task'[t] = IF t = s THEN NoTask ELSE task[t]
    BY <1>1, <2>1 DEF Typed, PeriodsTypeOK
  <2> QED
    BY <1>1, <2>1, <2>2
       DEF Current, Judged, Overlaps, RequireOpen, Closed, Covers, NoTask, Movements
<1> QED
  BY <1>2, <1>3, <1>4, <1>5, NextSteps

LEMMA AlwaysSighted == PeriodsSpec => []Sighted
<1>1. PeriodsInit => Sighted
  BY InitTyped DEF Sighted, PeriodsInit, Current, Judged, NoTask, Movements
<1> QED
  BY <1>1, StepSighted, PTL DEF PeriodsSpec

-----------------------------------------------------------------------------
(* What a signed-off month keeps. *)

(***************************************************************************)
(* What a closed day keeps.                                                *)
(***************************************************************************)
Shut(day) ==
    /\ Closed(day)'
    /\ ReceiptsOf(day)' = ReceiptsOf(day)
    /\ Entered(day)' = Entered(day)

(***************************************************************************)
(* A write leaves a closed day closed, and what it has, unless it is about *)
(* that day and came too late.                                             *)
(***************************************************************************)
LEMMA WriteKeepsMonth ==
    ASSUME Sighted, NEW s \in Workers, Writes(s),
           NEW day \in Days, Closed(day)
    PROVE  Shut(day) \/ (task[s].overtaken /\ day \in DaysOf(task[s]))
<1>0. Typed /\ task[s] \in Task
  BY DEF Sighted, Typed, PeriodsTypeOK
<1>1. ~task[s].overtaken => Judged(task[s])
  BY DEF Sighted, Current
<1>2. task[s].op \in Movements =>
          task[s].day # day \/ (task[s].overtaken /\ day \in DaysOf(task[s]))
  BY <1>1 DEF Judged, RequireOpen, DaysOf, Movements
<1>3. CASE WriteCreatePeriod(s)
  <2>1. UNCHANGED <<expenses, receipts>> /\ task[s].op = "create"
    BY <1>0, <1>3, CreateInserts DEF WriteCreatePeriod, Serving
  <2>2. CASE Closed(day)'
    BY <2>1, <2>2 DEF Shut, ReceiptsOf, Entered, Of
  <2>3. CASE ~Closed(day)'
    <3>1. task[s].day <= day /\ day <= task[s].to
      BY <1>0, <1>3, <2>3, CreateCloses
    <3>2. day \in DaysOf(task[s])
      BY <1>0, <2>1, <3>1, PeriodDays DEF DaysOf
    <3>3. PICK p \in DOMAIN periods : Covers(p, day)
      BY DEF Closed
    <3>4. Overlaps(task[s].day, task[s].to)
      BY <1>0, <3>1, <3>3, PeriodDays DEF Overlaps, Covers
    <3> QED
      BY <1>1, <2>1, <3>2, <3>4 DEF Judged
  <2> QED
    BY <2>2, <2>3
<1>4. CASE WriteClosePeriod(s)
  <2>1. Closed(day)' /\ UNCHANGED <<expenses, receipts>>
    BY <1>0, <1>4, CloseCloses, CloseSaves
  <2> QED
    BY <2>1 DEF Shut, ReceiptsOf, Entered, Of
<1>5. CASE WriteRecord(s) \/ WriteDecide(s)
  <2>1. Closed(day)' /\ ReceiptsOf(day)' = ReceiptsOf(day)
    BY <1>5 DEF WriteRecord, WriteDecide, Closed, Covers, ReceiptsOf, Of
  <2>2. CASE WriteRecord(s) /\ task[s].day # day
    <3>1. Of(expenses, day)' = Of(expenses, day)
      BY <1>0, <2>2, RecordInserts DEF Of
    <3>2. \A e \in Of(expenses, day) : expenses'[e].createdBy = expenses[e].createdBy
      BY <1>0, <2>2, RecordInserts DEF Of
    <3> QED
      BY <2>1, <3>1, <3>2 DEF Shut, Entered
  <2>3. CASE WriteDecide(s)
    <3>1. Of(expenses, day)' = Of(expenses, day)
      BY <1>0, <2>3, DecideSaves DEF Of
    <3>2. \A e \in Of(expenses, day) : expenses'[e].createdBy = expenses[e].createdBy
      BY <1>0, <2>3, DecideSaves DEF Of
    <3> QED
      BY <2>1, <3>1, <3>2 DEF Shut, Entered
  <2> QED
    BY <1>2, <1>5, <2>2, <2>3 DEF WriteRecord, Serving, Movements
<1>6. CASE WriteTakePayment(s) \/ WriteVoid(s)
  <2>1. Closed(day)' /\ Entered(day)' = Entered(day)
    BY <1>6 DEF WriteTakePayment, WriteVoid, Closed, Covers, Entered, Of
  <2>2. CASE WriteTakePayment(s) /\ task[s].day # day
    <3>1. Of(receipts, day)' = Of(receipts, day)
      BY <1>0, <2>2, PaymentInserts DEF Of
    <3>2. \A r \in Of(receipts, day) : receipts'[r] = receipts[r]
      BY <1>0, <2>2, PaymentInserts DEF Of
    <3> QED
      BY <2>1, <3>1, <3>2 DEF Shut, ReceiptsOf
  <2>3. CASE WriteVoid(s) /\ task[s].day # day
    <3>1. task[s].day = receipts[task[s].row].day
      BY <1>0, <2>3, VoidSaves
    <3>2. Of(receipts, day)' = Of(receipts, day)
      BY <1>0, <2>3, VoidSaves DEF Of
    <3>3. \A r \in Of(receipts, day) : receipts'[r] = receipts[r]
      BY <1>0, <2>3, <3>1, VoidSaves DEF Of
    <3> QED
      BY <2>1, <3>2, <3>3 DEF Shut, ReceiptsOf
  <2> QED
    BY <1>2, <1>6, <2>2, <2>3 DEF WriteTakePayment, WriteVoid, Serving, Movements
<1> QED
  BY <1>3, <1>4, <1>5, <1>6 DEF Writes

(***************************************************************************)
(* A step that writes a table is a commit.                                 *)
(***************************************************************************)
LEMMA OnlyCommits ==
    ASSUME Typed, [PeriodsNext]_periodsVars, ~(UNCHANGED <<periods, books>>)
    PROVE  \E s \in Workers : Writes(s) /\ (task[s].overtaken => Late(s))
<1>1. \A s \in Workers : Reads(s) => UNCHANGED <<periods, books>>
  BY ReadsJudge DEF Start
<1>2. \A s \in Workers : Abandon(s) => UNCHANGED <<periods, books>>
  BY DEF Abandon
<1>3. PICK s \in Workers : Writes(s)
  BY <1>1, <1>2, NextSteps DEF periodsVars
<1>4. task'[s] = NoTask
  BY <1>3, WritesTyped, PeriodsFinishTells
<1> QED
  BY <1>3, <1>4 DEF Late

LEMMA StepKeepsMonth ==
    ASSUME Sighted, [PeriodsNext]_periodsVars
    PROVE  [\A day \in Days :
               Closed(day) =>
                   \/ /\ Closed(day)'
                      /\ ReceiptsOf(day)' = ReceiptsOf(day)
                      /\ Entered(day)' = Entered(day)
                   \/ \E s \in Workers : Late(s) /\ day \in DaysOf(task[s])]_<<periods, books>>
<1> SUFFICES ASSUME ~(UNCHANGED <<periods, books>>), NEW day \in Days, Closed(day)
             PROVE  Shut(day) \/ \E s \in Workers : Late(s) /\ day \in DaysOf(task[s])
  BY DEF Shut
<1>1. PICK s \in Workers : Writes(s) /\ (task[s].overtaken => Late(s))
  BY OnlyCommits DEF Sighted
<1> QED
  BY <1>1, WriteKeepsMonth

(***************************************************************************)
(* A closed month stays closed and keeps its receipts, voids and expenses, *)
(* whatever runs at the same time and whatever was overtaken before: what  *)
(* moves it is a request about one of its days that asked whether it was   *)
(* open before it was closed, and commits after.                           *)
(***************************************************************************)
THEOREM MonthSigned == PeriodsSpec => MonthStaysSigned
<1>1. PeriodsSpec => []Sighted /\ [][PeriodsNext]_periodsVars
  BY AlwaysSighted, PTL DEF PeriodsSpec
<1> QED
  BY <1>1, StepKeepsMonth, PTL DEF MonthStaysSigned

LEMMA StepKeepsSignatures ==
    ASSUME Sighted, [PeriodsNext]_periodsVars
    PROVE  [/\ \A p \in DOMAIN periods :
                  periods[p].closed => periods'[p] = periods[p] \/ Overwrites("close", p)
            /\ \A e \in DOMAIN expenses :
                  expenses[e].status # "RECORDED" =>
                      expenses'[e] = expenses[e] \/ Overwrites("decide", e)]_<<periods, books>>
<1>1. Typed /\ Current
  BY DEF Sighted
<1> SUFFICES ASSUME ~(UNCHANGED <<periods, books>>)
             PROVE  /\ \A p \in DOMAIN periods :
                           periods[p].closed => periods'[p] = periods[p] \/ Overwrites("close", p)
                    /\ \A e \in DOMAIN expenses :
                           expenses[e].status # "RECORDED" =>
                               expenses'[e] = expenses[e] \/ Overwrites("decide", e)
  OBVIOUS
<1>2. PICK s \in Workers : Writes(s) /\ (task[s].overtaken => Late(s))
  BY <1>1, OnlyCommits
<1>3. Judged(task[s]) \/ Late(s)
  BY <1>1, <1>2 DEF Current
<1>4. CASE WriteCreatePeriod(s)
  BY <1>1, <1>4, CreateInserts
<1>5. CASE WriteClosePeriod(s)
  BY <1>1, <1>3, <1>5, CloseSaves DEF WriteClosePeriod, Serving, Judged, Overwrites
<1>6. CASE WriteRecord(s)
  BY <1>1, <1>6, RecordInserts
<1>7. CASE WriteDecide(s)
  BY <1>1, <1>3, <1>7, DecideSaves DEF WriteDecide, Serving, Judged, Overwrites
<1>8. CASE WriteTakePayment(s) \/ WriteVoid(s)
  BY <1>8 DEF WriteTakePayment, WriteVoid
<1> QED
  BY <1>2, <1>4, <1>5, <1>6, <1>7, <1>8 DEF Writes

(***************************************************************************)
(* Who closed a period, and who decided what of an expense, is overwritten *)
(* by nobody but a second hand on the same row that had read it before.    *)
(***************************************************************************)
THEOREM Signed == PeriodsSpec => SignaturesStand
<1>1. PeriodsSpec => []Sighted /\ [][PeriodsNext]_periodsVars
  BY AlwaysSighted, PTL DEF PeriodsSpec
<1> QED
  BY <1>1, StepKeepsSignatures, PTL DEF SignaturesStand
=============================================================================
