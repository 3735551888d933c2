---------------------------- MODULE Settlements ----------------------------
(***************************************************************************)
(* What a partner is owed and what it owes (apps/settlements): claims      *)
(* built from money collected, obligations deducted from them, trainer     *)
(* absences turned into penalties, settlements that close a period.        *)
(*                                                                         *)
(* A settlement or an absence is loaded by the request and judged before   *)
(* the transaction that saves it: two steps.  Saving a claim reads it      *)
(* again, without a lock, before it is updated: approve_claim is three     *)
(* steps, and apply_offsets, which also reads the obligations inside its   *)
(* transaction, is four.  One partner; its share of the money is one to    *)
(* one.  Who may ask is left out.                                          *)
(***************************************************************************)
EXTENDS Integers, FiniteSets, SequencesExt

CONSTANTS
    Agreements,       \* of one partner
    Shares,           \* what a claim may come to, and a payment
    Amounts,          \* of obligations recorded by hand
    Scopes,           \* what obligations recorded by hand are pinned to
    Absences,         \* lectures a trainer may miss, of one cohort
    Sessions,         \* web requests in flight at one time
    Months,           \* the last month a claim may be for
    Cycle,            \* months a settlement covers
    MaxClaims, MaxObligations, MaxSettlements,   \* bounds
    MaxRaces          \* bound on the kinds of race there were and are: no request begins then

ASSUME BoundsAssumption ==
    {Months, Cycle, MaxClaims, MaxObligations, MaxSettlements, MaxRaces} \subseteq Nat

ASSUME AmountsAssumption == Shares \subseteq Nat /\ Amounts \subseteq Nat \ {0}

ASSUME AbsencesAssumption == IsFiniteSet(Absences)

VARIABLES
    collected,    \* agreement -> money received on lines the agreement shares
    claims,       \* settlements_partnerclaim
    deductions,   \* settlements_claimdeduction: claim, obligation -> sum of its rows
    obligations,  \* settlements_partnerobligation
    settlements,  \* settlements_partnersettlement
    absences,     \* settlements_trainerabsence
    req,          \* what each session has read and is about to write
    raced         \* history: what was written from reads another commit had outdated

ledger == <<collected, claims, deductions, obligations>>
vars == <<ledger, settlements, absences, req, raced>>

Partner == "partner"     \* the scope of an obligation pinned to no agreement

ASSUME ScopesAssumption == Scopes \subseteq Agreements \cup {Partner}

(***************************************************************************)
(* deducted: total_deductions; net_payable is what is left of the share.   *)
(* seal: the figures and deductions content_hash was computed over.        *)
(***************************************************************************)
NetPayable(claim) == claim.share - claim.deducted

Net == [c \in DOMAIN claims |-> NetPayable(claims[c])]

Frozen(claim) == claim.status = "APPROVED"

Rows == [1 .. MaxObligations -> Nat]

Claim == [agreement : Agreements, month : 1 .. Months, share : Nat, deducted : Nat,
          status : {"DRAFT", "APPROVED"}, settlement : Nat,
          seal : [deducted : Nat, rows : Rows]]

(***************************************************************************)
(* The status is a function of the amounts, written with them.  lectures:  *)
(* absence_count, 0 for what is not a penalty.                             *)
(***************************************************************************)
Obligation == [scope : Agreements \cup {Partner}, amount : Nat \ {0}, recovered : Nat,
               lectures : Nat]

Settlement == [agreement : Agreements, from : 1 .. Months, due : Int, paid : Nat,
               status : {"OPEN", "SIGNED"}]

BalanceOf(settlement) == settlement.due - settlement.paid

Absence == [state : {"unknown", "counted", "waived"}, obligation : Nat]

(***************************************************************************)
(* "frozen": the claim, after it was read again.                           *)
(***************************************************************************)
Races == {"claim", "frozen", "obligation", "settlement", "absence"}

ClaimSaves == {"save_offsets", "save_approval"}

ClaimOps == {"offsets", "spread_offsets", "approve"} \cup ClaimSaves

SettlementOps == {"open", "attach", "pay", "sign"}

AbsenceOps == {"waive", "penalise"}

Idle == [op |-> "idle", on |-> 0, with |-> 0, read |-> <<>>, overtaken |-> {}]

TypeOK ==
    /\ collected \in [Agreements -> Nat]
    /\ claims \in Seq(Claim)
    /\ \A c \in DOMAIN claims : /\ NetPayable(claims[c]) >= 0
                                /\ claims[c].settlement \in DOMAIN settlements \cup {0}
    /\ deductions \in [(1 .. MaxClaims) \X (1 .. MaxObligations) -> Nat]
    /\ obligations \in Seq(Obligation)
    /\ \A o \in DOMAIN obligations : obligations[o].recovered <= obligations[o].amount
    /\ settlements \in Seq(Settlement)
    /\ absences \in [Absences -> Absence]
    /\ \A s \in Sessions :
          /\ req[s].op \in {"idle"} \cup ClaimOps \cup SettlementOps \cup AbsenceOps
          /\ req[s].overtaken \in SUBSET Races
    /\ raced \in SUBSET Races

-----------------------------------------------------------------------------
(* Requests. *)

Free(s) == req[s] = Idle

Serving(s, op) == req[s].op = op

(***************************************************************************)
(* What the commit of request a takes away from under request b: the claim *)
(* or the settlement it loaded, the obligations it walked, the absences it *)
(* counted.                                                                *)
(***************************************************************************)
Outdates(race, a, b) ==
    CASE race = "claim" ->
            a.op \in ClaimSaves /\ b.op \in ClaimOps /\ b.on = a.on
      [] race = "frozen" ->
            a.op \in ClaimSaves /\ b.op \in ClaimSaves /\ b.on = a.on
      [] race = "obligation" ->
            a.op = "save_offsets" /\ b.op \in {"spread_offsets", "save_offsets"}
      [] race = "settlement" ->
            /\ a.op \in SettlementOps
            /\ \/ b.op \in SettlementOps \ {"open"} /\ b.on = a.on
               \/ a.op = "open" /\ b.op = "open" /\ b.read = a.read
               \/ a.op = "attach" /\ b.op \in {"approve", "save_approval"}
      [] race = "absence" ->
            a.op \in AbsenceOps /\ b.op \in AbsenceOps

(***************************************************************************)
(* Two requests in flight that cannot outdate one another might as well    *)
(* follow one another: only the others overlap here.                       *)
(***************************************************************************)
Later(r) ==
    CASE r.op \in {"offsets", "spread_offsets"} -> [r EXCEPT !.op = "save_offsets"]
      [] r.op = "approve" -> [r EXCEPT !.op = "save_approval"]
      [] OTHER -> r

MayOverlap(a, b) ==
    {race \in Races : Outdates(race, Later(a), Later(b)) \/ Outdates(race, Later(b), Later(a))} # {}

Begin(s, op, on, with, read) ==
    LET new == [Idle EXCEPT !.op = op, !.on = on, !.with = with, !.read = read]
    IN  /\ Free(s)
        /\ Cardinality(raced \cup UNION {req[t].overtaken : t \in Sessions}) < MaxRaces
        /\ \A t \in Sessions : Free(t) \/ MayOverlap(new, req[t])
        /\ req' = [req EXCEPT ![s] = new]
        /\ UNCHANGED <<ledger, settlements, absences, raced>>

Finish(s) ==
    /\ req' = [t \in Sessions |->
                  IF t = s THEN Idle
                  ELSE [req[t] EXCEPT !.overtaken = @ \cup {race \in Races : Outdates(race, req[s], req[t])}]]
    /\ raced' = raced \cup req[s].overtaken

Outdated(s, races) == req[s].overtaken \cap races # {}

Quiet == UNCHANGED <<req, raced>>

(***************************************************************************)
(* A refusal, a failed constraint or a lost connection: nothing is kept.   *)
(***************************************************************************)
Rollback(s) ==
    /\ ~Free(s)
    /\ req' = [req EXCEPT ![s] = Idle]
    /\ UNCHANGED <<ledger, settlements, absences, raced>>

-----------------------------------------------------------------------------
(* Claims. *)

RowsOf(c) == [o \in 1 .. MaxObligations |-> deductions[c, o]]

NoSeal == [deducted |-> 0, rows |-> [o \in 1 .. MaxObligations |-> 0]]

(***************************************************************************)
(* build_claim: the base is all that was ever collected from participants  *)
(* eligible at the end of the period; how much is left open, and no more   *)
(* came in than that.  The code of a claim holds its agreement and its     *)
(* month, and is unique.                                                   *)
(***************************************************************************)
BuildClaim(a, month, base) ==
    /\ Len(claims) < MaxClaims
    /\ \A c \in DOMAIN claims : <<claims[c].agreement, claims[c].month>> # <<a, month>>
    /\ collected' = [collected EXCEPT ![a] = Max({@, base})]
    /\ claims' = Append(claims, [agreement |-> a, month |-> month, share |-> base, deducted |-> 0,
                                 status |-> "DRAFT", settlement |-> 0, seal |-> NoSeal])
    /\ Quiet
    /\ UNCHANGED <<deductions, obligations, settlements, absences>>

(***************************************************************************)
(* PartnerClaim.save: a claim found frozen keeps its figures.  They are    *)
(* updated later, whatever it has become.                                  *)
(***************************************************************************)
SavesAny(c, deducted) == deducted <= claims[c].share

Saves(c, deducted) == Frozen(claims[c]) => deducted = claims[c].deducted

ReadOffsets(s, c) ==
    /\ ~Frozen(claims[c])
    /\ Begin(s, "offsets", c, 0, <<>>)

OpenObligations(a) ==
    {o \in DOMAIN obligations : /\ obligations[o].recovered < obligations[o].amount
                                /\ obligations[o].scope \in {Partner, a}}

Outstanding == [o \in DOMAIN obligations |-> obligations[o].amount - obligations[o].recovered]

(***************************************************************************)
(* The part of obligation o that a share bears after the open obligations  *)
(* before it.                                                              *)
(***************************************************************************)
Portion(share, open, o) ==
    LET before == SumFunctionOnSet(Outstanding, {p \in open : p < o})
    IN  Max({0, Min({Outstanding[o], share - before})})

RecoveredAfterOnly(o, portion) == portion

RecoveredAfter(o, portion) == obligations[o].recovered + portion

SpreadOffsets(s) ==
    /\ Serving(s, "offsets")
    /\ LET claim == claims[req[s].on]
           open  == OpenObligations(claim.agreement)
           borne == {o \in open : Portion(claim.share, open, o) > 0}
       IN  req' = [req EXCEPT
                      ![s].op = "spread_offsets",
                      ![s].read = [o \in borne |->
                          [portion   |-> Portion(claim.share, open, o),
                           recovered |-> RecoveredAfter(o, Portion(claim.share, open, o))]]]
    /\ UNCHANGED <<ledger, settlements, absences, raced>>

Total(rows) == SumFunction([o \in DOMAIN rows |-> rows[o].portion])

(***************************************************************************)
(* The deductions are inserted, and the claim is read again.               *)
(***************************************************************************)
SaveOffsets(s) ==
    /\ Serving(s, "spread_offsets")
    /\ Saves(req[s].on, Total(req[s].read))
    /\ req' = [req EXCEPT ![s].op = "save_offsets"]
    /\ UNCHANGED <<ledger, settlements, absences, raced>>

(***************************************************************************)
(* A deduction that is not committed shares the lock of its claim, by its  *)
(* foreign key: nobody else updates the claim.                             *)
(***************************************************************************)
Referenced(s, c) ==
    \E t \in Sessions \ {s} :
        Serving(t, "save_offsets") /\ req[t].on = c /\ DOMAIN req[t].read # {}

WriteOffsets(s) ==
    LET c    == req[s].on
        rows == req[s].read
    IN  /\ Serving(s, "save_offsets")
        /\ ~Referenced(s, c)
        /\ claims' = [claims EXCEPT ![c].deducted = Total(rows)]
        /\ deductions' = [d \in DOMAIN deductions |->
                             IF d[1] = c /\ d[2] \in DOMAIN rows
                             THEN deductions[d] + rows[d[2]].portion ELSE deductions[d]]
        /\ obligations' = [o \in DOMAIN obligations |->
                              IF o \in DOMAIN rows
                              THEN [obligations[o] EXCEPT !.recovered = rows[o].recovered]
                              ELSE obligations[o]]
        /\ Finish(s)
        /\ UNCHANGED <<collected, settlements, absences>>

ReadApprove(s, c) ==
    /\ ~Frozen(claims[c])
    /\ NetPayable(claims[c]) >= 0
    /\ Begin(s, "approve", c, 0, claims[c])

(***************************************************************************)
(* The hash is over the figures of the instance loaded and the deductions  *)
(* found now; then the claim is read again.                                *)
(***************************************************************************)
SaveApproval(s) ==
    LET c    == req[s].on
        read == req[s].read
    IN  /\ Serving(s, "approve")
        /\ Saves(c, read.deducted)
        /\ req' = [req EXCEPT
                      ![s].op = "save_approval",
                      ![s].read = [read EXCEPT
                          !.status = "APPROVED",
                          !.seal = [deducted |-> read.deducted, rows |-> RowsOf(c)]]]
        /\ UNCHANGED <<ledger, settlements, absences, raced>>

(***************************************************************************)
(* The whole row is saved, with the figures of the instance loaded.        *)
(***************************************************************************)
WriteApprove(s) ==
    /\ Serving(s, "save_approval")
    /\ ~Referenced(s, req[s].on)
    /\ claims' = [claims EXCEPT ![req[s].on] = req[s].read]
    /\ Finish(s)
    /\ UNCHANGED <<collected, deductions, obligations, settlements, absences>>

-----------------------------------------------------------------------------
(* Obligations and absences. *)

Owe(scope, amount, lectures) ==
    /\ Len(obligations) < MaxObligations
    /\ obligations' = Append(obligations, [scope |-> scope, amount |-> amount, recovered |-> 0,
                                           lectures |-> lectures])

RecordObligation(scope, amount) ==
    /\ Owe(scope, amount, 0)
    /\ Quiet
    /\ UNCHANGED <<collected, claims, deductions, settlements, absences>>

(***************************************************************************)
(* A refund of money already claimed takes the partner's share back under  *)
(* the agreement that earned it.                                           *)
(***************************************************************************)
RecordRefundRecovery(a, amount) ==
    /\ \E c \in DOMAIN claims : claims[c].agreement = a /\ Frozen(claims[c])
    /\ Owe(a, amount, 0)
    /\ Quiet
    /\ UNCHANGED <<collected, claims, deductions, settlements, absences>>

RecordAbsence(x, state) ==
    /\ absences[x].state = "unknown"
    /\ absences' = [absences EXCEPT ![x].state = state]
    /\ Quiet
    /\ UNCHANGED <<ledger, settlements>>

ReadWaive(s, x) ==
    /\ absences[x] = [state |-> "counted", obligation |-> 0]
    /\ Begin(s, "waive", 0, x, <<>>)

WriteWaive(s) ==
    /\ Serving(s, "waive")
    /\ absences' = [absences EXCEPT ![req[s].with].state = "waived"]
    /\ Finish(s)
    /\ UNCHANGED <<ledger, settlements>>

Penalisable == {x \in Absences : absences[x] = [state |-> "counted", obligation |-> 0]}

ReadPenaltyForNone(s, a) == Begin(s, "penalise", 0, a, Penalisable)

ReadPenalty(s, a) ==
    /\ Penalisable # {}
    /\ Begin(s, "penalise", 0, a, Penalisable)

WritePenalty(s) ==
    LET fined == req[s].read
    IN  /\ Serving(s, "penalise")
        /\ Owe(req[s].with, Cardinality(fined), Cardinality(fined))
        /\ absences' = [x \in Absences |->
                           IF x \in fined THEN [absences[x] EXCEPT !.obligation = Len(obligations')]
                           ELSE absences[x]]
        /\ Finish(s)
        /\ UNCHANGED <<collected, claims, deductions, settlements>>

-----------------------------------------------------------------------------
(* Settlements. *)

Live(a) == {k \in DOMAIN settlements : /\ settlements[k].agreement = a
                                       /\ settlements[k].status = "OPEN"}

ReadOpen(s, a, from) ==
    /\ Live(a) = {}
    /\ Begin(s, "open", 0, from, a)

WriteOpen(s) ==
    /\ Serving(s, "open")
    /\ Len(settlements) < MaxSettlements
    /\ settlements' = Append(settlements, [agreement |-> req[s].read, from |-> req[s].with,
                                           due |-> 0, paid |-> 0, status |-> "OPEN"])
    /\ Finish(s)
    /\ UNCHANGED <<ledger, absences>>

RequireOpen(k) == settlements[k].status = "OPEN"

ReadSettlement(s, op, k, with) ==
    /\ RequireOpen(k)
    /\ Begin(s, op, k, with, settlements[k])

(***************************************************************************)
(* Saving amounts computed on the instance loaded: the CHECK on the        *)
(* balance compares them with the amount that is not saved.                *)
(***************************************************************************)
BalanceEquation(row, balance) == balance = BalanceOf(row)

Attachable(k) ==
    {c \in DOMAIN claims : /\ claims[c].agreement = settlements[k].agreement
                           /\ Frozen(claims[c]) /\ claims[c].settlement = 0
                           /\ claims[c].month - settlements[k].from \in 0 .. Cycle - 1}

WriteAttach(s) ==
    LET k   == req[s].on
        new == Attachable(k)
        due == req[s].read.due + SumFunctionOnSet(Net, new)
        row == [settlements[k] EXCEPT !.due = due]
    IN  /\ Serving(s, "attach")
        /\ BalanceEquation(row, due - req[s].read.paid)
        /\ settlements' = [settlements EXCEPT ![k] = row]
        /\ claims' = [c \in DOMAIN claims |->
                         IF c \in new THEN [claims[c] EXCEPT !.settlement = k] ELSE claims[c]]
        /\ Finish(s)
        /\ UNCHANGED <<collected, deductions, obligations, absences>>

ReadPayment(s, k, amount) ==
    /\ settlements[k].paid + amount <= settlements[k].due
    /\ ReadSettlement(s, "pay", k, amount)

WritePayment(s) ==
    LET k    == req[s].on
        paid == req[s].read.paid + req[s].with
        row  == [settlements[k] EXCEPT !.paid = paid]
    IN  /\ Serving(s, "pay")
        /\ BalanceEquation(row, req[s].read.due - paid)
        /\ settlements' = [settlements EXCEPT ![k] = row]
        /\ Finish(s)
        /\ UNCHANGED <<ledger, absences>>

ReadSign(s, k) ==
    /\ BalanceOf(settlements[k]) = 0
    /\ RequireOpen(k)
    /\ Begin(s, "sign", k, 0, <<>>)

WriteSign(s) ==
    /\ Serving(s, "sign")
    /\ settlements' = [settlements EXCEPT ![req[s].on].status = "SIGNED"]
    /\ Finish(s)
    /\ UNCHANGED <<ledger, absences>>

-----------------------------------------------------------------------------

Init ==
    /\ collected = [a \in Agreements |-> 0]
    /\ claims = <<>>
    /\ deductions = [d \in (1 .. MaxClaims) \X (1 .. MaxObligations) |-> 0]
    /\ obligations = <<>>
    /\ settlements = <<>>
    /\ absences = [x \in Absences |-> [state |-> "unknown", obligation |-> 0]]
    /\ req = [s \in Sessions |-> Idle]
    /\ raced = {}

(***************************************************************************)
(* The screens, each with the requests it can make, and what is raised     *)
(* from elsewhere.                                                         *)
(***************************************************************************)
HandleClaimList ==
    \E a \in Agreements, month \in 1 .. Months, base \in Shares : BuildClaim(a, month, base)

ClaimDetailView(s) ==
    \/ \E c \in DOMAIN claims : ReadOffsets(s, c) \/ ReadApprove(s, c)
    \/ SpreadOffsets(s) \/ SaveOffsets(s) \/ WriteOffsets(s)
    \/ SaveApproval(s) \/ WriteApprove(s)

ObligationsView == \E scope \in Scopes, amount \in Amounts : RecordObligation(scope, amount)

RefundRecovery == \E a \in Agreements, amount \in Amounts : RecordRefundRecovery(a, amount)

RecordAbsenceForm ==
    \E x \in Absences, state \in {"counted", "waived"} : RecordAbsence(x, state)

AbsencesView(s) ==
    \/ \E x \in Absences : ReadWaive(s, x)
    \/ WriteWaive(s)
    \/ \E a \in Agreements : ReadPenalty(s, a)
    \/ WritePenalty(s)

SettlementsView(s) ==
    \/ \E a \in Agreements, from \in 1 .. Months : ReadOpen(s, a, from)
    \/ WriteOpen(s)

HandleSettlementDetail(s) ==
    \/ \E k \in DOMAIN settlements :
        \/ ReadSettlement(s, "attach", k, 0)
        \/ \E amount \in Shares : ReadPayment(s, k, amount)
        \/ ReadSign(s, k)
    \/ WriteAttach(s)
    \/ WritePayment(s)
    \/ WriteSign(s)

Next ==
    \/ HandleClaimList
    \/ ObligationsView
    \/ RefundRecovery
    \/ RecordAbsenceForm
    \/ \E s \in Sessions :
        \/ ClaimDetailView(s)
        \/ AbsencesView(s)
        \/ SettlementsView(s)
        \/ HandleSettlementDetail(s)
        \/ Rollback(s)

Spec == Init /\ [][Next]_vars

(***************************************************************************)
(* What was deducted from claims for an obligation is what was recovered   *)
(* of it, unless two offsets walked the obligations at one time: then the  *)
(* same debt is deducted from two claims.                                  *)
(***************************************************************************)
DeductedIsRecovered ==
    \/ "obligation" \in raced
    \/ \A o \in DOMAIN obligations :
          obligations[o].recovered = SumFunction([c \in DOMAIN claims |-> deductions[c, o]])

(***************************************************************************)
(* The commit of a request, when what it read has changed since.           *)
(***************************************************************************)
LateSave(race) == \E s \in Sessions : Outdated(s, {race}) /\ req'[s] = Idle

Sealed(claim) == claim.deducted = claim.seal.deducted

(***************************************************************************)
(* An approved claim is evidence (BR-051): it is not reopened, its figures *)
(* move away neither from what they were nor from what was sealed, except  *)
(* by a request that read it again, in save, before another updated it;    *)
(* and deductions are added to it only by one that loaded it before.       *)
(***************************************************************************)
SealedClaimStands ==
    [][\A c \in DOMAIN claims : Frozen(claims[c]) =>
          /\ Frozen(claims'[c])
          /\ \/ /\ claims'[c].deducted = claims[c].deducted
                /\ Sealed(claims[c]) => Sealed(claims'[c])
             \/ LateSave("frozen")
          /\ RowsOf(c)' = RowsOf(c) \/ LateSave("claim")]_<<claims, deductions>>

(***************************************************************************)
(* What a settlement is due is the net of the claims attached to it, each  *)
(* attached once, unless it was attached, opened or approved twice at one  *)
(* time.                                                                   *)
(***************************************************************************)
DueIsAttached ==
    \/ raced \cap {"settlement", "claim"} # {}
    \/ \A k \in DOMAIN settlements :
          settlements[k].due = SumFunctionOnSet(Net, {c \in DOMAIN claims : claims[c].settlement = k})

(***************************************************************************)
(* A settlement is signed when it is paid, and nothing signed by both      *)
(* sides changes (_require_open), unless by a request that loaded it       *)
(* before.                                                                 *)
(***************************************************************************)
SignedStands ==
    [][\A k \in DOMAIN settlements : settlements'[k] # settlements[k] =>
          \/ /\ settlements[k].status = "OPEN"
             /\ settlements'[k].status = "SIGNED" => BalanceOf(settlements'[k]) = 0
          \/ LateSave("settlement")]_settlements

(***************************************************************************)
(* A missed lecture is fined once and never after it was waived: a penalty *)
(* stands for as many lectures as point at it, unless two requests counted *)
(* them at one time.                                                       *)
(***************************************************************************)
FinedOnce ==
    \/ "absence" \in raced
    \/ /\ \A o \in DOMAIN obligations :
             obligations[o].lectures = Cardinality({x \in Absences : absences[x].obligation = o})
       /\ \A x \in Absences : absences[x].state = "waived" => absences[x].obligation = 0

(***************************************************************************)
(* What the partner owes is charged to it once: a debt in the claims it is *)
(* deducted from, a lecture in one penalty, a claim in one settlement      *)
(* (apply_offsets, raise_penalty, attach_claims).                          *)
(***************************************************************************)
ChargedOnce == DeductedIsRecovered /\ FinedOnce /\ DueIsAttached

(***************************************************************************)
(* What both sides rely on stays: approved claims and signed settlements   *)
(* (approve_claim, sign_settlement).                                       *)
(***************************************************************************)
SignaturesStand == SealedClaimStands /\ SignedStands

=============================================================================
