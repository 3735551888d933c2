------------------------- MODULE SettlementsProofs -------------------------
(***************************************************************************)
(* Theorems about Settlements for every set of agreements, shares, amounts *)
(* and absences, and any number of claims, obligations, settlements and    *)
(* overlapping requests.                                                   *)
(***************************************************************************)
EXTENDS Settlements, Sums, SequenceTheorems, TLAPS

(***************************************************************************)
(* What is assumed of the constants.                                       *)
(***************************************************************************)
Given == BoundsAssumption /\ AmountsAssumption /\ AbsencesAssumption /\ ScopesAssumption

Formed(q) ==
    q = [op |-> q.op, on |-> q.on, with |-> q.with, read |-> q.read, overtaken |-> q.overtaken]

(***************************************************************************)
(* What a request that spreads a share over obligations is about to write: *)
(* no obligation recovers more than its amount, no claim bears more than   *)
(* its share.                                                              *)
(***************************************************************************)
Spreads(q) ==
    /\ DOMAIN q.read \subseteq DOMAIN obligations
    /\ \A o \in DOMAIN q.read : /\ q.read[o].portion \in Nat /\ q.read[o].recovered \in Nat
                                /\ q.read[o].recovered <= obligations[o].amount
    /\ Total(q.read) <= claims[q.on].share

(***************************************************************************)
(* A claim is approved as it was loaded, a draft attached to nothing, and  *)
(* sealed with its figures.                                                *)
(***************************************************************************)
Approves(q) ==
    /\ q.read \in Claim
    /\ ~Frozen(q.read) /\ NetPayable(q.read) >= 0 /\ q.read.settlement = 0
    /\ q.read.share = claims[q.on].share

Approved(q) ==
    /\ q.read \in Claim
    /\ Frozen(q.read) /\ Sealed(q.read) /\ NetPayable(q.read) >= 0 /\ q.read.settlement = 0
    /\ q.read.share = claims[q.on].share

(***************************************************************************)
(* What a request is about is there, and what it brings can be written,    *)
(* however often it was overtaken.                                         *)
(***************************************************************************)
Apt(q) ==
    /\ q.op \in ClaimOps => q.on \in DOMAIN claims
    /\ q.op \in {"spread_offsets", "save_offsets"} => Spreads(q)
    /\ q.op = "approve" => Approves(q)
    /\ q.op = "save_approval" => Approved(q)
    /\ q.op \in SettlementOps \ {"open"} => q.on \in DOMAIN settlements
    /\ q.op \in {"attach", "pay"} => q.read \in Settlement /\ q.with \in Nat
    /\ q.op = "open" => q.read \in Agreements /\ q.with \in 1 .. Months
    /\ q.op = "waive" => q.with \in Absences
    /\ q.op = "penalise" => q.with \in Agreements /\ q.read \in (SUBSET Absences) \ {{}}

(***************************************************************************)
(* What a request was judged by, table by table.                           *)
(***************************************************************************)
ClaimSeen(q) ==
    /\ q.op \in ClaimOps => ~Frozen(claims[q.on])
    /\ q.op = "approve" => claims[q.on] = q.read

FrozenSeen(q) ==
    /\ q.op = "save_offsets" => Saves(q.on, Total(q.read))
    /\ q.op = "save_approval" => Saves(q.on, q.read.deducted)

ObligationSeen(q) ==
    q.op \in {"spread_offsets", "save_offsets"} =>
        \A o \in DOMAIN q.read : q.read[o].recovered = obligations[o].recovered + q.read[o].portion

SettlementSeen(q) ==
    /\ q.op \in {"attach", "pay", "sign"} => settlements[q.on].status = "OPEN"
    /\ q.op \in {"attach", "pay"} => settlements[q.on] = q.read
    /\ q.op = "sign" => BalanceOf(settlements[q.on]) = 0

AbsenceSeen(q) ==
    /\ q.op = "waive" => absences[q.with] = [state |-> "counted", obligation |-> 0]
    /\ q.op = "penalise" => q.read \subseteq Penalisable

(***************************************************************************)
(* It is still so, unless another commit has overtaken the request.        *)
(***************************************************************************)
UpToDate(q) ==
    /\ "claim" \in q.overtaken \/ ClaimSeen(q)
    /\ "frozen" \in q.overtaken \/ FrozenSeen(q)
    /\ "obligation" \in q.overtaken \/ ObligationSeen(q)
    /\ "settlement" \in q.overtaken \/ SettlementSeen(q)
    /\ "absence" \in q.overtaken \/ AbsenceSeen(q)

RequestsStand ==
    /\ req = [s \in Sessions |-> req[s]]
    /\ \A s \in Sessions : /\ req[s].op \in {"idle"} \cup ClaimOps \cup SettlementOps \cup AbsenceOps
                           /\ req[s].overtaken \in SUBSET Races
                           /\ Formed(req[s]) /\ Apt(req[s]) /\ UpToDate(req[s])

(***************************************************************************)
(* Only a frozen claim is attached.                                        *)
(***************************************************************************)
ClaimStands(claim) ==
    /\ NetPayable(claim) >= 0
    /\ claim.settlement \in DOMAIN settlements \cup {0}
    /\ claim.settlement # 0 => Frozen(claim)

ClaimsTyped ==
    /\ collected \in [Agreements -> Nat]
    /\ claims \in Seq(Claim) /\ Len(claims) <= MaxClaims
    /\ \A c \in DOMAIN claims : ClaimStands(claims[c])

(***************************************************************************)
(* Nothing is deducted from a claim, or for an obligation, that is not.    *)
(***************************************************************************)
DeductionsTyped ==
    /\ deductions \in [(1 .. MaxClaims) \X (1 .. MaxObligations) -> Nat]
    /\ \A c \in 1 .. MaxClaims, o \in 1 .. MaxObligations :
          c \notin DOMAIN claims \/ o \notin DOMAIN obligations => deductions[c, o] = 0

ObligationsTyped ==
    /\ obligations \in Seq(Obligation) /\ Len(obligations) <= MaxObligations
    /\ \A o \in DOMAIN obligations : obligations[o].recovered <= obligations[o].amount

SettlementsTyped == settlements \in Seq(Settlement)

AbsencesTyped ==
    /\ absences \in [Absences -> Absence]
    /\ \A x \in Absences : absences[x].obligation \in DOMAIN obligations \cup {0}

(***************************************************************************)
(* What was recovered, what was fined, what is due.                        *)
(***************************************************************************)
DeductedFor(o) == SumFunction([c \in DOMAIN claims |-> deductions[c, o]])

RecoveredHolds == \A o \in DOMAIN obligations : obligations[o].recovered = DeductedFor(o)

AttachedTo(k) == {c \in DOMAIN claims : claims[c].settlement = k}

DueHolds == \A k \in DOMAIN settlements : settlements[k].due = SumFunctionOnSet(Net, AttachedTo(k))

FinedFor(o) == {x \in Absences : absences[x].obligation = o}

FinesHold ==
    /\ \A o \in DOMAIN obligations : obligations[o].lectures = Cardinality(FinedFor(o))
    /\ \A x \in Absences : absences[x].state = "waived" => absences[x].obligation = 0

(***************************************************************************)
(* An absence nobody has judged is not fined.                              *)
(***************************************************************************)
UnknownIsUnfined ==
    \/ "absence" \in raced
    \/ \A x \in Absences : absences[x].state = "unknown" => absences[x].obligation = 0

Inv ==
    /\ Given
    /\ ClaimsTyped /\ DeductionsTyped /\ ObligationsTyped /\ SettlementsTyped /\ AbsencesTyped
    /\ raced \in SUBSET Races /\ RequestsStand
    /\ "obligation" \in raced \/ RecoveredHolds
    /\ "absence" \in raced \/ FinesHold
    /\ raced \cap {"settlement", "claim"} # {} \/ DueHolds
    /\ UnknownIsUnfined

-----------------------------------------------------------------------------
(* Rows. *)

LEMMA ClaimRows ==
    ASSUME ClaimsTyped
    PROVE  /\ DOMAIN claims = 1 .. Len(claims) /\ Len(claims) \in Nat
           /\ \A c \in DOMAIN claims :
                 /\ c \in Nat \ {0} /\ claims[c] \in Claim
                 /\ claims[c].share \in Nat /\ claims[c].deducted \in Nat
                 /\ NetPayable(claims[c]) \in Nat
<1>1. DOMAIN claims = 1 .. Len(claims) /\ Len(claims) \in Nat
  BY LenProperties DEF ClaimsTyped
<1>2. \A c \in DOMAIN claims : claims[c] \in Claim
  BY <1>1, LenProperties DEF ClaimsTyped
<1>3. ASSUME NEW c \in DOMAIN claims PROVE NetPayable(claims[c]) \in Nat
  <2>1. claims[c].share \in Nat /\ claims[c].deducted \in Nat
    BY <1>2 DEF Claim
  <2>2. NetPayable(claims[c]) >= 0
    BY DEF ClaimsTyped, ClaimStands
  <2> QED
    BY <2>1, <2>2 DEF NetPayable
<1> QED
  BY <1>1, <1>2, <1>3 DEF Claim

LEMMA ObligationRows ==
    ASSUME ObligationsTyped
    PROVE  /\ DOMAIN obligations = 1 .. Len(obligations) /\ Len(obligations) \in Nat
           /\ \A o \in DOMAIN obligations :
                 /\ o \in Nat \ {0} /\ obligations[o] \in Obligation
                 /\ obligations[o].amount \in Nat /\ obligations[o].recovered \in Nat
                 /\ Outstanding[o] \in Nat
                 /\ Outstanding[o] = obligations[o].amount - obligations[o].recovered
<1>1. DOMAIN obligations = 1 .. Len(obligations) /\ Len(obligations) \in Nat
  BY LenProperties DEF ObligationsTyped
<1>2. \A o \in DOMAIN obligations : obligations[o] \in Obligation
  BY <1>1, LenProperties DEF ObligationsTyped
<1> QED
  BY <1>1, <1>2 DEF ObligationsTyped, Obligation, Outstanding

LEMMA SettlementRows ==
    ASSUME SettlementsTyped
    PROVE  /\ DOMAIN settlements = 1 .. Len(settlements) /\ Len(settlements) \in Nat
           /\ \A k \in DOMAIN settlements :
                 /\ k \in Nat \ {0} /\ settlements[k] \in Settlement
                 /\ settlements[k].due \in Int /\ settlements[k].paid \in Nat
<1>1. DOMAIN settlements = 1 .. Len(settlements) /\ Len(settlements) \in Nat
  BY LenProperties DEF SettlementsTyped
<1>2. \A k \in DOMAIN settlements : settlements[k] \in Settlement
  BY <1>1, LenProperties DEF SettlementsTyped
<1> QED
  BY <1>1, <1>2 DEF Settlement

LEMMA LargerOfTwo ==
    ASSUME NEW a \in Int, NEW b \in Int
    PROVE  Max({a, b}) = IF a >= b THEN a ELSE b
<1> DEFINE m == IF a >= b THEN a ELSE b
<1>1. m \in {a, b} /\ \A y \in {a, b} : m >= y
  OBVIOUS
<1>2. \A x \in {a, b} : (\A y \in {a, b} : x >= y) => x = m
  OBVIOUS
<1> QED
  BY <1>1, <1>2 DEF Max

LEMMA SmallerOfTwo ==
    ASSUME NEW a \in Int, NEW b \in Int
    PROVE  Min({a, b}) = IF a <= b THEN a ELSE b
<1> DEFINE m == IF a <= b THEN a ELSE b
<1>1. m \in {a, b} /\ \A y \in {a, b} : m <= y
  OBVIOUS
<1>2. \A x \in {a, b} : (\A y \in {a, b} : x <= y) => x = m
  OBVIOUS
<1> QED
  BY <1>1, <1>2 DEF Min

-----------------------------------------------------------------------------
(* Sums over claims and obligations. *)

(***************************************************************************)
(* Walking the obligations in order, a share is never spread over more     *)
(* than there is of it: Portion sums to no more than the share.            *)
(***************************************************************************)
LEMMA PortionIs ==
    ASSUME NEW share \in Int, NEW open, NEW o, Outstanding[o] \in Nat,
           NEW before \in Int, before = SumFunctionOnSet(Outstanding, {p \in open : p < o})
    PROVE  /\ Portion(share, open, o) \in Nat
           /\ Portion(share, open, o) <= Outstanding[o]
           /\ Portion(share, open, o) > 0 => Portion(share, open, o) <= share - before
<1>1. Portion(share, open, o) = Max({0, Min({Outstanding[o], share - before})})
  BY DEF Portion
<1> DEFINE m == Min({Outstanding[o], share - before})
<1>2. m = IF Outstanding[o] <= share - before THEN Outstanding[o] ELSE share - before
  BY SmallerOfTwo
<1>3. m \in Int /\ m <= Outstanding[o] /\ m <= share - before
  BY <1>2
<1>4. Portion(share, open, o) = IF 0 >= m THEN 0 ELSE m
  <2> HIDE DEF m
  <2> QED
    BY <1>1, <1>3, LargerOfTwo DEF m
<1> HIDE DEF m
<1> QED
  BY <1>3, <1>4

LEMMA PortionsFit ==
    ASSUME ObligationsTyped, NEW share \in Nat,
           NEW open \in SUBSET DOMAIN obligations, NEW borne \in SUBSET open, NEW f,
           \A o \in borne : f[o] = Portion(share, open, o) /\ f[o] > 0
    PROVE  SumFunctionOnSet(f, borne) <= share
<1> DEFINE Before(S, n) == {p \in S : p < n}
           Borne(n) == SumFunctionOnSet(f, Before(borne, n))
           Owed(n) == SumFunctionOnSet(Outstanding, Before(open, n))
           Off(n) == ~(Borne(n) <= share /\ Borne(n) <= Owed(n))
           bad == {n \in Nat : Off(n)}
<1>1. /\ DOMAIN obligations = 1 .. Len(obligations) /\ Len(obligations) \in Nat
      /\ \A o \in DOMAIN obligations : o \in Nat \ {0} /\ Outstanding[o] \in Nat
  BY ObligationRows
<1>2. \A S \in SUBSET open : IsFiniteSet(S)
  <2>1. IsFiniteSet(1 .. Len(obligations))
    BY <1>1, FS_Interval
  <2> QED
    BY <1>1, <2>1, FS_Subset
<1>3. ASSUME NEW n \in Nat
      PROVE  /\ IsFiniteSet(Before(open, n)) /\ IsFiniteSet(Before(borne, n))
             /\ Owed(n) \in Int
  <2>1. IsFiniteSet(Before(open, n)) /\ IsFiniteSet(Before(borne, n))
    BY <1>2
  <2>2. \A x \in Before(open, n) : Outstanding[x] \in Int
    BY <1>1
  <2> QED
    BY <2>1, <2>2, SumTyped
<1>4. ASSUME NEW o \in borne
      PROVE  /\ f[o] \in Nat /\ f[o] <= Outstanding[o] /\ f[o] <= share - Owed(o)
  <2>1. o \in Nat /\ Outstanding[o] \in Nat
    BY <1>1
  <2>2. PICK before \in Int : before = Owed(o)
    BY <1>3, <2>1
  <2>3. before = SumFunctionOnSet(Outstanding, {p \in open : p < o})
    BY <2>2
  <2> QED
    BY <2>1, <2>2, <2>3, PortionIs
<1>10. \A x \in borne : f[x] \in Int /\ x \in Nat
  <2>1. \A x \in borne : f[x] \in Nat
    BY <1>4
  <2>2. \A x \in borne : x \in DOMAIN obligations
    OBVIOUS
  <2> QED
    BY <1>1, <2>1, <2>2
<1>5. ASSUME NEW n \in Nat PROVE Borne(n) \in Int
  <2>1. \A x \in Before(borne, n) : f[x] \in Int
    BY <1>10
  <2> QED
    BY <1>3, <2>1, SumTyped
<1>6. ASSUME bad # {} PROVE FALSE
  <2>1. PICK n \in bad : \A m \in bad : n <= m
    <3>1. bad \in SUBSET Nat
      OBVIOUS
    <3> HIDE DEF bad
    <3> QED
      BY <1>6, <3>1, SmallestNumber
  <2>2. n \in Nat /\ Off(n)
    OBVIOUS
  <2>3. CASE n = 0
    <3>1. Before(open, n) = {} /\ Before(borne, n) = {}
      BY <1>1, <2>3
    <3>2. SumFunctionOnSet(f, {}) = 0 /\ SumFunctionOnSet(Outstanding, {}) = 0
      BY SumFirst, FS_EmptySet
    <3>3. Borne(n) = 0 /\ Owed(n) = 0
      BY <3>1, <3>2
    <3> HIDE DEF Borne, Owed
    <3> QED
      BY <2>2, <3>3
  <2>4. CASE n # 0
    <3>1. PICK m \in Nat : n = m + 1
      <4>1. n - 1 \in Nat /\ n = (n - 1) + 1
        BY <2>2, <2>4
      <4> QED
        BY <4>1
    <3>2. Borne(m) <= share /\ Borne(m) <= Owed(m)
      <4>1. m \notin bad
        <5> HIDE DEF bad
        <5> QED
          BY <2>1, <2>2, <3>1
      <4> HIDE DEF Borne, Owed
      <4> QED
        BY <4>1
    <3>3. Borne(m) \in Int /\ Owed(m) \in Int
      BY <1>3, <1>5
    <3>4. ASSUME m \notin open PROVE Borne(n) = Borne(m) /\ Owed(n) = Owed(m)
      <4>1. Before(open, n) = Before(open, m) /\ Before(borne, n) = Before(borne, m)
        BY <1>1, <3>1, <3>4
      <4> HIDE DEF Before
      <4> QED
        BY <4>1
    <3>5. ASSUME m \in open PROVE Owed(n) = Outstanding[m] + Owed(m) /\ Outstanding[m] \in Nat
      <4>1. Before(open, n) = Before(open, m) \cup {m} /\ m \notin Before(open, m)
        BY <1>1, <3>1, <3>5
      <4>2. \A x \in Before(open, m) \cup {m} : Outstanding[x] \in Int
        BY <1>1, <3>5
      <4>3. IsFiniteSet(Before(open, m)) /\ Outstanding[m] \in Nat
        BY <1>1, <1>3, <3>5
      <4> HIDE DEF Before
      <4> QED
        BY <4>1, <4>2, <4>3, SumAddOne
    <3>6. ASSUME m \notin borne PROVE Borne(n) = Borne(m)
      <4>1. Before(borne, n) = Before(borne, m)
        BY <1>1, <3>1, <3>6
      <4> HIDE DEF Before
      <4> QED
        BY <4>1
    <3>7. ASSUME m \in borne PROVE Borne(n) = f[m] + Borne(m)
      <4>1. Before(borne, n) = Before(borne, m) \cup {m} /\ m \notin Before(borne, m)
        <5>1. \A x \in borne : x \in Nat
          BY <1>10
        <5>2. ASSUME NEW x \in borne
              PROVE  x < n <=> x < m \/ x = m
          BY <5>1, <3>1
        <5>3. ~(m < m) /\ n = m + 1
          BY <3>1
        <5>4. Before(borne, n) = Before(borne, m) \cup {m}
          BY <5>2, <3>7, Zenon
        <5> QED
          BY <5>3, <5>4, Zenon
      <4>2. \A x \in Before(borne, m) \cup {m} : f[x] \in Int
        BY <1>10, <3>7
      <4>3. IsFiniteSet(Before(borne, m))
        BY <1>3
      <4> HIDE DEF Before
      <4> QED
        BY <4>1, <4>2, <4>3, SumAddOne
    <3>8. m \in borne => f[m] \in Nat /\ f[m] <= Outstanding[m] /\ f[m] <= share - Owed(m)
      BY <1>4
    <3>9. m \in borne => m \in open
      OBVIOUS
    <3> HIDE DEF Borne, Owed
    <3> QED
      BY <2>2, <3>2, <3>3, <3>4, <3>5, <3>6, <3>7, <3>8, <3>9
  <2> QED
    BY <2>3, <2>4
<1>7. Before(borne, Len(obligations) + 1) = borne
  BY <1>1
<1>8. Len(obligations) + 1 \notin bad /\ Len(obligations) + 1 \in Nat
  <2> HIDE DEF bad
  <2> QED
    BY <1>1, <1>6
<1>9. Borne(Len(obligations) + 1) <= share
  <2>1. ~Off(Len(obligations) + 1)
    <3> HIDE DEF Off
    <3> QED
      BY <1>8
  <2> HIDE DEF Borne, Owed
  <2> QED
    BY <2>1
<1> QED
  BY <1>7, <1>9


-----------------------------------------------------------------------------
(* Requests. *)

LEMMA OutdatesIs ==
    \A a, b :
        /\ Outdates("claim", a, b) <=>
              a.op \in ClaimSaves /\ b.op \in ClaimOps /\ b.on = a.on
        /\ Outdates("frozen", a, b) <=>
              a.op \in ClaimSaves /\ b.op \in ClaimSaves /\ b.on = a.on
        /\ Outdates("obligation", a, b) <=>
              a.op = "save_offsets" /\ b.op \in {"spread_offsets", "save_offsets"}
        /\ Outdates("settlement", a, b) <=>
              /\ a.op \in SettlementOps
              /\ \/ b.op \in SettlementOps \ {"open"} /\ b.on = a.on
                 \/ a.op = "open" /\ b.op = "open" /\ b.read = a.read
                 \/ a.op = "attach" /\ b.op \in {"approve", "save_approval"}
        /\ Outdates("absence", a, b) <=> a.op \in AbsenceOps /\ b.op \in AbsenceOps
  BY DEF Outdates

(***************************************************************************)
(* q is r, told of what the commit of a took away from under it.           *)
(***************************************************************************)
Told(q, r, a) ==
    /\ Formed(q)
    /\ q.op = r.op /\ q.on = r.on /\ q.with = r.with /\ q.read = r.read
    /\ q.overtaken = r.overtaken \cup {race \in Races : Outdates(race, a, r)}

LEMMA Telling ==
    ASSUME NEW r, Formed(r), NEW new,
           NEW q, q = [r EXCEPT !.overtaken = @ \cup new]
    PROVE  /\ Formed(q)
           /\ q.op = r.op /\ q.on = r.on /\ q.with = r.with /\ q.read = r.read
           /\ q.overtaken = r.overtaken \cup new
<1>1. q = [op |-> r.op, on |-> r.on, with |-> r.with, read |-> r.read,
           overtaken |-> r.overtaken \cup new]
  BY DEF Formed
<1> QED
  BY <1>1 DEF Formed

LEMMA IdleIs ==
    /\ Formed(Idle)
    /\ Idle.op = "idle" /\ Idle.on = 0 /\ Idle.with = 0 /\ Idle.read = <<>> /\ Idle.overtaken = {}
  BY DEF Idle, Formed

LEMMA IdleIsApt == Apt(Idle) /\ UpToDate(Idle)
  BY IdleIs DEF Apt, UpToDate, ClaimSeen, FrozenSeen, ObligationSeen, SettlementSeen, AbsenceSeen, ClaimOps,
                ClaimSaves, SettlementOps

(***************************************************************************)
(* What a step that serves request a may do to the rows the requests have  *)
(* read.                                                                   *)
(***************************************************************************)
Grown ==
    /\ DOMAIN claims \subseteq DOMAIN claims'
    /\ \A c \in DOMAIN claims : claims'[c].share = claims[c].share
    /\ DOMAIN obligations \subseteq DOMAIN obligations'
    /\ \A o \in DOMAIN obligations : obligations'[o].amount = obligations[o].amount
    /\ DOMAIN settlements \subseteq DOMAIN settlements'

ClaimsMove(a) ==
    \A c \in DOMAIN claims :
        \/ claims'[c] = claims[c]
        \/ Frozen(claims[c]) /\ Frozen(claims'[c]) /\ claims'[c].deducted = claims[c].deducted
        \/ a.op \in ClaimSaves /\ a.on = c

ObligationsMove(a) ==
    \A o \in DOMAIN obligations :
        \/ obligations'[o].recovered = obligations[o].recovered
        \/ a.op = "save_offsets"

SettlementsMove(a) ==
    \A k \in DOMAIN settlements :
        \/ settlements'[k] = settlements[k]
        \/ a.op \in SettlementOps /\ a.on = k

AbsencesMove(a) ==
    \A x \in Absences :
        \/ absences'[x] = absences[x]
        \/ absences[x].state = "unknown"
        \/ a.op \in AbsenceOps

Moves(a) == Grown /\ ClaimsMove(a) /\ ObligationsMove(a) /\ SettlementsMove(a) /\ AbsencesMove(a)

LEMMA AptLasts ==
    ASSUME Grown, NEW q, Apt(q)
    PROVE  Apt(q)'
<1>1. q.op \in ClaimOps => q.on \in DOMAIN claims' /\ claims'[q.on].share = claims[q.on].share
  BY DEF Apt, Grown
<1>2. q.op \in {"spread_offsets", "save_offsets"} => Spreads(q)'
  <2> SUFFICES ASSUME q.op \in {"spread_offsets", "save_offsets"} PROVE Spreads(q)'
    OBVIOUS
  <2>1. Spreads(q) /\ q.op \in ClaimOps
    BY DEF Apt, ClaimOps, ClaimSaves
  <2>2. DOMAIN q.read \subseteq DOMAIN obligations'
    BY <2>1 DEF Spreads, Grown
  <2>3. \A o \in DOMAIN q.read : /\ q.read[o].portion \in Nat /\ q.read[o].recovered \in Nat
                                 /\ q.read[o].recovered <= obligations'[o].amount
    BY <2>1 DEF Spreads, Grown
  <2>4. Total(q.read) <= claims'[q.on].share
    BY <2>1, <1>1 DEF Spreads
  <2> QED
    BY <2>2, <2>3, <2>4 DEF Spreads
<1>3. /\ q.op = "approve" => Approves(q)'
      /\ q.op = "save_approval" => Approved(q)'
  BY <1>1 DEF Apt, Approves, Approved, ClaimOps, ClaimSaves
<1>4. q.op \in SettlementOps \ {"open"} => q.on \in DOMAIN settlements'
  BY DEF Apt, Grown
<1> QED
  BY <1>1, <1>2, <1>3, <1>4 DEF Apt

LEMMA ClaimSeenLasts ==
    ASSUME NEW q, Apt(q), NEW a, ClaimsMove(a), ~Outdates("claim", a, q), ClaimSeen(q)
    PROVE  ClaimSeen(q)'
<1> SUFFICES ASSUME q.op \in ClaimOps PROVE ClaimSeen(q)'
  BY DEF ClaimSeen, ClaimOps
<1>1. q.on \in DOMAIN claims /\ ~Frozen(claims[q.on])
  BY DEF Apt, ClaimSeen
<1>2. claims'[q.on] = claims[q.on]
  BY <1>1, OutdatesIs DEF ClaimsMove
<1> QED
  BY <1>1, <1>2 DEF ClaimSeen, Frozen

LEMMA FrozenSeenLasts ==
    ASSUME NEW q, Apt(q), NEW a, ClaimsMove(a), ~Outdates("frozen", a, q), FrozenSeen(q)
    PROVE  FrozenSeen(q)'
<1> SUFFICES ASSUME q.op \in ClaimSaves PROVE FrozenSeen(q)'
  BY DEF FrozenSeen, ClaimSaves
<1>1. q.on \in DOMAIN claims
  BY DEF Apt, ClaimOps
<1>2. \/ claims'[q.on] = claims[q.on]
      \/ /\ Frozen(claims[q.on]) /\ Frozen(claims'[q.on])
         /\ claims'[q.on].deducted = claims[q.on].deducted
  BY <1>1, OutdatesIs DEF ClaimsMove
<1>3. \A n : Saves(q.on, n) => Saves(q.on, n)'
  BY <1>2 DEF Saves, Frozen
<1>4. q.op = "save_offsets" => Saves(q.on, Total(q.read))'
  <2>1. PICK n : n = Total(q.read)
    OBVIOUS
  <2> QED
    BY <1>3, <2>1 DEF FrozenSeen
<1>5. q.op = "save_approval" => Saves(q.on, q.read.deducted)'
  BY <1>3 DEF FrozenSeen
<1> QED
  BY <1>4, <1>5 DEF FrozenSeen

LEMMA ObligationSeenLasts ==
    ASSUME NEW q, Apt(q), NEW a, ObligationsMove(a), ~Outdates("obligation", a, q), ObligationSeen(q)
    PROVE  ObligationSeen(q)'
<1> SUFFICES ASSUME q.op \in {"spread_offsets", "save_offsets"} PROVE ObligationSeen(q)'
  BY DEF ObligationSeen
<1>1. \A o \in DOMAIN q.read : obligations'[o].recovered = obligations[o].recovered
  BY OutdatesIs DEF Apt, Spreads, ObligationsMove
<1> QED
  BY <1>1 DEF ObligationSeen

LEMMA SettlementSeenLasts ==
    ASSUME NEW q, Apt(q), NEW a, SettlementsMove(a), ~Outdates("settlement", a, q), SettlementSeen(q)
    PROVE  SettlementSeen(q)'
<1> SUFFICES ASSUME q.op \in {"attach", "pay", "sign"} PROVE SettlementSeen(q)'
  BY DEF SettlementSeen
<1>1. q.on \in DOMAIN settlements
  BY DEF Apt, SettlementOps
<1>2. settlements'[q.on] = settlements[q.on]
  BY <1>1, OutdatesIs DEF SettlementsMove, SettlementOps
<1> QED
  BY <1>1, <1>2 DEF SettlementSeen, BalanceOf

LEMMA AbsenceSeenLasts ==
    ASSUME NEW q, Apt(q), NEW a, AbsencesMove(a), ~Outdates("absence", a, q), AbsenceSeen(q)
    PROVE  AbsenceSeen(q)'
<1> DEFINE seen(x) == absences[x] = [state |-> "counted", obligation |-> 0]
<1>1. ASSUME q.op \in AbsenceOps, NEW x \in Absences, seen(x)
      PROVE  absences'[x] = [state |-> "counted", obligation |-> 0]
  <2>1. absences[x].state = "counted"
    BY <1>1
  <2> QED
    BY <1>1, <2>1, OutdatesIs DEF AbsencesMove
<1>2. q.op = "waive" => absences'[q.with] = [state |-> "counted", obligation |-> 0]
  BY <1>1 DEF AbsenceSeen, Apt, AbsenceOps
<1>3. q.op = "penalise" => q.read \subseteq {x \in Absences : absences'[x] = [state |-> "counted", obligation |-> 0]}
  <2> SUFFICES ASSUME q.op = "penalise", NEW x \in q.read
               PROVE  x \in Absences /\ absences'[x] = [state |-> "counted", obligation |-> 0]
    OBVIOUS
  <2>1. x \in Absences /\ seen(x)
    BY DEF AbsenceSeen, Penalisable
  <2> QED
    BY <1>1, <2>1 DEF AbsenceOps
<1> QED
  BY <1>2, <1>3 DEF AbsenceSeen, Penalisable

(***************************************************************************)
(* What holds next of a request holds of what a session then has.          *)
(***************************************************************************)
LEMMA AtNext ==
    ASSUME NEW t, NEW r, r = req'[t], Formed(r), Apt(r)', UpToDate(r)'
    PROVE  Formed(req[t])' /\ Apt(req[t])' /\ UpToDate(req[t])'
<1>1. Formed(req[t])'
  BY DEF Formed
<1>2. Apt(req[t])'
  BY DEF Apt, Spreads, Approves, Approved
<1>3. UpToDate(req[t])'
  BY DEF UpToDate, ClaimSeen, FrozenSeen, ObligationSeen, SettlementSeen, AbsenceSeen
<1> QED
  BY <1>1, <1>2, <1>3

LEMMA UpToDateLasts ==
    ASSUME NEW a, Moves(a), NEW r, Apt(r), UpToDate(r), NEW q, Told(q, r, a)
    PROVE  Apt(q)' /\ UpToDate(q)'
<1>1. /\ q.op = r.op /\ q.on = r.on /\ q.with = r.with /\ q.read = r.read
      /\ q.overtaken = r.overtaken \cup {race \in Races : Outdates(race, a, r)}
  BY DEF Told
<1>2. Apt(q)
  BY <1>1 DEF Apt, Spreads, Approves, Approved
<1>3. Apt(q)'
  BY <1>2, AptLasts DEF Moves
<1>4. \A race \in Races : race \notin q.overtaken => race \notin r.overtaken /\ ~Outdates(race, a, q)
  <2>1. \A race \in Races : Outdates(race, a, q) <=> Outdates(race, a, r)
    BY <1>1, OutdatesIs DEF Races
  <2> QED
    BY <1>1, <2>1
<1>5. "claim" \in q.overtaken \/ ClaimSeen(q)'
  <2>1. ASSUME "claim" \notin q.overtaken PROVE ClaimSeen(q) /\ ~Outdates("claim", a, q)
    BY <1>1, <1>4, <2>1 DEF UpToDate, ClaimSeen, Races
  <2> QED
    BY <1>2, <2>1, ClaimSeenLasts DEF Moves
<1>9. "frozen" \in q.overtaken \/ FrozenSeen(q)'
  <2>1. ASSUME "frozen" \notin q.overtaken PROVE FrozenSeen(q) /\ ~Outdates("frozen", a, q)
    BY <1>1, <1>4, <2>1 DEF UpToDate, FrozenSeen, Races
  <2> QED
    BY <1>2, <2>1, FrozenSeenLasts DEF Moves
<1>6. "obligation" \in q.overtaken \/ ObligationSeen(q)'
  <2>1. ASSUME "obligation" \notin q.overtaken PROVE ObligationSeen(q) /\ ~Outdates("obligation", a, q)
    BY <1>1, <1>4, <2>1 DEF UpToDate, ObligationSeen, Races
  <2> QED
    BY <1>2, <2>1, ObligationSeenLasts DEF Moves
<1>7. "settlement" \in q.overtaken \/ SettlementSeen(q)'
  <2>1. ASSUME "settlement" \notin q.overtaken PROVE SettlementSeen(q) /\ ~Outdates("settlement", a, q)
    BY <1>1, <1>4, <2>1 DEF UpToDate, SettlementSeen, Races
  <2> QED
    BY <1>2, <2>1, SettlementSeenLasts DEF Moves
<1>8. "absence" \in q.overtaken \/ AbsenceSeen(q)'
  <2>1. ASSUME "absence" \notin q.overtaken PROVE AbsenceSeen(q) /\ ~Outdates("absence", a, q)
    BY <1>1, <1>4, <2>1 DEF UpToDate, AbsenceSeen, Races
  <2> QED
    BY <1>2, <2>1, AbsenceSeenLasts DEF Moves
<1> QED
  BY <1>3, <1>5, <1>6, <1>7, <1>8, <1>9 DEF UpToDate

(***************************************************************************)
(* The requests in flight survive a commit.                                *)
(***************************************************************************)
LEMMA CommitKeeps ==
    ASSUME RequestsStand, raced \in SUBSET Races, NEW s \in Sessions, Finish(s), Moves(req[s])
    PROVE  /\ RequestsStand'
           /\ raced' = raced \cup req[s].overtaken /\ raced' \in SUBSET Races
           /\ req'[s] = Idle
<1>1. req' = [t \in Sessions |->
                IF t = s THEN Idle
                ELSE [req[t] EXCEPT !.overtaken = @ \cup {race \in Races : Outdates(race, req[s], req[t])}]]
  BY DEF Finish
<1>2. raced' = raced \cup req[s].overtaken /\ raced' \in SUBSET Races
  BY DEF Finish, RequestsStand
<1>3. req'[s] = Idle
  BY <1>1
<1>4. ASSUME NEW t \in Sessions
      PROVE  /\ req'[t].op \in {"idle"} \cup ClaimOps \cup SettlementOps \cup AbsenceOps
             /\ req'[t].overtaken \in SUBSET Races
             /\ Formed(req[t])' /\ Apt(req[t])' /\ UpToDate(req[t])'
  <2>1. CASE t = s
    <3>1. PICK q : q = Idle
      OBVIOUS
    <3>2. q = req'[t]
      BY <1>3, <2>1, <3>1
    <3>3. Formed(q) /\ q.op = "idle" /\ q.overtaken = {}
      BY <3>1, IdleIs
    <3>4. Apt(q)' /\ UpToDate(q)'
      BY <3>3 DEF Apt, UpToDate, ClaimSeen, FrozenSeen, ObligationSeen, SettlementSeen, AbsenceSeen,
                  ClaimOps, ClaimSaves, SettlementOps
    <3>5. Formed(req[t])' /\ Apt(req[t])' /\ UpToDate(req[t])'
      BY <3>2, <3>3, <3>4, AtNext
    <3> QED
      BY <3>2, <3>3, <3>5
  <2>2. CASE t # s
    <3>1. PICK a : a = req[s]
      OBVIOUS
    <3>2. PICK r : r = req[t]
      OBVIOUS
    <3>3. PICK q : q = req'[t]
      OBVIOUS
    <3>4. /\ Formed(r) /\ Apt(r) /\ UpToDate(r) /\ r.overtaken \in SUBSET Races
          /\ r.op \in {"idle"} \cup ClaimOps \cup SettlementOps \cup AbsenceOps
      BY <3>2 DEF RequestsStand
    <3> DEFINE new == {race \in Races : Outdates(race, a, r)}
    <3>5. q = [r EXCEPT !.overtaken = @ \cup new]
      BY <1>1, <2>2, <3>1, <3>2, <3>3
    <3>6. Told(q, r, a)
      <4> HIDE DEF new
      <4> QED
        BY <3>4, <3>5, Telling DEF Told, new
    <3>7. Moves(a)
      BY <3>1
    <3>8. Apt(q)' /\ UpToDate(q)'
      BY <3>4, <3>6, <3>7, UpToDateLasts
    <3>9. q.op = r.op /\ q.overtaken \in SUBSET Races /\ Formed(q)
      BY <3>4, <3>6 DEF Told
    <3>10. Formed(req[t])' /\ Apt(req[t])' /\ UpToDate(req[t])'
      BY <3>3, <3>8, <3>9, AtNext
    <3> QED
      BY <3>3, <3>4, <3>9, <3>10
  <2> QED
    BY <2>1, <2>2
<1> QED
  BY <1>1, <1>2, <1>3, <1>4 DEF RequestsStand

(***************************************************************************)
(* The same of a step outside the requests: as if it served an idle one.   *)
(***************************************************************************)
LEMMA QuietKeeps ==
    ASSUME RequestsStand, Quiet, Moves(Idle)
    PROVE  RequestsStand' /\ raced' = raced
<1>1. req' = req /\ raced' = raced
  BY DEF Quiet
<1>2. ASSUME NEW t \in Sessions PROVE Formed(req[t])' /\ Apt(req[t])' /\ UpToDate(req[t])'
  <2>1. PICK r : r = req[t]
    OBVIOUS
  <2>2. Formed(r) /\ Apt(r) /\ UpToDate(r) /\ r = req'[t]
    BY <1>1, <2>1 DEF RequestsStand
  <2>3. {race \in Races : Outdates(race, Idle, r)} = {}
    BY IdleIs, OutdatesIs DEF Races, ClaimSaves, SettlementOps, AbsenceOps
  <2>4. Told(r, r, Idle)
    BY <2>2, <2>3 DEF Told
  <2>5. PICK a : a = Idle
    OBVIOUS
  <2>6. Moves(a) /\ Told(r, r, a)
    BY <2>4, <2>5
  <2>7. Apt(r)' /\ UpToDate(r)'
    BY <2>2, <2>6, UpToDateLasts
  <2> QED
    BY <2>2, <2>7, AtNext
<1> QED
  BY <1>1, <1>2 DEF RequestsStand

(***************************************************************************)
(* A request begins with what it has just read, goes on, or ends; no row   *)
(* changes.                                                                *)
(***************************************************************************)
LEMMA SessionKeeps ==
    ASSUME Inv, NEW s \in Sessions, NEW q, Formed(q), Apt(q), UpToDate(q),
           q.op \in {"idle"} \cup ClaimOps \cup SettlementOps \cup AbsenceOps,
           q.overtaken \in SUBSET Races,
           req' = [req EXCEPT ![s] = q], UNCHANGED <<ledger, settlements, absences, raced>>
    PROVE  Inv'
<1>1. UNCHANGED <<collected, claims, deductions, obligations>>
  BY DEF ledger
<1>2. \A t \in Sessions : req'[t] = IF t = s THEN q ELSE req[t]
  BY DEF Inv, RequestsStand
<1>3. ASSUME NEW t \in Sessions PROVE Formed(req[t])' /\ Apt(req[t])' /\ UpToDate(req[t])'
  <2>1. PICK r : r = req'[t]
    OBVIOUS
  <2>2. Formed(r) /\ Apt(r) /\ UpToDate(r)
    BY <1>2, <2>1 DEF Inv, RequestsStand
  <2>3. Apt(r)'
    BY <1>1, <2>2 DEF Apt, Spreads, Approves, Approved
  <2>4. UpToDate(r)'
    BY <1>1, <2>2 DEF UpToDate, ClaimSeen, FrozenSeen, Saves, ObligationSeen, SettlementSeen, AbsenceSeen,
                      Penalisable
  <2> QED
    BY <2>1, <2>2, <2>3, <2>4, AtNext
<1>4. RequestsStand'
  BY <1>2, <1>3 DEF Inv, RequestsStand
<1>5. ClaimsTyped' /\ DeductionsTyped' /\ ObligationsTyped' /\ SettlementsTyped' /\ AbsencesTyped'
  BY <1>1 DEF Inv, ClaimsTyped, ClaimStands, DeductionsTyped, ObligationsTyped, SettlementsTyped,
              AbsencesTyped
<1>6. "obligation" \in raced' \/ RecoveredHolds'
  BY <1>1 DEF Inv, RecoveredHolds, DeductedFor
<1>7. "absence" \in raced' \/ FinesHold'
  BY <1>1 DEF Inv, FinesHold, FinedFor
<1>8. raced' \cap {"settlement", "claim"} # {} \/ DueHolds'
  BY <1>1 DEF Inv, DueHolds, AttachedTo, Net
<1>9. UnknownIsUnfined'
  BY DEF Inv, UnknownIsUnfined
<1> QED
  BY <1>4, <1>5, <1>6, <1>7, <1>8, <1>9 DEF Inv, Given

LEMMA RequestIs ==
    ASSUME NEW op, NEW on, NEW with, NEW read, NEW overtaken,
           NEW q, q = [op |-> op, on |-> on, with |-> with, read |-> read, overtaken |-> overtaken]
    PROVE  /\ Formed(q)
           /\ q.op = op /\ q.on = on /\ q.with = with /\ q.read = read /\ q.overtaken = overtaken
  BY DEF Formed

LEMMA BeginIs ==
    ASSUME NEW s \in Sessions, NEW op, NEW on, NEW with, NEW read, Begin(s, op, on, with, read)
    PROVE  \E q : /\ Formed(q) /\ q.op = op /\ q.on = on /\ q.with = with /\ q.read = read
                  /\ q.overtaken = {}
                  /\ req' = [req EXCEPT ![s] = q]
                  /\ UNCHANGED <<ledger, settlements, absences, raced>>
<1> DEFINE new == [Idle EXCEPT !.op = op, !.on = on, !.with = with, !.read = read]
<1>1. new = [op |-> op, on |-> on, with |-> with, read |-> read, overtaken |-> {}]
  <2>1. PICK r : r = Idle
    OBVIOUS
  <2>2. Formed(r) /\ r.overtaken = {}
    BY <2>1, IdleIs
  <2>3. PICK q : q = new
    OBVIOUS
  <2>4. q = [r EXCEPT !.op = op, !.on = on, !.with = with, !.read = read]
    BY <2>1, <2>3
  <2>5. q = [op |-> op, on |-> on, with |-> with, read |-> read, overtaken |-> r.overtaken]
    BY <2>2, <2>4 DEF Formed
  <2> QED
    BY <2>2, <2>3, <2>5
<1>2. req' = [req EXCEPT ![s] = new] /\ UNCHANGED <<ledger, settlements, absences, raced>>
  BY DEF Begin
<1>3. /\ new.op = op /\ new.on = on /\ new.with = with /\ new.read = read /\ new.overtaken = {}
      /\ Formed(new)
  <2> HIDE DEF new
  <2> QED
    BY <1>1, RequestIs
<1> HIDE DEF new
<1> QED
  BY <1>2, <1>3

LEMMA ReadOffsetsKeeps ==
    ASSUME Inv, NEW s \in Sessions, NEW c \in DOMAIN claims, ReadOffsets(s, c)
    PROVE  Inv'
<1>1. Begin(s, "offsets", c, 0, <<>>) /\ ~Frozen(claims[c])
  BY DEF ReadOffsets
<1>2. PICK q : /\ Formed(q) /\ q.op = "offsets" /\ q.on = c /\ q.overtaken = {}
               /\ req' = [req EXCEPT ![s] = q] /\ UNCHANGED <<ledger, settlements, absences, raced>>
  BY <1>1, BeginIs
<1>3. Apt(q)
  BY <1>2 DEF Apt, SettlementOps
<1>4. UpToDate(q)
  BY <1>1, <1>2 DEF UpToDate, ClaimSeen, FrozenSeen, ObligationSeen, SettlementSeen, AbsenceSeen
<1> QED
  BY <1>2, <1>3, <1>4, SessionKeeps DEF ClaimOps

LEMMA ReadApproveKeeps ==
    ASSUME Inv, NEW s \in Sessions, NEW c \in DOMAIN claims, ReadApprove(s, c)
    PROVE  Inv'
<1>1. Begin(s, "approve", c, 0, claims[c]) /\ ~Frozen(claims[c])
  BY DEF ReadApprove
<1>2. PICK q : /\ Formed(q) /\ q.op = "approve" /\ q.on = c /\ q.read = claims[c] /\ q.overtaken = {}
               /\ req' = [req EXCEPT ![s] = q] /\ UNCHANGED <<ledger, settlements, absences, raced>>
  BY <1>1, BeginIs
<1>3. claims[c] \in Claim /\ ClaimStands(claims[c])
  BY ClaimRows DEF Inv, ClaimsTyped
<1>4. Approves(q)
  BY <1>1, <1>2, <1>3 DEF Approves, ClaimStands
<1>5. Apt(q)
  BY <1>2, <1>4 DEF Apt, SettlementOps
<1>6. UpToDate(q)
  BY <1>1, <1>2 DEF UpToDate, ClaimSeen, FrozenSeen, ObligationSeen, SettlementSeen, AbsenceSeen
<1> QED
  BY <1>2, <1>5, <1>6, SessionKeeps DEF ClaimOps

LEMMA ReadWaiveKeeps ==
    ASSUME Inv, NEW s \in Sessions, NEW x \in Absences, ReadWaive(s, x)
    PROVE  Inv'
<1>1. Begin(s, "waive", 0, x, <<>>) /\ absences[x] = [state |-> "counted", obligation |-> 0]
  BY DEF ReadWaive
<1>2. PICK q : /\ Formed(q) /\ q.op = "waive" /\ q.with = x /\ q.overtaken = {}
               /\ req' = [req EXCEPT ![s] = q] /\ UNCHANGED <<ledger, settlements, absences, raced>>
  BY <1>1, BeginIs
<1>3. Apt(q)
  BY <1>2 DEF Apt, SettlementOps, ClaimOps, ClaimSaves
<1>4. UpToDate(q)
  BY <1>1, <1>2 DEF UpToDate, ClaimSeen, FrozenSeen, ObligationSeen, SettlementSeen, AbsenceSeen, ClaimOps,
                        ClaimSaves
<1> QED
  BY <1>2, <1>3, <1>4, SessionKeeps DEF AbsenceOps

LEMMA ReadPenaltyKeeps ==
    ASSUME Inv, NEW s \in Sessions, NEW a \in Agreements, ReadPenalty(s, a)
    PROVE  Inv'
<1>1. Begin(s, "penalise", 0, a, Penalisable) /\ Penalisable # {}
  BY DEF ReadPenalty
<1>2. PICK q : /\ Formed(q) /\ q.op = "penalise" /\ q.with = a /\ q.read = Penalisable
               /\ q.overtaken = {}
               /\ req' = [req EXCEPT ![s] = q] /\ UNCHANGED <<ledger, settlements, absences, raced>>
  BY <1>1, BeginIs
<1>3. Penalisable \in (SUBSET Absences) \ {{}}
  <2>1. PICK p : p = Penalisable
    OBVIOUS
  <2>2. p \in SUBSET Absences
    BY <2>1 DEF Penalisable
  <2> QED
    BY <1>1, <2>1, <2>2
<1>4. Apt(q)
  BY <1>2, <1>3 DEF Apt, SettlementOps, ClaimOps, ClaimSaves
<1>5. UpToDate(q)
  BY <1>2 DEF UpToDate, ClaimSeen, FrozenSeen, ObligationSeen, SettlementSeen, AbsenceSeen, ClaimOps,
                        ClaimSaves
<1> QED
  BY <1>2, <1>4, <1>5, SessionKeeps DEF AbsenceOps

LEMMA ReadOpenKeeps ==
    ASSUME Inv, NEW s \in Sessions, NEW a \in Agreements, NEW from \in 1 .. Months, ReadOpen(s, a, from)
    PROVE  Inv'
<1>1. Begin(s, "open", 0, from, a)
  BY DEF ReadOpen
<1>2. PICK q : /\ Formed(q) /\ q.op = "open" /\ q.with = from /\ q.read = a /\ q.overtaken = {}
               /\ req' = [req EXCEPT ![s] = q] /\ UNCHANGED <<ledger, settlements, absences, raced>>
  BY <1>1, BeginIs
<1>3. Apt(q)
  BY <1>2 DEF Apt, SettlementOps, ClaimOps, ClaimSaves
<1>4. UpToDate(q)
  BY <1>2 DEF UpToDate, ClaimSeen, FrozenSeen, ObligationSeen, SettlementSeen, AbsenceSeen, ClaimOps,
                        ClaimSaves
<1> QED
  BY <1>2, <1>3, <1>4, SessionKeeps DEF SettlementOps

(***************************************************************************)
(* What attaches claims to a settlement or pays on it has loaded it open.  *)
(***************************************************************************)
LEMMA ReadSettlementKeeps ==
    ASSUME Inv, NEW s \in Sessions, NEW op \in {"attach", "pay"}, NEW k \in DOMAIN settlements,
           NEW with \in Nat, ReadSettlement(s, op, k, with)
    PROVE  Inv'
<1>1. Begin(s, op, k, with, settlements[k]) /\ settlements[k].status = "OPEN"
  BY DEF ReadSettlement, RequireOpen
<1>2. PICK q : /\ Formed(q) /\ q.op = op /\ q.on = k /\ q.with = with /\ q.read = settlements[k]
               /\ q.overtaken = {}
               /\ req' = [req EXCEPT ![s] = q] /\ UNCHANGED <<ledger, settlements, absences, raced>>
  BY <1>1, BeginIs
<1>3. settlements[k] \in Settlement
  BY SettlementRows DEF Inv
<1>4. Apt(q)
  BY <1>2, <1>3 DEF Apt, ClaimOps, ClaimSaves
<1>5. UpToDate(q)
  BY <1>1, <1>2 DEF UpToDate, ClaimSeen, FrozenSeen, ObligationSeen, SettlementSeen, AbsenceSeen, ClaimOps,
                        ClaimSaves
<1> QED
  BY <1>2, <1>4, <1>5, SessionKeeps DEF SettlementOps

LEMMA ReadSignKeeps ==
    ASSUME Inv, NEW s \in Sessions, NEW k \in DOMAIN settlements, ReadSign(s, k)
    PROVE  Inv'
<1>1. /\ Begin(s, "sign", k, 0, <<>>)
      /\ settlements[k].status = "OPEN" /\ BalanceOf(settlements[k]) = 0
  BY DEF ReadSign, RequireOpen
<1>2. PICK q : /\ Formed(q) /\ q.op = "sign" /\ q.on = k /\ q.overtaken = {}
               /\ req' = [req EXCEPT ![s] = q] /\ UNCHANGED <<ledger, settlements, absences, raced>>
  BY <1>1, BeginIs
<1>3. Apt(q)
  BY <1>2 DEF Apt, ClaimOps, ClaimSaves
<1>4. UpToDate(q)
  BY <1>1, <1>2 DEF UpToDate, ClaimSeen, FrozenSeen, ObligationSeen, SettlementSeen, AbsenceSeen, ClaimOps,
                        ClaimSaves
<1> QED
  BY <1>2, <1>3, <1>4, SessionKeeps DEF SettlementOps

LEMMA RollbackKeeps ==
    ASSUME Inv, NEW s \in Sessions, Rollback(s)
    PROVE  Inv'
<1>1. PICK q : q = Idle
  OBVIOUS
<1>2. /\ Formed(q) /\ Apt(q) /\ UpToDate(q) /\ q.op = "idle" /\ q.overtaken = {}
      /\ req' = [req EXCEPT ![s] = q]
  BY <1>1, IdleIs, IdleIsApt DEF Rollback
<1> QED
  BY <1>2, SessionKeeps DEF Rollback

(***************************************************************************)
(* The share of the claim, found still a draft, is spread over the         *)
(* obligations found open.                                                 *)
(***************************************************************************)
LEMMA SpreadOffsetsKeeps ==
    ASSUME Inv, NEW s \in Sessions, SpreadOffsets(s)
    PROVE  Inv'
<1> DEFINE c == req[s].on
           share == claims[c].share
           open == OpenObligations(claims[c].agreement)
           Part(o) == Portion(share, open, o)
           borne == {o \in open : Part(o) > 0}
           rows == [o \in borne |-> [portion |-> Part(o), recovered |-> RecoveredAfter(o, Part(o))]]
           q == [req[s] EXCEPT !.op = "spread_offsets", !.read = rows]
<1>1. /\ req[s].op = "offsets" /\ Formed(req[s]) /\ Apt(req[s]) /\ UpToDate(req[s])
      /\ req[s].overtaken \in SUBSET Races
  BY DEF Inv, RequestsStand, SpreadOffsets, Serving
<1>2. req' = [req EXCEPT ![s] = q] /\ UNCHANGED <<ledger, settlements, absences, raced>>
  <2>1. req' = [req EXCEPT ![s].op = "spread_offsets", ![s].read = rows]
    BY DEF SpreadOffsets
  <2> HIDE DEF rows
  <2>2. s \in DOMAIN req
    BY DEF Inv, RequestsStand
  <2> QED
    BY <2>1, <2>2 DEF SpreadOffsets
<1>3. /\ Formed(q) /\ q.op = "spread_offsets" /\ q.on = c /\ q.read = rows
      /\ q.overtaken = req[s].overtaken
  <2> HIDE DEF rows
  <2>1. PICK r, n : r = req[s] /\ n = q
    OBVIOUS
  <2>2. Formed(r) /\ n = [r EXCEPT !.op = "spread_offsets", !.read = rows]
    BY <1>1, <2>1
  <2>3. n = [op |-> "spread_offsets", on |-> r.on, with |-> r.with, read |-> rows,
             overtaken |-> r.overtaken]
    BY <2>2 DEF Formed
  <2>4. q = [op |-> "spread_offsets", on |-> c, with |-> req[s].with, read |-> rows,
             overtaken |-> req[s].overtaken]
    BY <2>1, <2>3
  <2> HIDE DEF q, c
  <2> QED
    BY <2>4, RequestIs
<1>4. c \in DOMAIN claims /\ share \in Nat
  <2>1. c \in DOMAIN claims
    BY <1>1 DEF Apt, ClaimOps
  <2> QED
    BY <2>1, ClaimRows DEF Inv
<1>5. open \in SUBSET DOMAIN obligations /\ borne \in SUBSET open
  BY DEF OpenObligations
<1>6. ASSUME NEW o \in borne
      PROVE  /\ Part(o) \in Nat /\ Part(o) <= Outstanding[o]
             /\ obligations[o].amount \in Nat /\ obligations[o].recovered \in Nat
             /\ Outstanding[o] = obligations[o].amount - obligations[o].recovered
  <2>1. /\ obligations[o].amount \in Nat /\ obligations[o].recovered \in Nat /\ Outstanding[o] \in Nat
        /\ Outstanding[o] = obligations[o].amount - obligations[o].recovered
    BY <1>5, ObligationRows DEF Inv
  <2> DEFINE before == {p \in open : p < o}
  <2>2. IsFiniteSet(before) /\ \A p \in before : Outstanding[p] \in Int
    <3>1. IsFiniteSet(DOMAIN obligations)
      BY ObligationRows, FS_Interval DEF Inv
    <3>2. before \in SUBSET DOMAIN obligations
      BY <1>5
    <3>3. \A p \in DOMAIN obligations : Outstanding[p] \in Int
      BY ObligationRows DEF Inv
    <3> HIDE DEF before
    <3> QED
      BY <3>1, <3>2, <3>3, FS_Subset
  <2>3. SumFunctionOnSet(Outstanding, before) \in Int
    <3> HIDE DEF before
    <3> QED
      BY <2>2, SumTyped
  <2>4. PICK b \in Int : b = SumFunctionOnSet(Outstanding, before)
    BY <2>3
  <2>5. share \in Int
    BY <1>4
  <2> HIDE DEF share, open
  <2>6. Part(o) \in Nat /\ Part(o) <= Outstanding[o]
    BY <2>1, <2>4, <2>5, PortionIs
  <2> QED
    BY <2>1, <2>6
<1>7. \A o \in borne : Part(o) > 0
  OBVIOUS
<1> HIDE DEF open, borne, share
<1>8. /\ DOMAIN rows = borne
      /\ \A o \in borne : /\ rows[o].portion = Part(o)
                          /\ rows[o].recovered = obligations[o].recovered + Part(o)
  BY DEF RecoveredAfter
<1>9. Total(rows) <= share
  <2> DEFINE f == [o \in borne |-> Part(o)]
  <2>1. [o \in DOMAIN rows |-> rows[o].portion] = f
    <3> HIDE DEF rows
    <3> QED BY <1>8
  <2>2. \A o \in borne : f[o] = Portion(share, open, o) /\ f[o] > 0
    BY <1>7
  <2>3. DOMAIN f = borne
    OBVIOUS
  <2> HIDE DEF f, rows
  <2>4. SumFunctionOnSet(f, borne) <= share
    BY <1>4, <1>5, <2>2, PortionsFit DEF Inv
  <2>5. SumFunction(f) = SumFunctionOnSet(f, borne)
    BY <2>3, SumIsOnSet
  <2> QED
    BY <2>1, <2>4, <2>5 DEF Total
<1> HIDE DEF rows, q
<1>10. ASSUME NEW o \in DOMAIN rows
       PROVE  /\ rows[o].portion \in Nat /\ rows[o].recovered \in Nat
              /\ rows[o].recovered <= obligations[o].amount
  <2>1. o \in borne /\ rows[o].portion = Part(o) /\ rows[o].recovered = obligations[o].recovered + Part(o)
    BY <1>8
  <2>2. PICK n \in Nat : n = Part(o)
    BY <1>6, <2>1
  <2>3. n <= obligations[o].amount - obligations[o].recovered
    BY <1>6, <2>1, <2>2
  <2> QED
    BY <1>6, <2>1, <2>2, <2>3
<1>11. Spreads(q)
  <2>1. DOMAIN q.read \subseteq DOMAIN obligations
    BY <1>3, <1>5, <1>8
  <2> QED
    BY <1>3, <1>9, <1>10, <2>1 DEF Spreads, share
<1>12. Apt(q)
  BY <1>3, <1>4, <1>11 DEF Apt, SettlementOps
<1>13. UpToDate(q)
  <2>1. ObligationSeen(q)
    BY <1>3, <1>8 DEF ObligationSeen
  <2>2. "claim" \in q.overtaken \/ ClaimSeen(q)
    BY <1>1, <1>3 DEF UpToDate, ClaimSeen, ClaimOps
  <2>3. FrozenSeen(q) /\ SettlementSeen(q) /\ AbsenceSeen(q)
    BY <1>3 DEF FrozenSeen, SettlementSeen, AbsenceSeen
  <2> QED
    BY <2>1, <2>2, <2>3 DEF UpToDate
<1> QED
  BY <1>1, <1>2, <1>3, <1>12, <1>13, SessionKeeps DEF ClaimOps

(***************************************************************************)
(* Saving finds the claim a draft still, or frozen with these figures.     *)
(***************************************************************************)
LEMMA SaveOffsetsKeeps ==
    ASSUME Inv, NEW s \in Sessions, SaveOffsets(s)
    PROVE  Inv'
<1>1. PICK r : r = req[s]
  OBVIOUS
<1>2. PICK q : q = [r EXCEPT !.op = "save_offsets"]
  OBVIOUS
<1>3. /\ r.op = "spread_offsets" /\ Formed(r) /\ Apt(r) /\ UpToDate(r) /\ r.overtaken \in SUBSET Races
      /\ Saves(r.on, Total(r.read))
  BY <1>1 DEF Inv, RequestsStand, SaveOffsets, Serving
<1>4. req' = [req EXCEPT ![s] = q] /\ UNCHANGED <<ledger, settlements, absences, raced>>
  <2>1. s \in DOMAIN req
    BY DEF Inv, RequestsStand
  <2>2. req' = [req EXCEPT ![s].op = "save_offsets"]
    BY DEF SaveOffsets
  <2> QED
    BY <1>1, <1>2, <2>1, <2>2 DEF SaveOffsets
<1>5. q = [op |-> "save_offsets", on |-> r.on, with |-> r.with, read |-> r.read, overtaken |-> r.overtaken]
  BY <1>2, <1>3 DEF Formed
<1>6. /\ Formed(q) /\ q.op = "save_offsets" /\ q.on = r.on /\ q.read = r.read
      /\ q.overtaken = r.overtaken
  BY <1>5, RequestIs
<1>7. Spreads(r) /\ r.on \in DOMAIN claims
  BY <1>3 DEF Apt, ClaimOps, ClaimSaves
<1>8. Apt(q)
  BY <1>6, <1>7 DEF Apt, Spreads, SettlementOps
<1>9. UpToDate(q)
  <2>1. "obligation" \in q.overtaken \/ ObligationSeen(q)
    BY <1>3, <1>6 DEF UpToDate, ObligationSeen
  <2>2. "claim" \in q.overtaken \/ ClaimSeen(q)
    BY <1>3, <1>6 DEF UpToDate, ClaimSeen, ClaimOps, ClaimSaves
  <2>3. FrozenSeen(q)
    BY <1>3, <1>6 DEF FrozenSeen
  <2>4. SettlementSeen(q) /\ AbsenceSeen(q)
    BY <1>6 DEF SettlementSeen, AbsenceSeen
  <2> QED
    BY <2>1, <2>2, <2>3, <2>4 DEF UpToDate
<1> QED
  BY <1>3, <1>4, <1>6, <1>8, <1>9, SessionKeeps DEF ClaimOps, ClaimSaves

(***************************************************************************)
(* What a claim was deducted for is what it is sealed with.                *)
(***************************************************************************)
LEMMA RowsOfIsRows ==
    ASSUME Inv, NEW c \in DOMAIN claims
    PROVE  RowsOf(c) \in Rows
<1>1. c \in 1 .. MaxClaims
  BY ClaimRows DEF Inv, ClaimsTyped, Given, BoundsAssumption
<1>2. \A o \in 1 .. MaxObligations : <<c, o>> \in (1 .. MaxClaims) \X (1 .. MaxObligations)
  BY <1>1
<1>3. \A o \in 1 .. MaxObligations : deductions[c, o] \in Nat
  BY <1>2 DEF Inv, DeductionsTyped
<1> QED
  BY <1>3 DEF RowsOf, Rows

-----------------------------------------------------------------------------
(* What was recovered, what is due, what was fined. *)

LEMMA ChargedOnceIs ==
    ChargedOnce <=> /\ "obligation" \in raced \/ RecoveredHolds
                    /\ "absence" \in raced \/ FinesHold
                    /\ raced \cap {"settlement", "claim"} # {} \/ DueHolds
  BY DEF ChargedOnce, DeductedIsRecovered, FinedOnce, DueIsAttached, RecoveredHolds, DeductedFor, FinesHold,
         FinedFor, DueHolds, AttachedTo

LEMMA ClaimsFinite ==
    ASSUME ClaimsTyped
    PROVE  IsFiniteSet(DOMAIN claims) /\ \A k : IsFiniteSet(AttachedTo(k))
<1>1. IsFiniteSet(DOMAIN claims)
  BY ClaimRows, FS_Interval
<1>2. ASSUME NEW k PROVE IsFiniteSet(AttachedTo(k))
  <2>1. AttachedTo(k) \in SUBSET DOMAIN claims
    BY DEF AttachedTo
  <2> QED
    BY <1>1, <2>1, FS_Subset
<1> QED
  BY <1>1, <1>2

LEMMA DeductedForIs ==
    ASSUME NEW o, NEW f, f = [c \in DOMAIN claims |-> deductions[c, o]]
    PROVE  DeductedFor(o) = SumFunctionOnSet(f, DOMAIN claims)
<1>1. DeductedFor(o) = SumFunction(f)
  BY DEF DeductedFor
<1>2. DOMAIN f = DOMAIN claims
  OBVIOUS
<1> QED
  BY <1>1, <1>2, SumIsOnSet

LEMMA DeductedForIsNext ==
    ASSUME NEW o, NEW f, f = [c \in DOMAIN claims' |-> deductions'[c, o]]
    PROVE  DeductedFor(o)' = SumFunctionOnSet(f, DOMAIN claims')
<1>1. DeductedFor(o)' = SumFunction(f)
  BY DEF DeductedFor
<1>2. DOMAIN f = DOMAIN claims'
  OBVIOUS
<1> QED
  BY <1>1, <1>2, SumIsOnSet

(***************************************************************************)
(* New claims and new obligations, of which nothing was deducted, and      *)
(* whatever leaves the deductions alone.                                   *)
(***************************************************************************)
LEMMA RecoveredKept ==
    ASSUME Given, ClaimsTyped, ClaimsTyped', DeductionsTyped, ObligationsTyped, ObligationsTyped',
           RecoveredHolds, deductions' = deductions, DOMAIN claims \subseteq DOMAIN claims',
           \A o \in DOMAIN obligations' :
              \/ o \in DOMAIN obligations /\ obligations'[o].recovered = obligations[o].recovered
              \/ o \notin DOMAIN obligations /\ obligations'[o].recovered = 0
    PROVE  RecoveredHolds'
<1>1. /\ DOMAIN claims = 1 .. Len(claims) /\ Len(claims) \in Nat /\ Len(claims) <= MaxClaims
      /\ DOMAIN obligations = 1 .. Len(obligations) /\ Len(obligations) \in Nat
      /\ Len(obligations) <= MaxObligations
      /\ MaxClaims \in Nat /\ MaxObligations \in Nat
  BY ClaimRows, ObligationRows DEF ClaimsTyped, ObligationsTyped, Given, BoundsAssumption
<1>2. /\ DOMAIN claims' = 1 .. Len(claims') /\ Len(claims') \in Nat /\ Len(claims') <= MaxClaims
      /\ DOMAIN obligations' = 1 .. Len(obligations') /\ Len(obligations') \in Nat
      /\ Len(obligations') <= MaxObligations
  BY LenProperties DEF ClaimsTyped, ObligationsTyped
<1>3. IsFiniteSet(DOMAIN claims')
  BY <1>2, FS_Interval
<1>4. ASSUME NEW o \in DOMAIN obligations' PROVE obligations'[o].recovered = DeductedFor(o)'
  <2>1. PICK f : f = [c \in DOMAIN claims |-> deductions[c, o]]
    OBVIOUS
  <2>2. PICK g : g = [c \in DOMAIN claims' |-> deductions'[c, o]]
    OBVIOUS
  <2>3. /\ \A c \in DOMAIN claims : f[c] \in Int /\ g[c] = f[c]
        /\ \A c \in DOMAIN claims' \ DOMAIN claims : g[c] = 0
    <3>1. \A c \in DOMAIN claims' : c \in 1 .. MaxClaims /\ o \in 1 .. MaxObligations
      BY <1>1, <1>2
    <3>2. \A c \in DOMAIN claims' : deductions[c, o] \in Nat
      BY <3>1 DEF DeductionsTyped
    <3>3. \A c \in DOMAIN claims' \ DOMAIN claims : deductions[c, o] = 0
      BY <3>1 DEF DeductionsTyped
    <3>4. \A c \in DOMAIN claims : f[c] = deductions[c, o]
      BY <2>1
    <3>5. \A c \in DOMAIN claims' : g[c] = deductions[c, o]
      BY <2>2
    <3>6. ASSUME NEW c \in DOMAIN claims PROVE f[c] \in Int /\ g[c] = f[c]
      <4>1. c \in DOMAIN claims'
        OBVIOUS
      <4>2. PICK d \in Nat : d = deductions[c, o]
        BY <3>2, <4>1
      <4>3. f[c] = d
        BY <3>4, <4>2
      <4>4. g[c] = d
        BY <3>5, <4>1, <4>2
      <4>5. d \in Int
        OBVIOUS
      <4>6. g[c] = f[c]
        BY <4>3, <4>4
      <4> QED
        BY <4>3, <4>5, <4>6
    <3>7. ASSUME NEW c \in DOMAIN claims' \ DOMAIN claims PROVE g[c] = 0
      BY <3>3, <3>5
    <3> QED
      BY <3>6, <3>7
  <2>4. DeductedFor(o)' = SumFunctionOnSet(g, DOMAIN claims')
    BY <2>2, DeductedForIsNext
  <2>5. SumFunctionOnSet(g, DOMAIN claims') = SumFunctionOnSet(f, DOMAIN claims)
    BY <1>3, <2>3, SumWithZeros
  <2>6. CASE o \in DOMAIN obligations
    <3>1. obligations'[o].recovered = DeductedFor(o)
      BY <2>6 DEF RecoveredHolds
    <3> QED
      BY <2>1, <2>4, <2>5, <3>1, DeductedForIs
  <2>7. CASE o \notin DOMAIN obligations
    <3>1. \A c \in DOMAIN claims : c \in 1 .. MaxClaims /\ o \in 1 .. MaxObligations
      BY <1>1, <1>2
    <3>2. \A c \in DOMAIN claims : f[c] = 0
      BY <2>1, <2>7, <3>1 DEF DeductionsTyped
    <3>3. IsFiniteSet(DOMAIN claims)
      BY ClaimsFinite
    <3>4. SumFunctionOnSet(f, DOMAIN claims) = 0
      BY <3>2, <3>3, SumOfZeros
    <3> QED
      BY <2>4, <2>5, <2>7, <3>4
  <2> QED
    BY <2>6, <2>7
<1> QED
  BY <1>4 DEF RecoveredHolds

(***************************************************************************)
(* What leaves attached claims and their figures alone.                    *)
(***************************************************************************)
LEMMA DueKept ==
    ASSUME ClaimsTyped, SettlementsTyped, SettlementsTyped', DueHolds,
           DOMAIN claims \subseteq DOMAIN claims',
           \A c \in DOMAIN claims :
              /\ claims'[c].settlement = claims[c].settlement
              /\ claims[c].settlement # 0 => NetPayable(claims'[c]) = NetPayable(claims[c]),
           \A c \in DOMAIN claims' \ DOMAIN claims : claims'[c].settlement = 0,
           \A k \in DOMAIN settlements' :
              \/ k \in DOMAIN settlements /\ settlements'[k].due = settlements[k].due
              \/ k \notin DOMAIN settlements /\ settlements'[k].due = 0
    PROVE  DueHolds'
<1>1. \A k \in DOMAIN settlements' : k # 0
  BY LenProperties DEF SettlementsTyped
<1>2. ASSUME NEW k \in DOMAIN settlements'
      PROVE  settlements'[k].due = SumFunctionOnSet(Net', {c \in DOMAIN claims' : claims'[c].settlement = k})
  <2>1. PICK net : net = Net'
    OBVIOUS
  <2>2. {c \in DOMAIN claims' : claims'[c].settlement = k} = AttachedTo(k)
    BY <1>1 DEF AttachedTo
  <2>3. IsFiniteSet(AttachedTo(k))
    BY ClaimsFinite
  <2>4. \A c \in AttachedTo(k) : Net[c] \in Int /\ net[c] = Net[c]
    <3>1. ASSUME NEW c \in AttachedTo(k) PROVE Net[c] \in Int /\ net[c] = Net[c]
      <4>1. c \in DOMAIN claims /\ c \in DOMAIN claims' /\ claims[c].settlement # 0
        BY <1>1 DEF AttachedTo
      <4>2. net[c] = NetPayable(claims'[c]) /\ Net[c] = NetPayable(claims[c])
        BY <2>1, <4>1 DEF Net, NetPayable
      <4>3. NetPayable(claims[c]) \in Nat
        BY <4>1, ClaimRows
      <4> QED
        BY <4>1, <4>2, <4>3
    <3> QED
      BY <3>1
  <2>5. SumFunctionOnSet(net, AttachedTo(k)) = SumFunctionOnSet(Net, AttachedTo(k))
    BY <2>3, <2>4, SumSame
  <2>6. CASE k \in DOMAIN settlements
    BY <2>1, <2>2, <2>5, <2>6 DEF DueHolds
  <2>7. CASE k \notin DOMAIN settlements
    <3>1. AttachedTo(k) = {}
      BY <1>1, <2>7 DEF ClaimsTyped, ClaimStands, AttachedTo
    <3>2. SumFunctionOnSet(Net, AttachedTo(k)) = 0
      BY <3>1, SumFirst, FS_EmptySet
    <3> QED
      BY <2>1, <2>2, <2>5, <2>7, <3>2
  <2> QED
    BY <2>6, <2>7
<1> QED
  BY <1>2 DEF DueHolds, AttachedTo

-----------------------------------------------------------------------------
(* Steps outside the requests. *)

LEMMA MaxIsNat ==
    ASSUME NEW a \in Nat, NEW b \in Nat
    PROVE  Max({a, b}) \in Nat
<1>1. Max({a, b}) = IF a >= b THEN a ELSE b
  BY LargerOfTwo
<1> QED
  BY <1>1

LEMMA BuildClaimKeeps ==
    ASSUME Inv, NEW a \in Agreements, NEW month \in 1 .. Months, NEW base \in Shares,
           BuildClaim(a, month, base)
    PROVE  Inv'
<1> DEFINE n == Len(claims) + 1
           new == [agreement |-> a, month |-> month, share |-> base, deducted |-> 0,
                   status |-> "DRAFT", settlement |-> 0, seal |-> NoSeal]
<1>1. /\ Len(claims) < MaxClaims /\ claims' = Append(claims, new) /\ Quiet
      /\ collected' = [collected EXCEPT ![a] = Max({@, base})]
      /\ UNCHANGED <<deductions, obligations, settlements, absences>>
  BY DEF BuildClaim
<1>2. new \in Claim
  <2>1. base \in Nat
    BY DEF Inv, Given, AmountsAssumption
  <2>2. NoSeal.rows \in Rows /\ NoSeal.deducted = 0
    BY DEF NoSeal, Rows
  <2>3. NoSeal \in [deducted : Nat, rows : Rows]
    BY <2>2 DEF NoSeal
  <2> HIDE DEF Rows
  <2> QED
    BY <2>1, <2>3 DEF Claim
<1>3. new.settlement = 0 /\ ClaimStands(new)'
  <2>1. base \in Nat
    BY DEF Inv, Given, AmountsAssumption
  <2> QED
    BY <2>1 DEF ClaimStands, NetPayable, Frozen
<1> HIDE DEF new
<1>4. /\ claims' \in Seq(Claim) /\ Len(claims) \in Nat /\ Len(claims') = n
      /\ DOMAIN claims' = DOMAIN claims \cup {n} /\ n \notin DOMAIN claims
      /\ \A c \in DOMAIN claims : claims'[c] = claims[c]
      /\ claims'[n] = new
  BY <1>1, <1>2, RowAdded DEF Inv, ClaimsTyped
<1>5. collected' \in [Agreements -> Nat]
  <2>1. collected[a] \in Nat /\ base \in Nat
    BY DEF Inv, ClaimsTyped, Given, AmountsAssumption
  <2>2. Max({collected[a], base}) \in Nat
    BY <2>1, MaxIsNat
  <2> QED
    BY <1>1, <2>2 DEF Inv, ClaimsTyped
<1>6. ClaimsTyped'
  <2>1. Len(claims') <= MaxClaims
    BY <1>1, <1>4 DEF Inv, Given, BoundsAssumption
  <2>2. ASSUME NEW c \in DOMAIN claims' PROVE ClaimStands(claims[c])'
    <3>1. CASE c \in DOMAIN claims
      <4>1. ClaimStands(claims[c]) /\ claims'[c] = claims[c] /\ settlements' = settlements
        BY <1>1, <1>4, <3>1 DEF Inv, ClaimsTyped
      <4> QED
        BY <4>1 DEF ClaimStands, NetPayable, Frozen
    <3>2. CASE c = n
      BY <1>3, <1>4, <3>2 DEF ClaimStands, NetPayable, Frozen
    <3> QED
      BY <1>4, <3>1, <3>2
  <2> QED
    BY <1>4, <1>5, <2>1, <2>2 DEF ClaimsTyped
<1>7. DeductionsTyped'
  BY <1>1, <1>4 DEF Inv, DeductionsTyped
<1>8. ObligationsTyped' /\ SettlementsTyped' /\ AbsencesTyped'
  BY <1>1 DEF Inv, ObligationsTyped, SettlementsTyped, AbsencesTyped
<1>9. Moves(Idle)
  BY <1>1, <1>4 DEF Moves, Grown, ClaimsMove, ObligationsMove, SettlementsMove, AbsencesMove
<1>10. RequestsStand' /\ raced' = raced
  BY <1>1, <1>9, QuietKeeps DEF Inv
<1>11. "obligation" \in raced' \/ RecoveredHolds'
  BY <1>1, <1>4, <1>6, <1>8, <1>10, RecoveredKept DEF Inv
<1>12. raced' \cap {"settlement", "claim"} # {} \/ DueHolds'
  <2>1. ASSUME DueHolds PROVE DueHolds'
    BY <1>1, <1>3, <1>4, <1>8, <2>1, DueKept DEF Inv
  <2> QED
    BY <1>10, <2>1 DEF Inv
<1>13. "absence" \in raced' \/ FinesHold'
  BY <1>1, <1>10 DEF Inv, FinesHold, FinedFor
<1>14. UnknownIsUnfined'
  BY <1>1, <1>10 DEF Inv, UnknownIsUnfined
<1> QED
  BY <1>6, <1>7, <1>8, <1>10, <1>11, <1>12, <1>13, <1>14 DEF Inv

(***************************************************************************)
(* An obligation is added, of which nothing was recovered.                 *)
(***************************************************************************)
LEMMA OweIs ==
    ASSUME Given, ObligationsTyped, DeductionsTyped,
           NEW scope \in Agreements \cup {Partner}, NEW amount \in Nat \ {0}, NEW lectures \in Nat,
           Owe(scope, amount, lectures), UNCHANGED <<claims, deductions>>
    PROVE  /\ ObligationsTyped' /\ DeductionsTyped'
           /\ Len(obligations) \in Nat /\ Len(obligations') = Len(obligations) + 1
           /\ DOMAIN obligations = 1 .. Len(obligations)
           /\ DOMAIN obligations' = DOMAIN obligations \cup {Len(obligations) + 1}
           /\ Len(obligations) + 1 \notin DOMAIN obligations
           /\ \A o \in DOMAIN obligations : obligations'[o] = obligations[o]
           /\ obligations'[Len(obligations) + 1].recovered = 0
           /\ obligations'[Len(obligations) + 1].lectures = lectures
<1> DEFINE n == Len(obligations) + 1
           new == [scope |-> scope, amount |-> amount, recovered |-> 0, lectures |-> lectures]
<1>1. Len(obligations) < MaxObligations /\ obligations' = Append(obligations, new)
  BY DEF Owe
<1>2. new \in Obligation
  BY DEF Obligation
<1>3. new.recovered = 0 /\ new.lectures = lectures /\ new.recovered <= new.amount
  OBVIOUS
<1> HIDE DEF new
<1>4. /\ obligations' \in Seq(Obligation) /\ Len(obligations) \in Nat /\ Len(obligations') = n
      /\ DOMAIN obligations = 1 .. Len(obligations)
      /\ DOMAIN obligations' = DOMAIN obligations \cup {n} /\ n \notin DOMAIN obligations
      /\ \A o \in DOMAIN obligations : obligations'[o] = obligations[o]
      /\ obligations'[n] = new
  BY <1>1, <1>2, RowAdded DEF ObligationsTyped
<1>5. Len(obligations') <= MaxObligations
  BY <1>1, <1>4 DEF Given, BoundsAssumption
<1>6. \A o \in DOMAIN obligations' : obligations'[o].recovered <= obligations'[o].amount
  BY <1>3, <1>4 DEF ObligationsTyped
<1>7. ObligationsTyped'
  BY <1>4, <1>5, <1>6 DEF ObligationsTyped
<1>8. DeductionsTyped'
  BY <1>4 DEF DeductionsTyped
<1> QED
  BY <1>3, <1>4, <1>7, <1>8

(***************************************************************************)
(* One that is no penalty.                                                 *)
(***************************************************************************)
LEMMA OweKeeps ==
    ASSUME Inv, NEW scope \in Agreements \cup {Partner}, NEW amount \in Nat \ {0},
           Owe(scope, amount, 0), Quiet,
           UNCHANGED <<collected, claims, deductions, settlements, absences>>
    PROVE  Inv'
<1> DEFINE n == Len(obligations) + 1
<1>1. /\ ObligationsTyped' /\ DeductionsTyped'
      /\ Len(obligations) \in Nat /\ DOMAIN obligations = 1 .. Len(obligations)
      /\ DOMAIN obligations' = DOMAIN obligations \cup {n}
      /\ n \notin DOMAIN obligations
      /\ \A o \in DOMAIN obligations : obligations'[o] = obligations[o]
      /\ obligations'[n].recovered = 0 /\ obligations'[n].lectures = 0
  BY OweIs DEF Inv
<1>2. ClaimsTyped' /\ SettlementsTyped'
  BY DEF Inv, ClaimsTyped, ClaimStands, SettlementsTyped
<1>3. AbsencesTyped'
  BY <1>1 DEF Inv, AbsencesTyped
<1>4. Moves(Idle)
  BY <1>1 DEF Moves, Grown, ClaimsMove, ObligationsMove, SettlementsMove, AbsencesMove
<1>5. RequestsStand' /\ raced' = raced
  BY <1>4, QuietKeeps DEF Inv
<1>6. "obligation" \in raced' \/ RecoveredHolds'
  BY <1>1, <1>2, <1>5, RecoveredKept DEF Inv
<1>7. raced' \cap {"settlement", "claim"} # {} \/ DueHolds'
  BY <1>5 DEF Inv, DueHolds, AttachedTo, Net
<1>8. "absence" \in raced' \/ FinesHold'
  <2>1. ASSUME FinesHold PROVE FinesHold'
    <3>1. \A o : FinedFor(o)' = FinedFor(o)
      BY DEF Inv, FinedFor
    <3>2. FinedFor(n) = {}
      BY <1>1 DEF Inv, FinedFor, AbsencesTyped
    <3>3. Cardinality(FinedFor(n)) = 0
      BY <3>2, FS_EmptySet
    <3>4. \A o \in DOMAIN obligations' : obligations'[o].lectures = Cardinality(FinedFor(o))
      BY <1>1, <2>1, <3>3 DEF FinesHold
    <3>5. \A x \in Absences : absences'[x].state = "waived" => absences'[x].obligation = 0
      BY <2>1 DEF FinesHold
    <3> QED
      BY <3>4, <3>5 DEF FinesHold, FinedFor
  <2> QED
    BY <1>5, <2>1 DEF Inv
<1>9. UnknownIsUnfined'
  BY <1>5 DEF Inv, UnknownIsUnfined
<1> QED
  BY <1>1, <1>2, <1>3, <1>5, <1>6, <1>7, <1>8, <1>9 DEF Inv

LEMMA RecordObligationKeeps ==
    ASSUME Inv, NEW scope \in Scopes, NEW amount \in Amounts, RecordObligation(scope, amount)
    PROVE  Inv'
<1>1. scope \in Agreements \cup {Partner} /\ amount \in Nat \ {0}
  BY DEF Inv, Given, ScopesAssumption, AmountsAssumption
<1> QED
  BY <1>1, OweKeeps DEF RecordObligation

LEMMA RecordRefundRecoveryKeeps ==
    ASSUME Inv, NEW a \in Agreements, NEW amount \in Amounts, RecordRefundRecovery(a, amount)
    PROVE  Inv'
<1>1. a \in Agreements \cup {Partner} /\ amount \in Nat \ {0}
  BY DEF Inv, Given, AmountsAssumption
<1> QED
  BY <1>1, OweKeeps DEF RecordRefundRecovery

LEMMA RecordAbsenceKeeps ==
    ASSUME Inv, NEW x \in Absences, NEW state \in {"counted", "waived"}, RecordAbsence(x, state)
    PROVE  Inv'
<1>1. /\ absences[x].state = "unknown"
      /\ absences' = [absences EXCEPT ![x].state = state]
      /\ UNCHANGED <<collected, claims, deductions, obligations, settlements>> /\ Quiet
  BY DEF RecordAbsence, ledger
<1>2. /\ absences[x] \in Absence
      /\ absences' \in [Absences -> Absence]
      /\ absences'[x].state = state /\ absences'[x].obligation = absences[x].obligation
      /\ \A y \in Absences : y # x => absences'[y] = absences[y]
  BY <1>1 DEF Inv, AbsencesTyped, Absence
<1>3. \A y \in Absences : absences'[y].obligation = absences[y].obligation
  BY <1>2
<1>4. AbsencesTyped'
  BY <1>1, <1>2, <1>3 DEF Inv, AbsencesTyped
<1>5. ClaimsTyped' /\ DeductionsTyped' /\ ObligationsTyped' /\ SettlementsTyped'
  BY <1>1 DEF Inv, ClaimsTyped, ClaimStands, DeductionsTyped, ObligationsTyped, SettlementsTyped
<1>6. Moves(Idle)
  BY <1>1, <1>2 DEF Moves, Grown, ClaimsMove, ObligationsMove, SettlementsMove, AbsencesMove
<1>7. RequestsStand' /\ raced' = raced
  BY <1>1, <1>6, QuietKeeps DEF Inv
<1>8. "obligation" \in raced' \/ RecoveredHolds'
  BY <1>1, <1>7 DEF Inv, RecoveredHolds, DeductedFor
<1>9. raced' \cap {"settlement", "claim"} # {} \/ DueHolds'
  BY <1>1, <1>7 DEF Inv, DueHolds, AttachedTo, Net
<1>10. \/ "absence" \in raced'
       \/ FinesHold' /\ \A y \in Absences : absences'[y].state = "unknown" => absences'[y].obligation = 0
  <2>1. ASSUME "absence" \notin raced
        PROVE  FinesHold' /\ \A y \in Absences : absences'[y].state = "unknown" => absences'[y].obligation = 0
    <3>1. FinesHold /\ \A y \in Absences : absences[y].state = "unknown" => absences[y].obligation = 0
      BY <2>1 DEF Inv, UnknownIsUnfined
    <3>2. \A y \in Absences : absences'[y].state \in {"unknown", "waived"} => absences'[y].obligation = 0
      BY <1>1, <1>2, <3>1 DEF FinesHold
    <3>3. \A o \in DOMAIN obligations' : obligations'[o].lectures = Cardinality({y \in Absences : absences'[y].obligation = o})
      <4>1. \A o : {y \in Absences : absences'[y].obligation = o} = FinedFor(o)
        BY <1>3 DEF FinedFor
      <4> QED
        BY <1>1, <3>1, <4>1 DEF FinesHold
    <3> QED
      BY <3>2, <3>3 DEF FinesHold, FinedFor
  <2> QED
    BY <1>7, <2>1
<1>11. UnknownIsUnfined'
  BY <1>10 DEF UnknownIsUnfined
<1> QED
  BY <1>4, <1>5, <1>7, <1>8, <1>9, <1>10, <1>11 DEF Inv

-----------------------------------------------------------------------------
(* Commits. *)

LEMMA ServedIs ==
    ASSUME Inv, NEW s \in Sessions
    PROVE  Formed(req[s]) /\ Apt(req[s]) /\ UpToDate(req[s]) /\ req[s].overtaken \in SUBSET Races
  BY DEF Inv, RequestsStand

LEMMA ClaimDeducted ==
    ASSUME NEW claim \in Claim, NEW n \in Nat, NEW new, new = [claim EXCEPT !.deducted = n]
    PROVE  /\ new \in Claim
           /\ new.agreement = claim.agreement /\ new.month = claim.month /\ new.share = claim.share
           /\ new.deducted = n
           /\ new.status = claim.status /\ new.settlement = claim.settlement /\ new.seal = claim.seal
<1> DEFINE seals == [deducted : Nat, rows : Rows]
<1>1. Claim = [agreement : Agreements, month : 1 .. Months, share : Nat, deducted : Nat,
               status : {"DRAFT", "APPROVED"}, settlement : Nat, seal : seals]
  BY DEF Claim
<1> HIDE DEF seals
<1> QED
  BY <1>1

LEMMA ClaimAttached ==
    ASSUME NEW claim \in Claim, NEW k \in Nat, NEW new, new = [claim EXCEPT !.settlement = k]
    PROVE  /\ new \in Claim
           /\ new.agreement = claim.agreement /\ new.month = claim.month /\ new.share = claim.share
           /\ new.deducted = claim.deducted
           /\ new.status = claim.status /\ new.settlement = k /\ new.seal = claim.seal
<1> DEFINE seals == [deducted : Nat, rows : Rows]
<1>1. Claim = [agreement : Agreements, month : 1 .. Months, share : Nat, deducted : Nat,
               status : {"DRAFT", "APPROVED"}, settlement : Nat, seal : seals]
  BY DEF Claim
<1> HIDE DEF seals
<1> QED
  BY <1>1

Approving(claim, seal) == [claim EXCEPT !.status = "APPROVED", !.seal = seal]

LEMMA ClaimApproved ==
    ASSUME NEW claim \in Claim, NEW seal \in [deducted : Nat, rows : Rows],
           NEW new, new = Approving(claim, seal)
    PROVE  /\ new \in Claim
           /\ new.agreement = claim.agreement /\ new.month = claim.month /\ new.share = claim.share
           /\ new.deducted = claim.deducted
           /\ new.status = "APPROVED" /\ new.settlement = claim.settlement /\ new.seal = seal
<1> DEFINE seals == [deducted : Nat, rows : Rows]
<1>1. Claim = [agreement : Agreements, month : 1 .. Months, share : Nat, deducted : Nat,
               status : {"DRAFT", "APPROVED"}, settlement : Nat, seal : seals]
  BY DEF Claim
<1>2. seal \in seals
  OBVIOUS
<1> HIDE DEF seals
<1> QED
  BY <1>1, <1>2 DEF Approving

(***************************************************************************)
(* The instance loaded is sealed with its figures, and the claim found a   *)
(* draft still, or frozen with these.                                      *)
(***************************************************************************)
LEMMA SaveApprovalKeeps ==
    ASSUME Inv, NEW s \in Sessions, SaveApproval(s)
    PROVE  Inv'
<1>1. PICK r, c, read : r = req[s] /\ c = r.on /\ read = r.read
  OBVIOUS
<1>2. PICK seal : seal = [deducted |-> read.deducted, rows |-> RowsOf(c)]
  OBVIOUS
<1>3. PICK new : new = Approving(read, seal)
  OBVIOUS
<1>4. PICK q : q = [r EXCEPT !.op = "save_approval", !.read = new]
  OBVIOUS
<1>5. /\ r.op = "approve" /\ Formed(r) /\ Apt(r) /\ UpToDate(r) /\ r.overtaken \in SUBSET Races
      /\ Saves(c, read.deducted)
  BY <1>1 DEF Inv, RequestsStand, SaveApproval, Serving
<1>6. req' = [req EXCEPT ![s] = q] /\ UNCHANGED <<ledger, settlements, absences, raced>>
  <2>1. s \in DOMAIN req
    BY DEF Inv, RequestsStand
  <2>2. req' = [req EXCEPT ![s].op = "save_approval", ![s].read = new]
    BY <1>1, <1>2, <1>3 DEF SaveApproval, Approving
  <2> QED
    BY <1>1, <1>4, <2>1, <2>2 DEF SaveApproval
<1>7. q = [op |-> "save_approval", on |-> c, with |-> r.with, read |-> new, overtaken |-> r.overtaken]
  BY <1>1, <1>4, <1>5 DEF Formed
<1>8. /\ Formed(q) /\ q.op = "save_approval" /\ q.on = c /\ q.read = new
      /\ q.overtaken = r.overtaken
  BY <1>7, RequestIs
<1>9. /\ c \in DOMAIN claims /\ read \in Claim /\ NetPayable(read) >= 0 /\ read.settlement = 0
      /\ read.share = claims[c].share
  BY <1>1, <1>5 DEF Apt, Approves, ClaimOps
<1>10. seal \in [deducted : Nat, rows : Rows] /\ seal.deducted = read.deducted
  <2>1. RowsOf(c) \in Rows
    BY <1>9, RowsOfIsRows
  <2>2. read.deducted \in Nat
    BY <1>9 DEF Claim
  <2> QED
    BY <1>2, <2>1, <2>2
<1>11. /\ new \in Claim
       /\ new.share = read.share /\ new.deducted = read.deducted
       /\ new.status = "APPROVED" /\ new.settlement = 0 /\ new.seal = seal
  BY <1>3, <1>9, <1>10, ClaimApproved
<1>12. Approved(q)
  BY <1>8, <1>9, <1>10, <1>11 DEF Approved, Frozen, Sealed, NetPayable
<1>13. Apt(q)
  BY <1>8, <1>9, <1>12 DEF Apt, SettlementOps
<1>14. UpToDate(q)
  <2>1. "claim" \in q.overtaken \/ ClaimSeen(q)
    BY <1>1, <1>5, <1>8 DEF UpToDate, ClaimSeen, ClaimOps, ClaimSaves
  <2>2. FrozenSeen(q)
    BY <1>5, <1>8, <1>11 DEF FrozenSeen
  <2>3. ObligationSeen(q) /\ SettlementSeen(q) /\ AbsenceSeen(q)
    BY <1>8 DEF ObligationSeen, SettlementSeen, AbsenceSeen
  <2> QED
    BY <2>1, <2>2, <2>3 DEF UpToDate
<1> QED
  BY <1>5, <1>6, <1>8, <1>13, <1>14, SessionKeeps DEF ClaimOps, ClaimSaves

LEMMA ObligationRecovered ==
    ASSUME NEW obligation \in Obligation, NEW n \in Nat, NEW new, new = [obligation EXCEPT !.recovered = n]
    PROVE  /\ new \in Obligation
           /\ new.amount = obligation.amount /\ new.lectures = obligation.lectures /\ new.recovered = n
  BY DEF Obligation

LEMMA WriteOffsetsKeeps ==
    ASSUME Inv, NEW s \in Sessions, WriteOffsets(s)
    PROVE  Inv'
<1>1. PICK c, rows, total : /\ c = req[s].on /\ rows = req[s].read
                            /\ total = Total(rows)
  OBVIOUS
<1>2. /\ req[s].op = "save_offsets"
      /\ claims' = [claims EXCEPT ![c].deducted = total]
      /\ deductions' = [d \in DOMAIN deductions |->
                           IF d[1] = c /\ d[2] \in DOMAIN rows
                           THEN deductions[d] + rows[d[2]].portion ELSE deductions[d]]
      /\ obligations' = [o \in DOMAIN obligations |->
                            IF o \in DOMAIN rows
                            THEN [obligations[o] EXCEPT !.recovered = rows[o].recovered]
                            ELSE obligations[o]]
      /\ Finish(s)
      /\ UNCHANGED <<collected, settlements, absences>>
  BY <1>1 DEF WriteOffsets, Serving
<1>3. /\ Apt(req[s]) /\ UpToDate(req[s]) /\ Spreads(req[s]) /\ c \in DOMAIN claims
  BY <1>1, <1>2, ServedIs DEF Apt, ClaimOps, ClaimSaves
<1>4. /\ DOMAIN rows \subseteq DOMAIN obligations
      /\ \A o \in DOMAIN rows : /\ rows[o].portion \in Nat /\ rows[o].recovered \in Nat
                                /\ rows[o].recovered <= obligations[o].amount
      /\ total <= claims[c].share
  BY <1>1, <1>3 DEF Spreads
<1>5. /\ DOMAIN claims = 1 .. Len(claims) /\ Len(claims) \in Nat /\ Len(claims) <= MaxClaims
      /\ DOMAIN obligations = 1 .. Len(obligations) /\ Len(obligations) \in Nat
      /\ Len(obligations) <= MaxObligations
      /\ MaxClaims \in Nat /\ MaxObligations \in Nat
      /\ IsFiniteSet(DOMAIN claims)
  BY ClaimRows, ObligationRows, ClaimsFinite DEF Inv, ClaimsTyped, ObligationsTyped, Given, BoundsAssumption
<1>6. total \in Nat
  <2> DEFINE f == [o \in DOMAIN rows |-> rows[o].portion]
  <2>1. DOMAIN f = DOMAIN rows /\ \A o \in DOMAIN rows : f[o] \in Nat
    BY <1>4
  <2>2. IsFiniteSet(DOMAIN rows)
    <3>1. IsFiniteSet(DOMAIN obligations)
      BY <1>5, FS_Interval
    <3> QED
      BY <1>4, <3>1, FS_Subset
  <2>3. total = SumFunction(f)
    BY <1>1 DEF Total
  <2> HIDE DEF f
  <2>4. total = SumFunctionOnSet(f, DOMAIN rows)
    BY <2>1, <2>3, SumIsOnSet
  <2> QED
    BY <2>1, <2>2, <2>4, SumOfNaturals
<1>7. PICK new : new = [claims[c] EXCEPT !.deducted = total]
  OBVIOUS
<1>8. claims[c] \in Claim /\ claims[c].share \in Nat /\ ClaimStands(claims[c])
  BY <1>3, ClaimRows DEF Inv, ClaimsTyped
<1>9. /\ new \in Claim
      /\ new.share = claims[c].share /\ new.deducted = total
      /\ new.status = claims[c].status /\ new.settlement = claims[c].settlement
      /\ new.seal = claims[c].seal
  BY <1>6, <1>7, <1>8, ClaimDeducted
<1>10. claims' = [claims EXCEPT ![c] = new]
  BY <1>2, <1>3, <1>7
<1>11. /\ claims' \in Seq(Claim) /\ Len(claims') = Len(claims) /\ DOMAIN claims' = DOMAIN claims
       /\ \A b \in DOMAIN claims : claims'[b] = IF b = c THEN new ELSE claims[b]
  BY <1>3, <1>9, <1>10, RowSaved DEF Inv, ClaimsTyped
<1>12. ClaimsTyped'
  <2>1. ClaimStands(new)
    BY <1>4, <1>6, <1>8, <1>9 DEF ClaimStands, NetPayable, Frozen
  <2>2. ASSUME NEW b \in DOMAIN claims' PROVE ClaimStands(claims[b])'
    <3>1. PICK claim : claim = claims'[b]
      OBVIOUS
    <3>2. ClaimStands(claim)
      BY <1>11, <2>1, <3>1 DEF Inv, ClaimsTyped
    <3> QED
      BY <1>2, <3>1, <3>2 DEF ClaimStands, NetPayable, Frozen
  <2> QED
    BY <1>2, <1>5, <1>11, <2>2 DEF Inv, ClaimsTyped
<1>13. /\ deductions' \in [(1 .. MaxClaims) \X (1 .. MaxObligations) -> Nat]
       /\ \A b \in 1 .. MaxClaims, o \in 1 .. MaxObligations :
             deductions'[b, o] = IF b = c /\ o \in DOMAIN rows
                                 THEN deductions[b, o] + rows[o].portion ELSE deductions[b, o]
  <2>1. deductions \in [(1 .. MaxClaims) \X (1 .. MaxObligations) -> Nat]
    BY DEF Inv, DeductionsTyped
  <2>2. DOMAIN deductions = (1 .. MaxClaims) \X (1 .. MaxObligations)
    BY <2>1
  <2>3. ASSUME NEW d \in (1 .. MaxClaims) \X (1 .. MaxObligations)
        PROVE  (IF d[1] = c /\ d[2] \in DOMAIN rows
                THEN deductions[d] + rows[d[2]].portion ELSE deductions[d]) \in Nat
    BY <1>4, <2>1, <2>3
  <2>4. deductions' \in [(1 .. MaxClaims) \X (1 .. MaxObligations) -> Nat]
    BY <1>2, <2>2, <2>3
  <2>5. ASSUME NEW b \in 1 .. MaxClaims, NEW o \in 1 .. MaxObligations
        PROVE  deductions'[b, o] = IF b = c /\ o \in DOMAIN rows
                                   THEN deductions[b, o] + rows[o].portion ELSE deductions[b, o]
    <3>1. <<b, o>> \in DOMAIN deductions /\ <<b, o>>[1] = b /\ <<b, o>>[2] = o
      BY <2>2
    <3> QED
      BY <1>2, <3>1
  <2> QED
    BY <2>4, <2>5
<1>14. /\ obligations' \in Seq(Obligation) /\ Len(obligations') = Len(obligations)
       /\ DOMAIN obligations' = DOMAIN obligations
       /\ \A o \in DOMAIN obligations :
             /\ obligations'[o].amount = obligations[o].amount
             /\ obligations'[o].lectures = obligations[o].lectures
             /\ obligations'[o].recovered = IF o \in DOMAIN rows THEN rows[o].recovered
                                            ELSE obligations[o].recovered
  <2>1. ASSUME NEW o \in DOMAIN obligations
        PROVE  /\ obligations'[o] \in Obligation
               /\ obligations'[o].amount = obligations[o].amount
               /\ obligations'[o].lectures = obligations[o].lectures
               /\ obligations'[o].recovered = IF o \in DOMAIN rows THEN rows[o].recovered
                                              ELSE obligations[o].recovered
    <3>1. obligations[o] \in Obligation
      BY ObligationRows DEF Inv
    <3>2. CASE o \in DOMAIN rows
      <4>1. obligations'[o] = [obligations[o] EXCEPT !.recovered = rows[o].recovered]
        BY <1>2, <3>2
      <4>2. rows[o].recovered \in Nat
        BY <1>4, <3>2
      <4> QED
        BY <3>1, <3>2, <4>1, <4>2, ObligationRecovered
    <3>3. CASE o \notin DOMAIN rows
      <4>1. obligations'[o] = obligations[o]
        BY <1>2, <3>3
      <4> QED
        BY <3>1, <3>3, <4>1
    <3> QED
      BY <3>2, <3>3
  <2>2. DOMAIN obligations' = DOMAIN obligations /\ obligations' = [o \in DOMAIN obligations |-> obligations'[o]]
    BY <1>2
  <2>3. obligations' \in Seq(Obligation) /\ Len(obligations') = Len(obligations)
    BY <2>1, <2>2, RowsMapped DEF Inv, ObligationsTyped
  <2> QED
    BY <2>1, <2>2, <2>3
<1>15. ObligationsTyped'
  <2>1. ASSUME NEW o \in DOMAIN obligations' PROVE obligations'[o].recovered <= obligations'[o].amount
    BY <1>4, <1>14 DEF Inv, ObligationsTyped
  <2> QED
    BY <1>5, <1>14, <2>1 DEF ObligationsTyped
<1>16. DeductionsTyped'
  <2>1. ASSUME NEW b \in 1 .. MaxClaims, NEW o \in 1 .. MaxObligations,
               b \notin DOMAIN claims' \/ o \notin DOMAIN obligations'
        PROVE  deductions'[b, o] = 0
    <3>1. ~(b = c /\ o \in DOMAIN rows)
      BY <1>3, <1>4, <1>11, <1>14, <2>1
    <3>2. deductions'[b, o] = deductions[b, o]
      BY <1>13, <3>1
    <3>3. deductions[b, o] = 0
      BY <1>11, <1>14, <2>1 DEF Inv, DeductionsTyped
    <3> QED
      BY <3>2, <3>3
  <2> QED
    BY <1>13, <2>1 DEF DeductionsTyped
<1>17. SettlementsTyped' /\ AbsencesTyped'
  BY <1>2, <1>14 DEF Inv, SettlementsTyped, AbsencesTyped
<1>18. Moves(req[s])
  <2>1. Grown
    BY <1>2, <1>9, <1>11, <1>14 DEF Grown
  <2>2. ClaimsMove(req[s])
    BY <1>1, <1>2, <1>11 DEF ClaimsMove, ClaimSaves
  <2>3. ObligationsMove(req[s]) /\ SettlementsMove(req[s]) /\ AbsencesMove(req[s])
    BY <1>2 DEF ObligationsMove, SettlementsMove, AbsencesMove
  <2> QED
    BY <2>1, <2>2, <2>3 DEF Moves
<1>19. RequestsStand' /\ raced' = raced \cup req[s].overtaken /\ raced' \in SUBSET Races
  BY <1>2, <1>18, CommitKeeps DEF Inv
<1>20. "obligation" \in raced' \/ RecoveredHolds'
  <2> SUFFICES ASSUME "obligation" \notin raced' PROVE RecoveredHolds'
    OBVIOUS
  <2>1. RecoveredHolds /\ ObligationSeen(req[s])
    BY <1>3, <1>19 DEF Inv, UpToDate
  <2>2. \A o \in DOMAIN rows : rows[o].recovered = obligations[o].recovered + rows[o].portion
    BY <1>1, <1>2, <2>1 DEF ObligationSeen
  <2>3. ASSUME NEW o \in DOMAIN obligations PROVE obligations'[o].recovered = DeductedFor(o)'
    <3>1. PICK f : f = [b \in DOMAIN claims |-> deductions[b, o]]
      OBVIOUS
    <3>2. PICK g : g = [b \in DOMAIN claims' |-> deductions'[b, o]]
      OBVIOUS
    <3>3. DeductedFor(o) = SumFunctionOnSet(f, DOMAIN claims)
      BY <3>1, DeductedForIs
    <3>4. DeductedFor(o)' = SumFunctionOnSet(g, DOMAIN claims)
      BY <1>11, <3>2, DeductedForIsNext
    <3>5. \A b \in DOMAIN claims : b \in 1 .. MaxClaims /\ o \in 1 .. MaxObligations
      BY <1>5
    <3>6. ASSUME NEW b \in DOMAIN claims
          PROVE  /\ f[b] \in Int /\ g[b] \in Int
                 /\ b = c /\ o \in DOMAIN rows => g[b] = f[b] + rows[o].portion
                 /\ b # c \/ o \notin DOMAIN rows => g[b] = f[b]
      <4>1. PICK d \in Nat : d = deductions[b, o]
        BY <3>5 DEF Inv, DeductionsTyped
      <4>2. f[b] = d
        BY <3>1, <4>1
      <4>3. g[b] = IF b = c /\ o \in DOMAIN rows THEN d + rows[o].portion ELSE d
        BY <1>11, <1>13, <3>2, <3>5, <4>1
      <4> QED
        BY <1>4, <4>2, <4>3
    <3>7. obligations[o].recovered = SumFunctionOnSet(f, DOMAIN claims)
      BY <2>1, <3>3 DEF RecoveredHolds
    <3>8. CASE o \in DOMAIN rows
      <4>1. SumFunctionOnSet(g, DOMAIN claims) = SumFunctionOnSet(f, DOMAIN claims) + (g[c] - f[c])
        <5>1. \A x \in DOMAIN claims : f[x] \in Int /\ g[x] \in Int
          BY <3>6
        <5>2. \A x \in DOMAIN claims : x # c => g[x] = f[x]
          BY <3>6
        <5> QED
          <6>1. PICK S : S = DOMAIN claims
            OBVIOUS
          <6>2. IsFiniteSet(S) /\ c \in S
            BY <1>3, <1>5, <6>1
          <6> QED
            BY <5>1, <5>2, <6>1, <6>2, SumMoves
      <4>2. g[c] - f[c] = rows[o].portion
        BY <1>3, <1>4, <3>6, <3>8
      <4>3. obligations'[o].recovered = obligations[o].recovered + rows[o].portion
        BY <1>14, <2>2, <3>8
      <4> QED
        BY <3>4, <3>7, <4>1, <4>2, <4>3
    <3>9. CASE o \notin DOMAIN rows
      <4>1. \A x \in DOMAIN claims : f[x] \in Int /\ g[x] = f[x]
        BY <3>6, <3>9
      <4>2. SumFunctionOnSet(g, DOMAIN claims) = SumFunctionOnSet(f, DOMAIN claims)
        BY <1>5, <4>1, SumSame
      <4> QED
        BY <1>14, <3>4, <3>7, <3>9, <4>2
    <3> QED
      BY <3>8, <3>9
  <2> QED
    BY <1>14, <2>3 DEF RecoveredHolds
<1>21. raced' \cap {"settlement", "claim"} # {} \/ DueHolds'
  <2> SUFFICES ASSUME raced' \cap {"settlement", "claim"} = {} PROVE DueHolds'
    OBVIOUS
  <2>1. DueHolds /\ "claim" \notin req[s].overtaken
    BY <1>19 DEF Inv
  <2>2. ~Frozen(claims[c])
    BY <1>1, <1>2, <1>3, <2>1 DEF UpToDate, ClaimSeen, ClaimOps, ClaimSaves
  <2>3. claims[c].settlement = 0
    BY <1>8, <2>2 DEF ClaimStands
  <2>4. \A b \in DOMAIN claims :
           /\ claims'[b].settlement = claims[b].settlement
           /\ claims[b].settlement # 0 => NetPayable(claims'[b]) = NetPayable(claims[b])
    BY <1>9, <1>11, <2>3
  <2> QED
    BY <1>2, <1>11, <1>17, <2>1, <2>4, DueKept DEF Inv
<1>22. "absence" \in raced' \/ FinesHold'
  <2>1. ASSUME FinesHold PROVE FinesHold'
    BY <1>2, <1>14, <2>1 DEF FinesHold, FinedFor
  <2> QED
    BY <1>19, <2>1 DEF Inv
<1>23. UnknownIsUnfined'
  BY <1>2, <1>19 DEF Inv, UnknownIsUnfined
<1> QED
  BY <1>12, <1>15, <1>16, <1>17, <1>19, <1>20, <1>21, <1>22, <1>23 DEF Inv, Given

LEMMA WriteApproveKeeps ==
    ASSUME Inv, NEW s \in Sessions, WriteApprove(s)
    PROVE  Inv'
<1>1. PICK c, new : c = req[s].on /\ new = req[s].read
  OBVIOUS
<1>4. /\ req[s].op = "save_approval"
      /\ claims' = [claims EXCEPT ![c] = new]
      /\ Finish(s)
      /\ UNCHANGED <<collected, deductions, obligations, settlements, absences>>
  BY <1>1 DEF WriteApprove, Serving
<1>5. /\ Apt(req[s]) /\ UpToDate(req[s]) /\ c \in DOMAIN claims
  BY <1>1, <1>4, ServedIs DEF Apt, ClaimOps, ClaimSaves
<1>6. /\ DOMAIN claims = 1 .. Len(claims) /\ Len(claims) \in Nat /\ Len(claims) <= MaxClaims
      /\ MaxClaims \in Nat /\ MaxObligations \in Nat
      /\ claims[c] \in Claim /\ ClaimStands(claims[c])
  BY <1>5, ClaimRows DEF Inv, ClaimsTyped, Given, BoundsAssumption
<1>8. /\ new \in Claim /\ NetPayable(new) >= 0
      /\ new.share = claims[c].share /\ new.settlement = 0 /\ Frozen(new)
  BY <1>1, <1>4, <1>5 DEF Apt, Approved
<1>9. /\ claims' \in Seq(Claim) /\ Len(claims') = Len(claims) /\ DOMAIN claims' = DOMAIN claims
      /\ \A b \in DOMAIN claims : claims'[b] = IF b = c THEN new ELSE claims[b]
  BY <1>4, <1>5, <1>8, RowSaved DEF Inv, ClaimsTyped
<1>10. ClaimsTyped'
  <2>1. ClaimStands(new)
    BY <1>8 DEF ClaimStands
  <2>2. ASSUME NEW b \in DOMAIN claims' PROVE ClaimStands(claims[b])'
    <3>1. PICK claim : claim = claims'[b]
      OBVIOUS
    <3>2. ClaimStands(claim)
      BY <1>9, <2>1, <3>1 DEF Inv, ClaimsTyped
    <3> QED
      BY <1>4, <3>1, <3>2 DEF ClaimStands, NetPayable, Frozen
  <2> QED
    BY <1>4, <1>6, <1>9, <2>2 DEF Inv, ClaimsTyped
<1>11. DeductionsTyped'
  BY <1>4, <1>9 DEF Inv, DeductionsTyped
<1>12. ObligationsTyped' /\ SettlementsTyped' /\ AbsencesTyped'
  BY <1>4 DEF Inv, ObligationsTyped, SettlementsTyped, AbsencesTyped
<1>13. Moves(req[s])
  <2>1. Grown
    BY <1>4, <1>8, <1>9 DEF Grown
  <2>2. ClaimsMove(req[s])
    BY <1>1, <1>4, <1>9 DEF ClaimsMove, ClaimSaves
  <2>3. ObligationsMove(req[s]) /\ SettlementsMove(req[s]) /\ AbsencesMove(req[s])
    BY <1>4 DEF ObligationsMove, SettlementsMove, AbsencesMove
  <2> QED
    BY <2>1, <2>2, <2>3 DEF Moves
<1>14. RequestsStand' /\ raced' = raced \cup req[s].overtaken /\ raced' \in SUBSET Races
  BY <1>4, <1>13, CommitKeeps DEF Inv
<1>15. "obligation" \in raced' \/ RecoveredHolds'
  <2>1. ASSUME RecoveredHolds PROVE RecoveredHolds'
    BY <1>4, <1>9, <2>1 DEF RecoveredHolds, DeductedFor
  <2> QED
    BY <1>14, <2>1 DEF Inv
<1>16. raced' \cap {"settlement", "claim"} # {} \/ DueHolds'
  <2> SUFFICES ASSUME raced' \cap {"settlement", "claim"} = {} PROVE DueHolds'
    OBVIOUS
  <2>1. DueHolds /\ "claim" \notin req[s].overtaken
    BY <1>14 DEF Inv
  <2>2. ~Frozen(claims[c])
    BY <1>1, <1>4, <1>5, <2>1 DEF UpToDate, ClaimSeen, ClaimOps, ClaimSaves
  <2>3. claims[c].settlement = 0
    BY <1>6, <2>2 DEF ClaimStands
  <2>4. \A b \in DOMAIN claims :
           /\ claims'[b].settlement = claims[b].settlement
           /\ claims[b].settlement # 0 => NetPayable(claims'[b]) = NetPayable(claims[b])
    BY <1>8, <1>9, <2>3
  <2> QED
    BY <1>4, <1>9, <1>12, <2>1, <2>4, DueKept DEF Inv
<1>17. "absence" \in raced' \/ FinesHold'
  <2>1. ASSUME FinesHold PROVE FinesHold'
    BY <1>4, <2>1 DEF FinesHold, FinedFor
  <2> QED
    BY <1>14, <2>1 DEF Inv
<1>18. UnknownIsUnfined'
  BY <1>4, <1>14 DEF Inv, UnknownIsUnfined
<1> QED
  BY <1>10, <1>11, <1>12, <1>14, <1>15, <1>16, <1>17, <1>18 DEF Inv, Given

LEMMA WriteWaiveKeeps ==
    ASSUME Inv, NEW s \in Sessions, WriteWaive(s)
    PROVE  Inv'
<1>1. PICK x : x = req[s].with
  OBVIOUS
<1>2. /\ req[s].op = "waive" /\ Finish(s)
      /\ absences' = [absences EXCEPT ![x].state = "waived"]
      /\ UNCHANGED <<collected, claims, deductions, obligations, settlements>>
  BY <1>1 DEF WriteWaive, Serving, ledger
<1>3. x \in Absences /\ UpToDate(req[s])
  BY <1>1, <1>2, ServedIs DEF Apt
<1>4. /\ absences[x] \in Absence
      /\ absences' \in [Absences -> Absence]
      /\ absences'[x].state = "waived" /\ absences'[x].obligation = absences[x].obligation
      /\ \A y \in Absences : y # x => absences'[y] = absences[y]
  BY <1>2, <1>3 DEF Inv, AbsencesTyped, Absence
<1>5. \A y \in Absences : absences'[y].obligation = absences[y].obligation
  BY <1>4
<1>6. AbsencesTyped'
  BY <1>2, <1>4, <1>5 DEF Inv, AbsencesTyped
<1>7. ClaimsTyped' /\ DeductionsTyped' /\ ObligationsTyped' /\ SettlementsTyped'
  BY <1>2 DEF Inv, ClaimsTyped, ClaimStands, DeductionsTyped, ObligationsTyped, SettlementsTyped
<1>8. Moves(req[s])
  BY <1>2 DEF Moves, Grown, ClaimsMove, ObligationsMove, SettlementsMove, AbsencesMove, AbsenceOps
<1>9. RequestsStand' /\ raced' = raced \cup req[s].overtaken /\ raced' \in SUBSET Races
  BY <1>2, <1>8, CommitKeeps DEF Inv
<1>10. "obligation" \in raced' \/ RecoveredHolds'
  BY <1>2, <1>9 DEF Inv, RecoveredHolds, DeductedFor
<1>11. raced' \cap {"settlement", "claim"} # {} \/ DueHolds'
  BY <1>2, <1>9 DEF Inv, DueHolds, AttachedTo, Net
<1>12. \/ "absence" \in raced'
       \/ FinesHold' /\ \A y \in Absences : absences'[y].state = "unknown" => absences'[y].obligation = 0
  <2>1. ASSUME "absence" \notin raced'
        PROVE  FinesHold' /\ \A y \in Absences : absences'[y].state = "unknown" => absences'[y].obligation = 0
    <3>1. FinesHold /\ \A y \in Absences : absences[y].state = "unknown" => absences[y].obligation = 0
      BY <1>9, <2>1 DEF Inv, UnknownIsUnfined
    <3>2. absences[x].obligation = 0
      BY <1>1, <1>2, <1>3, <1>9, <2>1 DEF UpToDate, AbsenceSeen
    <3>3. \A y \in Absences : absences'[y].state \in {"unknown", "waived"} => absences'[y].obligation = 0
      BY <1>4, <3>1, <3>2 DEF FinesHold
    <3>4. \A o \in DOMAIN obligations' :
             obligations'[o].lectures = Cardinality({y \in Absences : absences'[y].obligation = o})
      <4>1. \A o : {y \in Absences : absences'[y].obligation = o} = FinedFor(o)
        BY <1>5 DEF FinedFor
      <4> QED
        BY <1>2, <3>1, <4>1 DEF FinesHold
    <3> QED
      BY <3>3, <3>4 DEF FinesHold, FinedFor
  <2> QED
    BY <2>1
<1>13. UnknownIsUnfined'
  BY <1>12 DEF UnknownIsUnfined
<1> QED
  BY <1>6, <1>7, <1>9, <1>10, <1>11, <1>12, <1>13 DEF Inv, Given

LEMMA WritePenaltyKeeps ==
    ASSUME Inv, NEW s \in Sessions, WritePenalty(s)
    PROVE  Inv'
<1> DEFINE n == Len(obligations) + 1
<1>1. PICK fined, a : fined = req[s].read /\ a = req[s].with
  OBVIOUS
<1>2. /\ req[s].op = "penalise" /\ Owe(a, Cardinality(fined), Cardinality(fined)) /\ Finish(s)
      /\ absences' = [x \in Absences |->
                         IF x \in fined THEN [absences[x] EXCEPT !.obligation = Len(obligations')]
                         ELSE absences[x]]
      /\ UNCHANGED <<collected, claims, deductions, settlements>>
  BY <1>1 DEF WritePenalty, Serving
<1>3. a \in Agreements /\ fined \in (SUBSET Absences) \ {{}} /\ UpToDate(req[s])
  BY <1>1, <1>2, ServedIs DEF Apt
<1>4. Cardinality(fined) \in Nat \ {0}
  <2>1. IsFiniteSet(fined) /\ fined # {}
    BY <1>3, FS_Subset DEF Inv, Given, AbsencesAssumption
  <2> QED
    BY <2>1, FS_CardinalityType, FS_EmptySet
<1>5. /\ ObligationsTyped' /\ DeductionsTyped'
      /\ Len(obligations) \in Nat /\ Len(obligations') = n
      /\ DOMAIN obligations = 1 .. Len(obligations)
      /\ DOMAIN obligations' = DOMAIN obligations \cup {n}
      /\ n \notin DOMAIN obligations
      /\ \A o \in DOMAIN obligations : obligations'[o] = obligations[o]
      /\ obligations'[n].recovered = 0 /\ obligations'[n].lectures = Cardinality(fined)
  BY <1>2, <1>3, <1>4, OweIs DEF Inv
<1>6. ASSUME NEW x \in Absences
      PROVE  /\ absences'[x] \in Absence /\ absences'[x].state = absences[x].state
             /\ absences'[x].obligation = IF x \in fined THEN n ELSE absences[x].obligation
  <2>1. absences[x] \in Absence
    BY DEF Inv, AbsencesTyped
  <2>2. CASE x \in fined
    <3>1. absences'[x] = [absences[x] EXCEPT !.obligation = n]
      BY <1>2, <1>5, <2>2
    <3>2. n \in Nat
      BY <1>5
    <3> HIDE DEF n
    <3> QED
      BY <2>1, <2>2, <3>1, <3>2 DEF Absence
  <2>3. CASE x \notin fined
    <3>1. absences'[x] = absences[x]
      BY <1>2, <2>3
    <3> QED
      BY <2>1, <2>3, <3>1
  <2> QED
    BY <2>2, <2>3
<1>7. AbsencesTyped'
  <2>1. absences' \in [Absences -> Absence]
    BY <1>2, <1>6
  <2>2. \A x \in Absences : absences'[x].obligation \in DOMAIN obligations' \cup {0}
    BY <1>5, <1>6 DEF Inv, AbsencesTyped
  <2> QED
    BY <2>1, <2>2 DEF AbsencesTyped
<1>8. ClaimsTyped' /\ SettlementsTyped'
  BY <1>2 DEF Inv, ClaimsTyped, ClaimStands, SettlementsTyped
<1>9. Moves(req[s])
  BY <1>2, <1>5 DEF Moves, Grown, ClaimsMove, ObligationsMove, SettlementsMove, AbsencesMove, AbsenceOps
<1>10. RequestsStand' /\ raced' = raced \cup req[s].overtaken /\ raced' \in SUBSET Races
  BY <1>2, <1>9, CommitKeeps DEF Inv
<1>11. "obligation" \in raced' \/ RecoveredHolds'
  <2>1. ASSUME RecoveredHolds PROVE RecoveredHolds'
    BY <1>2, <1>5, <1>8, <2>1, RecoveredKept DEF Inv
  <2> QED
    BY <1>10, <2>1 DEF Inv
<1>12. raced' \cap {"settlement", "claim"} # {} \/ DueHolds'
  BY <1>2, <1>10 DEF Inv, DueHolds, AttachedTo, Net
<1>13. \/ "absence" \in raced'
       \/ FinesHold' /\ \A x \in Absences : absences'[x].state = "unknown" => absences'[x].obligation = 0
  <2>1. ASSUME "absence" \notin raced'
        PROVE  FinesHold' /\ \A x \in Absences : absences'[x].state = "unknown" => absences'[x].obligation = 0
    <3>1. FinesHold /\ \A x \in Absences : absences[x].state = "unknown" => absences[x].obligation = 0
      BY <1>10, <2>1 DEF Inv, UnknownIsUnfined
    <3>2. \A x \in fined : absences[x].state = "counted" /\ absences[x].obligation = 0
      <4>1. fined \subseteq Penalisable
        BY <1>1, <1>2, <1>3, <1>10, <2>1 DEF UpToDate, AbsenceSeen
      <4>2. \A x \in Penalisable : absences[x] = [state |-> "counted", obligation |-> 0]
        BY DEF Penalisable
      <4> QED
        BY <4>1, <4>2
    <3>3. \A x \in Absences : absences'[x].state \in {"unknown", "waived"} => absences'[x].obligation = 0
      BY <1>6, <3>1, <3>2 DEF FinesHold
    <3>4. ASSUME NEW o \in DOMAIN obligations'
          PROVE  obligations'[o].lectures = Cardinality({x \in Absences : absences'[x].obligation = o})
      <4>1. CASE o \in DOMAIN obligations
        <5>1. o # 0 /\ o # n
          BY <1>5, <4>1
        <5>2. {x \in Absences : absences'[x].obligation = o} = FinedFor(o)
          BY <1>3, <1>6, <3>2, <5>1 DEF FinedFor
        <5> QED
          BY <1>5, <3>1, <4>1, <5>2 DEF FinesHold
      <4>2. CASE o = n
        <5>1. \A x \in Absences : absences[x].obligation # n
          BY <1>5 DEF Inv, AbsencesTyped
        <5>2. {x \in Absences : absences'[x].obligation = n} = fined
          BY <1>3, <1>6, <5>1
        <5> QED
          BY <1>5, <4>2, <5>2
      <4> QED
        BY <1>5, <4>1, <4>2
    <3> QED
      BY <3>3, <3>4 DEF FinesHold, FinedFor
  <2> QED
    BY <2>1
<1>14. UnknownIsUnfined'
  BY <1>13 DEF UnknownIsUnfined
<1> QED
  BY <1>5, <1>7, <1>8, <1>10, <1>11, <1>12, <1>13, <1>14 DEF Inv, Given

(***************************************************************************)
(* Commits that touch settlements, and claims only by attaching them.      *)
(***************************************************************************)
LEMMA SettlementWritten ==
    ASSUME NEW row \in Settlement, NEW n \in Int, NEW m \in Nat, NEW new
    PROVE  /\ new = [row EXCEPT !.due = n]
              => new \in Settlement /\ new.due = n /\ new.paid = row.paid /\ new.status = row.status
           /\ new = [row EXCEPT !.paid = m]
              => new \in Settlement /\ new.due = row.due /\ new.paid = m /\ new.status = row.status
           /\ new = [row EXCEPT !.status = "SIGNED"]
              => new \in Settlement /\ new.due = row.due /\ new.paid = row.paid /\ new.status = "SIGNED"
<1> DEFINE months == 1 .. Months
           statuses == {"OPEN", "SIGNED"}
<1>1. Settlement = [agreement : Agreements, from : months, due : Int, paid : Nat, status : statuses]
  BY DEF Settlement
<1>2. "SIGNED" \in statuses
  OBVIOUS
<1> HIDE DEF months, statuses
<1> QED
  BY <1>1, <1>2

(***************************************************************************)
(* One row rewritten, with what is due left as it was.                     *)
(***************************************************************************)
LEMMA RowWrittenKeeps ==
    ASSUME Inv, NEW s \in Sessions, req[s].op \in {"pay", "sign"}, Finish(s),
           NEW k, k = req[s].on, NEW new \in Settlement, new.due = settlements[k].due,
           settlements' = [settlements EXCEPT ![k] = new],
           UNCHANGED <<collected, claims, deductions, obligations, absences>>
    PROVE  Inv'
<1>1. k \in DOMAIN settlements
  BY ServedIs DEF Apt, SettlementOps
<1>2. /\ settlements' \in Seq(Settlement) /\ DOMAIN settlements' = DOMAIN settlements
      /\ \A j \in DOMAIN settlements : settlements'[j] = IF j = k THEN new ELSE settlements[j]
  BY <1>1, RowSaved DEF Inv, SettlementsTyped
<1>3. ClaimsTyped' /\ DeductionsTyped' /\ ObligationsTyped' /\ SettlementsTyped' /\ AbsencesTyped'
  BY <1>2 DEF Inv, ClaimsTyped, ClaimStands, DeductionsTyped, ObligationsTyped, SettlementsTyped,
              AbsencesTyped
<1>4. Moves(req[s])
  BY <1>2 DEF Moves, Grown, ClaimsMove, ObligationsMove, SettlementsMove, AbsencesMove, SettlementOps
<1>5. RequestsStand' /\ raced' = raced \cup req[s].overtaken /\ raced' \in SUBSET Races
  BY <1>4, CommitKeeps DEF Inv
<1>6. "obligation" \in raced' \/ RecoveredHolds'
  BY <1>5 DEF Inv, RecoveredHolds, DeductedFor
<1>7. raced' \cap {"settlement", "claim"} # {} \/ DueHolds'
  <2>1. ASSUME DueHolds PROVE DueHolds'
    BY <1>2, <1>3, <2>1, DueKept DEF Inv
  <2> QED
    BY <1>5, <2>1 DEF Inv
<1>8. "absence" \in raced' \/ FinesHold'
  BY <1>5 DEF Inv, FinesHold, FinedFor
<1>9. UnknownIsUnfined'
  BY <1>5 DEF Inv, UnknownIsUnfined
<1> QED
  BY <1>3, <1>5, <1>6, <1>7, <1>8, <1>9 DEF Inv, Given

LEMMA WritePaymentKeeps ==
    ASSUME Inv, NEW s \in Sessions, WritePayment(s)
    PROVE  Inv'
<1>1. PICK k, read, paid : k = req[s].on /\ read = req[s].read /\ paid = read.paid + req[s].with
  OBVIOUS
<1>2. PICK new : new = [settlements[k] EXCEPT !.paid = paid]
  OBVIOUS
<1>3. /\ req[s].op = "pay" /\ Finish(s)
      /\ settlements' = [settlements EXCEPT ![k] = new]
      /\ UNCHANGED <<collected, claims, deductions, obligations, absences>>
  BY <1>1, <1>2 DEF WritePayment, Serving, ledger
<1>4. k \in DOMAIN settlements /\ read \in Settlement /\ req[s].with \in Nat
  BY <1>1, <1>3, ServedIs DEF Apt, SettlementOps
<1>5. paid \in Nat
  BY <1>1, <1>4 DEF Settlement
<1>6. settlements[k] \in Settlement
  BY <1>4, SettlementRows DEF Inv
<1>7. new \in Settlement /\ new.due = settlements[k].due
  BY <1>2, <1>5, <1>6, SettlementWritten
<1> QED
  BY <1>1, <1>3, <1>7, RowWrittenKeeps

LEMMA WriteSignKeeps ==
    ASSUME Inv, NEW s \in Sessions, WriteSign(s)
    PROVE  Inv'
<1>1. PICK k : k = req[s].on
  OBVIOUS
<1>2. PICK new : new = [settlements[k] EXCEPT !.status = "SIGNED"]
  OBVIOUS
<1>3. req[s].op = "sign" /\ Finish(s) /\ UNCHANGED <<collected, claims, deductions, obligations, absences>>
  BY DEF WriteSign, Serving, ledger
<1>4. k \in DOMAIN settlements
  BY <1>1, <1>3, ServedIs DEF Apt, SettlementOps
<1>5. settlements' = [settlements EXCEPT ![k] = new]
  BY <1>1, <1>2, <1>4 DEF WriteSign
<1>6. settlements[k] \in Settlement
  BY <1>4, SettlementRows DEF Inv
<1>7. new \in Settlement /\ new.due = settlements[k].due
  BY <1>2, <1>6, SettlementWritten
<1> QED
  BY <1>1, <1>3, <1>5, <1>7, RowWrittenKeeps

LEMMA WriteOpenKeeps ==
    ASSUME Inv, NEW s \in Sessions, WriteOpen(s)
    PROVE  Inv'
<1> DEFINE n == Len(settlements) + 1
<1>1. PICK new : new = [agreement |-> req[s].read, from |-> req[s].with,
                        due |-> 0, paid |-> 0, status |-> "OPEN"]
  OBVIOUS
<1>2. /\ req[s].op = "open" /\ Finish(s) /\ settlements' = Append(settlements, new)
      /\ UNCHANGED <<collected, claims, deductions, obligations, absences>>
  BY <1>1 DEF WriteOpen, Serving, ledger
<1>3. new \in Settlement /\ new.due = 0
  <2>1. req[s].read \in Agreements /\ req[s].with \in 1 .. Months
    BY <1>2, ServedIs DEF Apt
  <2> QED
    BY <1>1, <2>1 DEF Settlement
<1>4. /\ settlements' \in Seq(Settlement)
      /\ DOMAIN settlements' = DOMAIN settlements \cup {n} /\ n \notin DOMAIN settlements
      /\ \A k \in DOMAIN settlements : settlements'[k] = settlements[k]
      /\ settlements'[n] = new
  BY <1>2, <1>3, RowAdded DEF Inv, SettlementsTyped
<1>5. DeductionsTyped' /\ ObligationsTyped' /\ SettlementsTyped' /\ AbsencesTyped'
  BY <1>2, <1>4 DEF Inv, DeductionsTyped, ObligationsTyped, SettlementsTyped, AbsencesTyped
<1>6. ClaimsTyped'
  <2>1. ASSUME NEW c \in DOMAIN claims' PROVE ClaimStands(claims[c])'
    BY <1>2, <1>4 DEF Inv, ClaimsTyped, ClaimStands, NetPayable, Frozen
  <2> QED
    BY <1>2, <2>1 DEF Inv, ClaimsTyped
<1>7. Moves(req[s])
  BY <1>2, <1>4 DEF Moves, Grown, ClaimsMove, ObligationsMove, SettlementsMove, AbsencesMove
<1>8. RequestsStand' /\ raced' = raced \cup req[s].overtaken /\ raced' \in SUBSET Races
  BY <1>2, <1>7, CommitKeeps DEF Inv
<1>9. "obligation" \in raced' \/ RecoveredHolds'
  BY <1>2, <1>8 DEF Inv, RecoveredHolds, DeductedFor
<1>10. raced' \cap {"settlement", "claim"} # {} \/ DueHolds'
  <2>1. ASSUME DueHolds PROVE DueHolds'
    BY <1>2, <1>3, <1>4, <1>5, <2>1, DueKept DEF Inv
  <2> QED
    BY <1>8, <2>1 DEF Inv
<1>11. "absence" \in raced' \/ FinesHold'
  BY <1>2, <1>8 DEF Inv, FinesHold, FinedFor
<1>12. UnknownIsUnfined'
  BY <1>2, <1>8 DEF Inv, UnknownIsUnfined
<1> QED
  BY <1>5, <1>6, <1>8, <1>9, <1>10, <1>11, <1>12 DEF Inv, Given

LEMMA WriteAttachKeeps ==
    ASSUME Inv, NEW s \in Sessions, WriteAttach(s)
    PROVE  Inv'
<1>1. PICK k, read, more : k = req[s].on /\ read = req[s].read /\ more = Attachable(k)
  OBVIOUS
<1>2. PICK due : due = read.due + SumFunctionOnSet(Net, more)
  OBVIOUS
<1>3. PICK new : new = [settlements[k] EXCEPT !.due = due]
  OBVIOUS
<1>4. /\ req[s].op = "attach" /\ Finish(s)
      /\ settlements' = [settlements EXCEPT ![k] = new]
      /\ claims' = [c \in DOMAIN claims |->
                       IF c \in more THEN [claims[c] EXCEPT !.settlement = k] ELSE claims[c]]
      /\ UNCHANGED <<collected, deductions, obligations, absences>>
  BY <1>1, <1>2, <1>3 DEF WriteAttach, Serving
<1>5. k \in DOMAIN settlements /\ k \in Nat \ {0} /\ read \in Settlement /\ UpToDate(req[s])
  <2>1. k \in DOMAIN settlements /\ read \in Settlement /\ UpToDate(req[s])
    BY <1>1, <1>4, ServedIs DEF Apt, SettlementOps
  <2> QED
    BY <2>1, SettlementRows DEF Inv
<1>6. /\ more \in SUBSET DOMAIN claims /\ IsFiniteSet(more)
      /\ \A c \in more : Frozen(claims[c]) /\ claims[c].settlement = 0
  <2>1. more \in SUBSET DOMAIN claims /\ \A c \in more : Frozen(claims[c]) /\ claims[c].settlement = 0
    BY <1>1 DEF Attachable
  <2> QED
    BY <2>1, ClaimsFinite, FS_Subset DEF Inv
<1>7. \A c \in DOMAIN claims : Net[c] \in Int /\ Net[c] = NetPayable(claims[c])
  BY ClaimRows DEF Inv, Net
<1>8. due \in Int /\ SumFunctionOnSet(Net, more) \in Int
  <2>1. SumFunctionOnSet(Net, more) \in Int
    BY <1>6, <1>7, SumTyped
  <2>2. read.due \in Int
    BY <1>5 DEF Settlement
  <2> QED
    BY <1>2, <2>1, <2>2
<1>9. new \in Settlement /\ new.due = due
  <2>1. settlements[k] \in Settlement
    BY <1>5, SettlementRows DEF Inv
  <2>2. 0 \in Nat
    OBVIOUS
  <2> QED
    BY <1>3, <1>8, <2>1, <2>2, SettlementWritten
<1>10. /\ settlements' \in Seq(Settlement) /\ DOMAIN settlements' = DOMAIN settlements
       /\ \A j \in DOMAIN settlements : settlements'[j] = IF j = k THEN new ELSE settlements[j]
  BY <1>4, <1>5, <1>9, RowSaved DEF Inv, SettlementsTyped
<1>11. ASSUME NEW c \in DOMAIN claims
       PROVE  /\ claims'[c] \in Claim
              /\ claims'[c].share = claims[c].share /\ claims'[c].deducted = claims[c].deducted
              /\ claims'[c].status = claims[c].status /\ claims'[c].seal = claims[c].seal
              /\ claims'[c].settlement = IF c \in more THEN k ELSE claims[c].settlement
              /\ c \notin more => claims'[c] = claims[c]
  <2>1. claims[c] \in Claim
    BY ClaimRows DEF Inv
  <2>2. CASE c \in more
    <3>1. claims'[c] = [claims[c] EXCEPT !.settlement = k]
      BY <1>4, <2>2
    <3> QED
      BY <1>5, <2>1, <2>2, <3>1, ClaimAttached
  <2>3. CASE c \notin more
    <3>1. claims'[c] = claims[c]
      BY <1>4, <2>3
    <3> QED
      BY <2>1, <2>3, <3>1
  <2> QED
    BY <2>2, <2>3
<1>12. claims' \in Seq(Claim) /\ Len(claims') = Len(claims) /\ DOMAIN claims' = DOMAIN claims
  <2>1. DOMAIN claims' = DOMAIN claims /\ claims' = [c \in DOMAIN claims |-> claims'[c]]
    BY <1>4
  <2>2. claims' \in Seq(Claim) /\ Len(claims') = Len(claims)
    BY <1>11, <2>1, RowsMapped DEF Inv, ClaimsTyped
  <2> QED
    BY <2>1, <2>2
<1>13. ClaimsTyped'
  <2>1. ASSUME NEW c \in DOMAIN claims PROVE ClaimStands(claims[c])'
    <3>1. ClaimStands(claims[c])
      BY DEF Inv, ClaimsTyped
    <3> QED
      BY <1>5, <1>6, <1>10, <1>11, <3>1 DEF ClaimStands, NetPayable, Frozen
  <2>2. Len(claims') <= MaxClaims
    BY <1>12 DEF Inv, ClaimsTyped
  <2>3. collected' \in [Agreements -> Nat]
    BY <1>4 DEF Inv, ClaimsTyped
  <2> QED
    BY <1>12, <2>1, <2>2, <2>3 DEF ClaimsTyped
<1>14. DeductionsTyped' /\ ObligationsTyped' /\ SettlementsTyped' /\ AbsencesTyped'
  BY <1>4, <1>10, <1>12 DEF Inv, DeductionsTyped, ObligationsTyped, SettlementsTyped, AbsencesTyped
<1>15. Moves(req[s])
  <2>1. Grown
    BY <1>4, <1>10, <1>11, <1>12 DEF Grown
  <2>2. ClaimsMove(req[s])
    BY <1>6, <1>11 DEF ClaimsMove, Frozen
  <2>3. ObligationsMove(req[s]) /\ SettlementsMove(req[s]) /\ AbsencesMove(req[s])
    BY <1>1, <1>4, <1>10 DEF ObligationsMove, SettlementsMove, AbsencesMove, SettlementOps
  <2> QED
    BY <2>1, <2>2, <2>3 DEF Moves
<1>16. RequestsStand' /\ raced' = raced \cup req[s].overtaken /\ raced' \in SUBSET Races
  BY <1>4, <1>15, CommitKeeps DEF Inv
<1>17. "obligation" \in raced' \/ RecoveredHolds'
  <2>1. ASSUME RecoveredHolds PROVE RecoveredHolds'
    BY <1>4, <1>12, <2>1 DEF RecoveredHolds, DeductedFor
  <2> QED
    BY <1>16, <2>1 DEF Inv
<1>18. raced' \cap {"settlement", "claim"} # {} \/ DueHolds'
  <2> SUFFICES ASSUME raced' \cap {"settlement", "claim"} = {} PROVE DueHolds'
    OBVIOUS
  <2>1. DueHolds /\ "settlement" \notin req[s].overtaken
    BY <1>16 DEF Inv
  <2>2. read.due = settlements[k].due
    BY <1>1, <1>4, <1>5, <2>1 DEF UpToDate, SettlementSeen
  <2>3. PICK net : net = Net'
    OBVIOUS
  <2>4. \A c \in DOMAIN claims : Net[c] \in Int /\ net[c] = Net[c]
    <3>1. ASSUME NEW c \in DOMAIN claims PROVE net[c] = Net[c]
      <4>1. net[c] = NetPayable(claims'[c])
        BY <1>12, <2>3 DEF Net, NetPayable
      <4>2. NetPayable(claims'[c]) = NetPayable(claims[c])
        BY <1>11 DEF NetPayable
      <4> QED
        BY <1>7, <4>1, <4>2
    <3> QED
      BY <1>7, <3>1
  <2>5. ASSUME NEW j \in DOMAIN settlements
        PROVE  settlements'[j].due = SumFunctionOnSet(Net', {c \in DOMAIN claims' : claims'[c].settlement = j})
    <3>1. j # 0
      BY SettlementRows DEF Inv
    <3>2. PICK to : to = {c \in DOMAIN claims' : claims'[c].settlement = j}
      OBVIOUS
    <3>3. settlements[j].due = SumFunctionOnSet(Net, AttachedTo(j)) /\ IsFiniteSet(AttachedTo(j))
      BY <2>1, ClaimsFinite DEF Inv, DueHolds
    <3>4. AttachedTo(j) \in SUBSET DOMAIN claims
      BY DEF AttachedTo
    <3>5. CASE j # k
      <4>1. to = AttachedTo(j)
        BY <1>6, <1>11, <1>12, <3>1, <3>2, <3>5 DEF AttachedTo
      <4>2. SumFunctionOnSet(net, to) = SumFunctionOnSet(Net, AttachedTo(j))
        BY <2>4, <3>3, <3>4, <4>1, SumSame
      <4>3. settlements'[j].due = settlements[j].due
        BY <1>10, <3>5
      <4> QED
        BY <2>3, <3>2, <3>3, <4>2, <4>3
    <3>6. CASE j = k
      <4>1. to = AttachedTo(k) \cup more
        BY <1>6, <1>11, <1>12, <3>2, <3>6 DEF AttachedTo
      <4>2. AttachedTo(k) \cap more = {}
        BY <1>5, <1>6 DEF AttachedTo
      <4>3. to \in SUBSET DOMAIN claims /\ IsFiniteSet(to)
        BY <1>6, <3>3, <3>4, <3>6, <4>1, FS_Union
      <4>4. SumFunctionOnSet(net, to) = SumFunctionOnSet(Net, to)
        BY <2>4, <4>3, SumSame
      <4>5. SumFunctionOnSet(Net, to) = SumFunctionOnSet(Net, AttachedTo(k)) + SumFunctionOnSet(Net, more)
        BY <1>6, <1>7, <3>3, <3>4, <3>6, <4>1, <4>2, SumTogether
      <4>6. settlements'[j].due = due
        BY <1>9, <1>10, <3>6
      <4> QED
        BY <1>2, <2>2, <2>3, <3>2, <3>3, <3>6, <4>4, <4>5, <4>6
    <3> QED
      BY <3>5, <3>6
  <2> QED
    BY <1>10, <2>5 DEF DueHolds, AttachedTo
<1>19. "absence" \in raced' \/ FinesHold'
  BY <1>4, <1>16 DEF Inv, FinesHold, FinedFor
<1>20. UnknownIsUnfined'
  BY <1>4, <1>16 DEF Inv, UnknownIsUnfined
<1> QED
  BY <1>13, <1>14, <1>16, <1>17, <1>18, <1>19, <1>20 DEF Inv, Given

-----------------------------------------------------------------------------
(* The specification. *)

LEMMA InitHolds ==
    ASSUME Given, Init
    PROVE  Inv
<1>1. claims = <<>> /\ obligations = <<>> /\ settlements = <<>> /\ raced = {}
  BY DEF Init
<1>2. /\ <<>> \in Seq(Claim) /\ <<>> \in Seq(Obligation) /\ <<>> \in Seq(Settlement)
      /\ Len(<<>>) = 0 /\ DOMAIN <<>> = {}
  BY EmptySeq
<1>3. ClaimsTyped
  BY <1>1, <1>2 DEF Init, ClaimsTyped, Given, BoundsAssumption
<1>4. DeductionsTyped
  <2>1. \A c \in 1 .. MaxClaims, o \in 1 .. MaxObligations :
           <<c, o>> \in (1 .. MaxClaims) \X (1 .. MaxObligations)
    OBVIOUS
  <2> QED
    BY <2>1 DEF Init, DeductionsTyped
<1>5. ObligationsTyped /\ SettlementsTyped
  BY <1>1, <1>2 DEF ObligationsTyped, SettlementsTyped, Given, BoundsAssumption
<1>6. AbsencesTyped
  BY DEF Init, AbsencesTyped, Absence
<1>7. RequestsStand
  <2>1. \A s \in Sessions : req[s] = Idle
    BY DEF Init
  <2>2. req = [s \in Sessions |-> req[s]]
    BY DEF Init
  <2>3. Idle.op = "idle" /\ Idle.overtaken = {} /\ Formed(Idle) /\ Apt(Idle) /\ UpToDate(Idle)
    BY IdleIs, IdleIsApt
  <2>4. ASSUME NEW s \in Sessions
        PROVE  /\ req[s].op \in {"idle"} \cup ClaimOps \cup SettlementOps \cup AbsenceOps
               /\ req[s].overtaken \in SUBSET Races
               /\ Formed(req[s]) /\ Apt(req[s]) /\ UpToDate(req[s])
    <3>1. PICK q : q = req[s]
      OBVIOUS
    <3>2. q = Idle
      BY <2>1, <3>1
    <3>3. q.op = "idle" /\ q.overtaken = {} /\ Formed(q) /\ Apt(q) /\ UpToDate(q)
      BY <2>3, <3>2
    <3> QED
      BY <3>1, <3>3
  <2> QED
    BY <2>2, <2>4 DEF RequestsStand
<1>8. RecoveredHolds /\ DueHolds
  BY <1>1, <1>2 DEF RecoveredHolds, DueHolds
<1>9. FinesHold
  BY <1>1, <1>2 DEF Init, FinesHold
<1>10. UnknownIsUnfined
  BY DEF Init, UnknownIsUnfined
<1> QED
  BY <1>1, <1>3, <1>4, <1>5, <1>6, <1>7, <1>8, <1>9, <1>10 DEF Inv

LEMMA ClaimDetailKeeps ==
    ASSUME Inv, NEW s \in Sessions, ClaimDetailView(s)
    PROVE  Inv'
<1>1. CASE \E c \in DOMAIN claims : ReadOffsets(s, c) \/ ReadApprove(s, c)
  BY <1>1, ReadOffsetsKeeps, ReadApproveKeeps
<1>2. CASE SpreadOffsets(s)
  BY <1>2, SpreadOffsetsKeeps
<1>3. CASE WriteOffsets(s)
  BY <1>3, WriteOffsetsKeeps
<1>4. CASE WriteApprove(s)
  BY <1>4, WriteApproveKeeps
<1>5. CASE SaveOffsets(s) \/ SaveApproval(s)
  BY <1>5, SaveOffsetsKeeps, SaveApprovalKeeps
<1> QED
  BY <1>1, <1>2, <1>3, <1>4, <1>5 DEF ClaimDetailView

LEMMA AbsencesKeep ==
    ASSUME Inv, NEW s \in Sessions, AbsencesView(s)
    PROVE  Inv'
<1>1. CASE \E x \in Absences : ReadWaive(s, x)
  BY <1>1, ReadWaiveKeeps
<1>2. CASE WriteWaive(s)
  BY <1>2, WriteWaiveKeeps
<1>3. CASE \E a \in Agreements : ReadPenalty(s, a)
  BY <1>3, ReadPenaltyKeeps
<1>4. CASE WritePenalty(s)
  BY <1>4, WritePenaltyKeeps
<1> QED
  BY <1>1, <1>2, <1>3, <1>4 DEF AbsencesView

LEMMA SettlementsKeep ==
    ASSUME Inv, NEW s \in Sessions, SettlementsView(s)
    PROVE  Inv'
<1>1. CASE \E a \in Agreements, from \in 1 .. Months : ReadOpen(s, a, from)
  BY <1>1, ReadOpenKeeps
<1>2. CASE WriteOpen(s)
  BY <1>2, WriteOpenKeeps
<1> QED
  BY <1>1, <1>2 DEF SettlementsView

LEMMA SettlementDetailKeeps ==
    ASSUME Inv, NEW s \in Sessions, HandleSettlementDetail(s)
    PROVE  Inv'
<1>1. ASSUME NEW k \in DOMAIN settlements, ReadSettlement(s, "attach", k, 0) PROVE Inv'
  BY <1>1, ReadSettlementKeeps
<1>2. ASSUME NEW k \in DOMAIN settlements, NEW amount \in Shares, ReadPayment(s, k, amount) PROVE Inv'
  <2>1. amount \in Nat
    BY DEF Inv, Given, AmountsAssumption
  <2>2. ReadSettlement(s, "pay", k, amount)
    BY <1>2 DEF ReadPayment
  <2> QED
    BY <2>1, <2>2, ReadSettlementKeeps
<1>3. ASSUME NEW k \in DOMAIN settlements, ReadSign(s, k) PROVE Inv'
  BY <1>3, ReadSignKeeps
<1>4. CASE WriteAttach(s)
  BY <1>4, WriteAttachKeeps
<1>5. CASE WritePayment(s)
  BY <1>5, WritePaymentKeeps
<1>6. CASE WriteSign(s)
  BY <1>6, WriteSignKeeps
<1> QED
  BY <1>1, <1>2, <1>3, <1>4, <1>5, <1>6 DEF HandleSettlementDetail

LEMMA StutterKeeps ==
    ASSUME Inv, UNCHANGED vars
    PROVE  Inv'
<1>1. UNCHANGED <<collected, claims, deductions, obligations, settlements, absences, raced>> /\ req' = req
  BY DEF vars, ledger
<1>2. Quiet /\ Moves(Idle)
  BY <1>1 DEF Quiet, Moves, Grown, ClaimsMove, ObligationsMove, SettlementsMove, AbsencesMove
<1>3. RequestsStand'
  BY <1>2, QuietKeeps DEF Inv
<1>4. ClaimsTyped' /\ DeductionsTyped' /\ ObligationsTyped' /\ SettlementsTyped' /\ AbsencesTyped'
  BY <1>1 DEF Inv, ClaimsTyped, ClaimStands, DeductionsTyped, ObligationsTyped, SettlementsTyped,
              AbsencesTyped
<1>5. "obligation" \in raced' \/ RecoveredHolds'
  BY <1>1 DEF Inv, RecoveredHolds, DeductedFor
<1>6. "absence" \in raced' \/ FinesHold'
  BY <1>1 DEF Inv, FinesHold, FinedFor
<1>7. raced' \cap {"settlement", "claim"} # {} \/ DueHolds'
  BY <1>1 DEF Inv, DueHolds, AttachedTo, Net
<1>8. UnknownIsUnfined'
  BY <1>1 DEF Inv, UnknownIsUnfined
<1> QED
  BY <1>1, <1>3, <1>4, <1>5, <1>6, <1>7, <1>8 DEF Inv, Given

LEMMA NextKeeps ==
    ASSUME Inv, [Next]_vars
    PROVE  Inv'
<1>1. CASE HandleClaimList
  BY <1>1, BuildClaimKeeps DEF HandleClaimList
<1>2. CASE ObligationsView
  BY <1>2, RecordObligationKeeps DEF ObligationsView
<1>3. CASE RefundRecovery
  BY <1>3, RecordRefundRecoveryKeeps DEF RefundRecovery
<1>4. CASE RecordAbsenceForm
  BY <1>4, RecordAbsenceKeeps DEF RecordAbsenceForm
<1>5. CASE \E s \in Sessions : \/ ClaimDetailView(s) \/ AbsencesView(s) \/ SettlementsView(s)
                               \/ HandleSettlementDetail(s) \/ Rollback(s)
  BY <1>5, ClaimDetailKeeps, AbsencesKeep, SettlementsKeep, SettlementDetailKeeps, RollbackKeeps
<1>6. CASE UNCHANGED vars
  BY <1>6, StutterKeeps
<1> QED
  BY <1>1, <1>2, <1>3, <1>4, <1>5, <1>6 DEF Next

LEMMA InvIsTyped ==
    ASSUME Inv
    PROVE  TypeOK
<1>1. /\ collected \in [Agreements -> Nat] /\ claims \in Seq(Claim)
      /\ \A c \in DOMAIN claims : /\ NetPayable(claims[c]) >= 0
                                  /\ claims[c].settlement \in DOMAIN settlements \cup {0}
  BY DEF Inv, ClaimsTyped, ClaimStands
<1>2. deductions \in [(1 .. MaxClaims) \X (1 .. MaxObligations) -> Nat]
  BY DEF Inv, DeductionsTyped
<1>3. /\ obligations \in Seq(Obligation)
      /\ \A o \in DOMAIN obligations : obligations[o].recovered <= obligations[o].amount
  BY DEF Inv, ObligationsTyped
<1>4. settlements \in Seq(Settlement) /\ absences \in [Absences -> Absence] /\ raced \in SUBSET Races
  BY DEF Inv, SettlementsTyped, AbsencesTyped
<1>5. \A s \in Sessions :
         /\ req[s].op \in {"idle"} \cup ClaimOps \cup SettlementOps \cup AbsenceOps
         /\ req[s].overtaken \in SUBSET Races
  BY DEF Inv, RequestsStand
<1> QED
  BY <1>1, <1>2, <1>3, <1>4, <1>5 DEF TypeOK

LEMMA InvCharges ==
    ASSUME Inv
    PROVE  ChargedOnce
  BY ChargedOnceIs DEF Inv

-----------------------------------------------------------------------------
(* What was approved or signed. *)

SealStands(c) ==
    Frozen(claims[c]) =>
        /\ Frozen(claims'[c])
        /\ \/ /\ claims'[c].deducted = claims[c].deducted
              /\ Sealed(claims[c]) => Sealed(claims'[c])
           \/ LateSave("frozen")
        /\ RowsOf(c)' = RowsOf(c) \/ LateSave("claim")

SealsStand == \A c \in DOMAIN claims : SealStands(c)

SignaturesHold ==
    \A k \in DOMAIN settlements : settlements'[k] # settlements[k] =>
        \/ /\ settlements[k].status = "OPEN"
           /\ settlements'[k].status = "SIGNED" => BalanceOf(settlements'[k]) = 0
        \/ LateSave("settlement")

LEMMA LeftAlone ==
    /\ deductions' = deductions /\ (\A c \in DOMAIN claims : claims'[c] = claims[c]) => SealsStand
    /\ (\A k \in DOMAIN settlements : settlements'[k] = settlements[k]) => SignaturesHold
<1>1. ASSUME deductions' = deductions, \A c \in DOMAIN claims : claims'[c] = claims[c]
      PROVE  SealsStand
  <2>1. \A c : RowsOf(c)' = RowsOf(c)
    BY <1>1 DEF RowsOf
  <2> QED
    BY <1>1, <2>1 DEF SealsStand, SealStands
<1>2. (\A k \in DOMAIN settlements : settlements'[k] = settlements[k]) => SignaturesHold
  BY DEF SignaturesHold
<1> QED
  BY <1>1, <1>2

(***************************************************************************)
(* A request that was overtaken, and commits.                              *)
(***************************************************************************)
LEMMA LateIs ==
    ASSUME NEW s \in Sessions, NEW race, race \in req[s].overtaken, req'[s] = Idle
    PROVE  LateSave(race)
  BY DEF LateSave, Outdated

LEMMA WriteOffsetsSeals ==
    ASSUME Inv, NEW s \in Sessions, WriteOffsets(s)
    PROVE  SealsStand
<1>1. PICK c, rows, total : /\ c = req[s].on /\ rows = req[s].read
                            /\ total = Total(rows)
  OBVIOUS
<1>2. /\ req[s].op = "save_offsets"
      /\ claims' = [claims EXCEPT ![c].deducted = total]
      /\ deductions' = [d \in DOMAIN deductions |->
                           IF d[1] = c /\ d[2] \in DOMAIN rows
                           THEN deductions[d] + rows[d[2]].portion ELSE deductions[d]]
      /\ Finish(s)
  BY <1>1 DEF WriteOffsets, Serving
<1>3. UpToDate(req[s]) /\ c \in DOMAIN claims /\ req'[s] = Idle
  BY <1>1, <1>2, ServedIs DEF Apt, ClaimOps, ClaimSaves, Finish
<1>4. ASSUME NEW b \in DOMAIN claims, Frozen(claims[b])
      PROVE  /\ Frozen(claims'[b])
             /\ \/ /\ claims'[b].deducted = claims[b].deducted
                   /\ Sealed(claims[b]) => Sealed(claims'[b])
                \/ LateSave("frozen")
  <2>1. CASE b # c
    <3>1. claims'[b] = claims[b]
      BY <1>2, <2>1
    <3> QED
      BY <1>4, <3>1
  <2>2. CASE b = c
    <3>1. claims[c] \in Claim
      BY <1>3, ClaimRows DEF Inv
    <3>2. claims'[c] = [claims[c] EXCEPT !.deducted = total]
      BY <1>2, <1>3
    <3>3. /\ claims'[c].status = claims[c].status /\ claims'[c].deducted = total
          /\ claims'[c].seal = claims[c].seal
      BY <3>1, <3>2 DEF Claim
    <3>4. "frozen" \notin req[s].overtaken => total = claims[c].deducted
      BY <1>1, <1>2, <1>3, <1>4, <2>2 DEF UpToDate, FrozenSeen, Saves
    <3> QED
      BY <1>3, <1>4, <2>2, <3>3, <3>4, LateIs DEF Frozen, Sealed
  <2> QED
    BY <2>1, <2>2
<1>5. ASSUME NEW b \in DOMAIN claims, Frozen(claims[b])
      PROVE  RowsOf(b)' = RowsOf(b) \/ LateSave("claim")
  <2>1. CASE b = c
    <3>1. ~ClaimSeen(req[s])
      BY <1>1, <1>2, <1>5, <2>1 DEF ClaimSeen, ClaimOps, ClaimSaves
    <3>2. "claim" \in req[s].overtaken
      BY <1>3, <3>1 DEF UpToDate
    <3> QED
      BY <1>3, <3>2, LateIs
  <2>2. CASE b # c
    <3>1. ASSUME NEW o \in 1 .. MaxObligations PROVE deductions'[b, o] = deductions[b, o]
      <4>1. b \in 1 .. MaxClaims
        BY ClaimRows DEF Inv, ClaimsTyped, Given, BoundsAssumption
      <4>2. <<b, o>> \in DOMAIN deductions /\ <<b, o>>[1] = b
        BY <4>1 DEF Inv, DeductionsTyped
      <4> QED
        BY <1>2, <2>2, <4>2
    <3>2. RowsOf(b)' = RowsOf(b)
      BY <3>1 DEF RowsOf
    <3> QED
      BY <3>2
  <2> QED
    BY <2>1, <2>2
<1> QED
  BY <1>4, <1>5 DEF SealsStand, SealStands

LEMMA WriteApproveSeals ==
    ASSUME Inv, NEW s \in Sessions, WriteApprove(s)
    PROVE  SealsStand
<1>1. PICK c, new : c = req[s].on /\ new = req[s].read
  OBVIOUS
<1>2. /\ req[s].op = "save_approval" /\ claims' = [claims EXCEPT ![c] = new]
      /\ deductions' = deductions /\ Finish(s)
  BY <1>1 DEF WriteApprove, Serving
<1>3. UpToDate(req[s]) /\ c \in DOMAIN claims /\ req'[s] = Idle
  BY <1>1, <1>2, ServedIs DEF Apt, ClaimOps, ClaimSaves, Finish
<1>4. Frozen(new) /\ Sealed(new)
  BY <1>1, <1>2, ServedIs DEF Apt, Approved
<1>5. ASSUME NEW b \in DOMAIN claims, Frozen(claims[b])
      PROVE  SealStands(b)
  <2>1. RowsOf(b)' = RowsOf(b)
    BY <1>2 DEF RowsOf
  <2>2. CASE b # c
    <3>1. claims'[b] = claims[b]
      BY <1>2, <2>2
    <3> QED
      BY <1>5, <2>1, <3>1 DEF SealStands
  <2>3. CASE b = c
    <3>1. claims'[c] = new
      BY <1>2, <1>3
    <3>2. "frozen" \notin req[s].overtaken => new.deducted = claims[c].deducted
      BY <1>1, <1>2, <1>3, <1>5, <2>3 DEF UpToDate, FrozenSeen, Saves
    <3> QED
      BY <1>3, <1>4, <2>1, <2>3, <3>1, <3>2, LateIs DEF SealStands
  <2> QED
    BY <2>2, <2>3
<1> QED
  BY <1>5 DEF SealsStand, SealStands

LEMMA WriteAttachSeals ==
    ASSUME Inv, NEW s \in Sessions, WriteAttach(s)
    PROVE  SealsStand
<1>1. PICK k, more : k = req[s].on /\ more = Attachable(k)
  OBVIOUS
<1>2. /\ claims' = [c \in DOMAIN claims |->
                       IF c \in more THEN [claims[c] EXCEPT !.settlement = k] ELSE claims[c]]
      /\ deductions' = deductions
  BY <1>1 DEF WriteAttach
<1>3. ASSUME NEW c \in DOMAIN claims, Frozen(claims[c])
      PROVE  SealStands(c)
  <2>1. claims[c] \in Claim
    BY ClaimRows DEF Inv
  <2>2. /\ claims'[c].status = claims[c].status /\ claims'[c].deducted = claims[c].deducted
        /\ claims'[c].seal = claims[c].seal
    BY <1>2, <2>1 DEF Claim
  <2>3. RowsOf(c)' = RowsOf(c)
    BY <1>2 DEF RowsOf
  <2> QED
    BY <1>3, <2>2, <2>3 DEF SealStands, Frozen, Sealed
<1> QED
  BY <1>3 DEF SealsStand, SealStands

(***************************************************************************)
(* One settlement is rewritten: by a request that found it open, or by one *)
(* that was overtaken.                                                     *)
(***************************************************************************)
LEMMA RowWrittenSigns ==
    ASSUME Inv, NEW s \in Sessions, req[s].op \in {"attach", "pay", "sign"}, Finish(s),
           NEW k, k = req[s].on, NEW new, settlements' = [settlements EXCEPT ![k] = new],
           req[s].op = "sign" => /\ new.due = settlements[k].due /\ new.paid = settlements[k].paid,
           req[s].op # "sign" => new.status = settlements[k].status
    PROVE  SignaturesHold
<1>1. UpToDate(req[s]) /\ k \in DOMAIN settlements /\ req'[s] = Idle
  BY ServedIs DEF Apt, SettlementOps, Finish
<1>2. settlements'[k] = new
  BY <1>1
<1>3. ASSUME "settlement" \notin req[s].overtaken
      PROVE  settlements[k].status = "OPEN" /\ (new.status = "SIGNED" => BalanceOf(new) = 0)
  <2>1. SettlementSeen(req[s])
    BY <1>1, <1>3 DEF UpToDate
  <2>2. settlements[k].status = "OPEN"
    BY <2>1 DEF SettlementSeen
  <2>3. CASE req[s].op = "sign"
    BY <2>1, <2>2, <2>3 DEF SettlementSeen, BalanceOf
  <2>4. CASE req[s].op # "sign"
    BY <2>2, <2>4
  <2> QED
    BY <2>2, <2>3, <2>4
<1>4. "settlement" \in req[s].overtaken => LateSave("settlement")
  BY <1>1, LateIs
<1>5. \A j \in DOMAIN settlements : settlements'[j] # settlements[j] => j = k
  OBVIOUS
<1> QED
  BY <1>1, <1>2, <1>3, <1>4, <1>5 DEF SignaturesHold

LEMMA CommitSigns ==
    ASSUME Inv, NEW s \in Sessions, WriteAttach(s) \/ WritePayment(s) \/ WriteSign(s)
    PROVE  SignaturesHold
<1>1. PICK k, row : k = req[s].on /\ row = settlements[k]
  OBVIOUS
<1>2. req[s].op \in {"attach", "pay", "sign"} /\ Finish(s)
  BY DEF WriteAttach, WritePayment, WriteSign, Serving
<1>3. k \in DOMAIN settlements /\ row \in Settlement
  BY <1>1, <1>2, ServedIs, SettlementRows DEF Apt, SettlementOps, Inv
<1>4. CASE WriteAttach(s)
  <2>1. PICK n : n = req[s].read.due + SumFunctionOnSet(Net, Attachable(k))
    OBVIOUS
  <2>2. PICK new : new = [row EXCEPT !.due = n]
    OBVIOUS
  <2>3. settlements' = [settlements EXCEPT ![k] = new] /\ req[s].op = "attach"
    BY <1>1, <1>4, <2>1, <2>2 DEF WriteAttach, Serving
  <2>4. new.status = row.status
    BY <1>3, <2>2 DEF Settlement
  <2> QED
    BY <1>1, <1>2, <2>3, <2>4, RowWrittenSigns
<1>5. CASE WritePayment(s)
  <2>1. PICK n : n = req[s].read.paid + req[s].with
    OBVIOUS
  <2>2. PICK new : new = [row EXCEPT !.paid = n]
    OBVIOUS
  <2>3. settlements' = [settlements EXCEPT ![k] = new] /\ req[s].op = "pay"
    BY <1>1, <1>5, <2>1, <2>2 DEF WritePayment, Serving
  <2>4. new.status = row.status
    BY <1>3, <2>2 DEF Settlement
  <2> QED
    BY <1>1, <1>2, <2>3, <2>4, RowWrittenSigns
<1>6. CASE WriteSign(s)
  <2>1. PICK new : new = [row EXCEPT !.status = "SIGNED"]
    OBVIOUS
  <2>2. settlements' = [settlements EXCEPT ![k] = new] /\ req[s].op = "sign"
    BY <1>1, <1>3, <1>6, <2>1 DEF WriteSign, Serving
  <2>3. new.due = row.due /\ new.paid = row.paid
    BY <1>3, <2>1 DEF Settlement
  <2> QED
    BY <1>1, <1>2, <2>2, <2>3, RowWrittenSigns
<1> QED
  BY <1>4, <1>5, <1>6

(***************************************************************************)
(* A read leaves every row, and the other commits leave these.             *)
(***************************************************************************)
LEMMA ReadsLeave ==
    ASSUME NEW s \in Sessions,
           \/ \E c \in DOMAIN claims : ReadOffsets(s, c) \/ ReadApprove(s, c)
           \/ SpreadOffsets(s) \/ SaveOffsets(s) \/ SaveApproval(s)
           \/ \E x \in Absences : ReadWaive(s, x)
           \/ \E a \in Agreements : ReadPenalty(s, a)
           \/ \E a \in Agreements, from \in 1 .. Months : ReadOpen(s, a, from)
           \/ \E k \in DOMAIN settlements :
                 \/ ReadSettlement(s, "attach", k, 0)
                 \/ \E amount \in Shares : ReadPayment(s, k, amount)
                 \/ ReadSign(s, k)
           \/ Rollback(s)
    PROVE  deductions' = deductions /\ claims' = claims /\ settlements' = settlements
  BY DEF ReadOffsets, ReadApprove, SpreadOffsets, SaveOffsets, SaveApproval, ReadWaive, ReadPenalty, ReadOpen,
         ReadSettlement, ReadPayment, ReadSign, Rollback, Begin, ledger

LEMMA NextStands ==
    ASSUME Inv, [Next]_vars
    PROVE  SealsStand /\ SignaturesHold
<1>1. CASE HandleClaimList
  <2>1. PICK new : claims' = Append(claims, new) /\ UNCHANGED <<deductions, settlements>>
    BY <1>1 DEF HandleClaimList, BuildClaim
  <2>2. \A c \in DOMAIN claims : claims'[c] = claims[c]
    BY <2>1, LenProperties, AppendProperties DEF Inv, ClaimsTyped
  <2> QED
    BY <2>1, <2>2, LeftAlone
<1>2. CASE ObligationsView \/ RefundRecovery \/ RecordAbsenceForm
  <2>1. UNCHANGED <<claims, deductions, settlements>>
    BY <1>2 DEF ObligationsView, RecordObligation, RefundRecovery, RecordRefundRecovery, RecordAbsenceForm,
                RecordAbsence, ledger
  <2> QED
    BY <2>1, LeftAlone
<1>3. ASSUME NEW s \in Sessions, ClaimDetailView(s) PROVE SealsStand /\ SignaturesHold
  <2>1. CASE WriteOffsets(s)
    <3>1. settlements' = settlements
      BY <2>1 DEF WriteOffsets
    <3> QED
      BY <2>1, <3>1, WriteOffsetsSeals, LeftAlone
  <2>2. CASE WriteApprove(s)
    <3>1. settlements' = settlements
      BY <2>2 DEF WriteApprove
    <3> QED
      BY <2>2, <3>1, WriteApproveSeals, LeftAlone
  <2>3. CASE \/ \E c \in DOMAIN claims : ReadOffsets(s, c) \/ ReadApprove(s, c)
             \/ SpreadOffsets(s) \/ SaveOffsets(s) \/ SaveApproval(s)
    BY <2>3, ReadsLeave, LeftAlone
  <2> QED
    BY <1>3, <2>1, <2>2, <2>3 DEF ClaimDetailView
<1>4. ASSUME NEW s \in Sessions, AbsencesView(s) PROVE SealsStand /\ SignaturesHold
  <2>1. CASE WriteWaive(s) \/ WritePenalty(s)
    <3>1. UNCHANGED <<claims, deductions, settlements>>
      BY <2>1 DEF WriteWaive, WritePenalty, ledger
    <3> QED
      BY <3>1, LeftAlone
  <2>2. CASE (\E x \in Absences : ReadWaive(s, x)) \/ (\E a \in Agreements : ReadPenalty(s, a))
    BY <2>2, ReadsLeave, LeftAlone
  <2> QED
    BY <1>4, <2>1, <2>2 DEF AbsencesView
<1>5. ASSUME NEW s \in Sessions, SettlementsView(s) PROVE SealsStand /\ SignaturesHold
  <2>1. CASE WriteOpen(s)
    <3>1. PICK new : settlements' = Append(settlements, new) /\ UNCHANGED <<claims, deductions>>
      BY <2>1 DEF WriteOpen, ledger
    <3>2. \A k \in DOMAIN settlements : settlements'[k] = settlements[k]
      BY <3>1, LenProperties, AppendProperties DEF Inv, SettlementsTyped
    <3> QED
      BY <3>1, <3>2, LeftAlone
  <2>2. CASE \E a \in Agreements, from \in 1 .. Months : ReadOpen(s, a, from)
    BY <2>2, ReadsLeave, LeftAlone
  <2> QED
    BY <1>5, <2>1, <2>2 DEF SettlementsView
<1>6. ASSUME NEW s \in Sessions, HandleSettlementDetail(s) PROVE SealsStand /\ SignaturesHold
  <2>1. CASE WriteAttach(s)
    BY <2>1, WriteAttachSeals, CommitSigns
  <2>2. CASE WritePayment(s) \/ WriteSign(s)
    <3>1. UNCHANGED <<claims, deductions>>
      BY <2>2 DEF WritePayment, WriteSign, ledger
    <3> QED
      BY <2>2, <3>1, LeftAlone, CommitSigns
  <2>3. CASE \E k \in DOMAIN settlements :
                \/ ReadSettlement(s, "attach", k, 0)
                \/ \E amount \in Shares : ReadPayment(s, k, amount)
                \/ ReadSign(s, k)
    BY <2>3, ReadsLeave, LeftAlone
  <2> QED
    BY <1>6, <2>1, <2>2, <2>3 DEF HandleSettlementDetail
<1>7. ASSUME NEW s \in Sessions, Rollback(s) PROVE SealsStand /\ SignaturesHold
  BY <1>7, ReadsLeave, LeftAlone
<1>8. CASE UNCHANGED vars
  BY <1>8, LeftAlone DEF vars, ledger
<1> QED
  BY <1>1, <1>2, <1>3, <1>4, <1>5, <1>6, <1>7, <1>8 DEF Next

-----------------------------------------------------------------------------
(* Theorems. *)

LEMMA InvAlways == Spec => []Inv
<1>1. Init => Inv
  BY InitHolds, BoundsAssumption, AmountsAssumption, AbsencesAssumption, ScopesAssumption DEF Given
<1>2. Inv /\ [Next]_vars => Inv'
  BY NextKeeps
<1> QED
  BY <1>1, <1>2, PTL DEF Spec

(***************************************************************************)
(* Claims, obligations, settlements and absences keep their types, however *)
(* requests overlap: no debt recovers more than its amount, no claim bears *)
(* more than its share (apply_offsets).                                    *)
(***************************************************************************)
THEOREM TypeCorrect == Spec => []TypeOK
<1>1. Inv => TypeOK
  BY InvIsTyped
<1> QED
  BY <1>1, InvAlways, PTL

(***************************************************************************)
(* A partner is charged once for a debt, a missed lecture and a claim,     *)
(* whatever the order in which shares are spread over obligations, claims  *)
(* approved, absences fined or waived and settlements opened, filled, paid *)
(* and signed, unless two requests of one of these kinds crossed.          *)
(***************************************************************************)
THEOREM DebtsChargedOnce == Spec => []ChargedOnce
<1>1. Inv => ChargedOnce
  BY InvCharges
<1> QED
  BY <1>1, InvAlways, PTL

(***************************************************************************)
(* No step moves the figures of an approved claim but the commit of one    *)
(* that read the claim again, in save, before another updated it; adds     *)
(* deductions to it but that of one that loaded it before it was approved; *)
(* or moves a signed settlement but that of one that loaded it before      *)
(* (approve_claim, sign_settlement).                                       *)
(***************************************************************************)
THEOREM SignedAndSealedStand == Spec => SignaturesStand
<1>1. Inv /\ [Next]_vars => [SealsStand]_<<claims, deductions>>
  BY NextStands
<1>2. Inv /\ [Next]_vars => [SignaturesHold]_settlements
  BY NextStands
<1>3. Spec => [][SealsStand]_<<claims, deductions>>
  BY <1>1, InvAlways, PTL DEF Spec
<1>4. Spec => [][SignaturesHold]_settlements
  BY <1>2, InvAlways, PTL DEF Spec
<1>5. SealedClaimStands <=> [][SealsStand]_<<claims, deductions>>
  BY DEF SealedClaimStands, SealsStand, SealStands
<1>6. SignedStands <=> [][SignaturesHold]_settlements
  BY DEF SignedStands, SignaturesHold
<1> QED
  BY <1>3, <1>4, <1>5, <1>6 DEF SignaturesStand
=============================================================================
