----------------------------- MODULE OfferProofs ----------------------------
(***************************************************************************)
(* What is on offer and at what price: theorems about programmes,          *)
(* agreements and cohorts (Offerings) and about price lists and quotes     *)
(* (Catalogue), for all values of their constants.  The two components     *)
(* share no name: each half of this module speaks of one specification.    *)
(***************************************************************************)
EXTENDS Offerings, Catalogue, Sums, SequenceTheorems, TLAPS

-----------------------------------------------------------------------------
(* Programmes, agreements and cohorts, for every set of programmes, partners *)
(* and requests in flight, and any number of days and rows.                  *)

(***************************************************************************)
(* No cohort keeps p from being retired, but a stray.                      *)
(***************************************************************************)
Vacant(p) ==
    \A c \in DOMAIN cohorts :
        cohorts[c].program = p => cohorts[c].status # "LIVE" \/ c \in strays

(***************************************************************************)
(* What a request was judged by is still so, unless it has been overtaken. *)
(***************************************************************************)
Judged(q) ==
    \/ q.overtaken
    \/ /\ q.op \in ProgramOps /\ ~q.active => Vacant(q.program)
       /\ q.op = "open" => q.program \in active
       /\ q.op = "activate" =>
             LET previous == agreements[q.agreement].supersedes
             IN  /\ agreements[q.agreement].status = "DRAFT"
                 /\ previous # 0 => agreements[previous].status = "ACTIVE"
       /\ q.op \in CohortOps => cohorts[q.cohort].status = q.status

(***************************************************************************)
(* What a request is about is there, and an activation was judged by terms *)
(* that nothing writes again, and by a predecessor that is no draft again. *)
(***************************************************************************)
Fits(q) ==
    /\ q.op = "activate" =>
          LET previous == agreements[q.agreement].supersedes
          IN  /\ q.agreement \in DOMAIN agreements
              /\ agreements[q.agreement].to >= q.day
              /\ previous # 0 => /\ agreements[previous].partner = agreements[q.agreement].partner
                                 /\ agreements[previous].status # "DRAFT"
    /\ q.op \in {"open", "edit"} => q.agreement \in DOMAIN agreements \cup {0}
    /\ q.op \in CohortOps => q.cohort \in DOMAIN cohorts

Typed == TypeOK /\ \A s \in Sessions : Fits(req[s])

Inv ==
    /\ Typed
    /\ OffersStand
    /\ \A s \in Sessions : Judged(req[s])

-----------------------------------------------------------------------------
(* Rows. *)

LEMMA RowsTyped ==
    ASSUME TypeOK
    PROVE  /\ DOMAIN agreements = 1 .. Len(agreements) /\ Len(agreements) \in Nat
           /\ \A a \in DOMAIN agreements :
                 /\ a \in Nat \ {0} /\ agreements[a] \in Agreement
                 /\ agreements[a].from \in Nat /\ agreements[a].to \in Nat
                 /\ agreements[a].supersedes \in DOMAIN agreements \cup {0}
                 /\ agreements[a].supersedes < a
           /\ \A c \in DOMAIN cohorts : cohorts[c] \in Cohort
           /\ today \in Nat
<1>1. \A d \in Days : d \in Nat
  BY ConstantsAssumption DEF Days
<1>2. DOMAIN agreements = 1 .. Len(agreements) /\ Len(agreements) \in Nat
  BY LenProperties DEF TypeOK
<1>3. \A a \in DOMAIN agreements : agreements[a] \in Agreement
  BY <1>2, LenProperties DEF TypeOK
<1>4. \A a \in DOMAIN agreements :
         agreements[a].from \in Days /\ agreements[a].to \in Days /\ agreements[a].supersedes \in Nat
  BY <1>3 DEF Agreement
<1>5. \A a \in DOMAIN agreements : agreements[a].supersedes < a
  BY DEF TypeOK
<1>6. \A c \in DOMAIN cohorts : cohorts[c] \in Cohort
  BY LenProperties DEF TypeOK
<1>7. \A a \in DOMAIN agreements : agreements[a].supersedes \in DOMAIN agreements \cup {0}
  BY <1>2, <1>4, <1>5
<1> QED
  BY <1>1, <1>2, <1>3, <1>4, <1>5, <1>6, <1>7 DEF TypeOK

(***************************************************************************)
(* An agreement as it is written: the fields and the links to earlier ones *)
(* that the rows must keep.                                                *)
(***************************************************************************)
LEMMA AgreementAdded ==
    ASSUME TypeOK, NEW new \in Agreement, agreements' = Append(agreements, new)
    PROVE  /\ agreements' \in Seq(Agreement)
           /\ DOMAIN agreements' = DOMAIN agreements \cup {Len(agreements) + 1}
           /\ Len(agreements) + 1 \notin DOMAIN agreements
           /\ \A a \in DOMAIN agreements : agreements'[a] = agreements[a]
           /\ agreements'[Len(agreements) + 1] = new
  BY AppendProperties, LenProperties DEF TypeOK

LEMMA CohortAdded ==
    ASSUME TypeOK, NEW new \in Cohort, cohorts' = Append(cohorts, new)
    PROVE  /\ cohorts' \in Seq(Cohort)
           /\ DOMAIN cohorts' = DOMAIN cohorts \cup {Len(cohorts) + 1}
           /\ Len(cohorts) + 1 \notin DOMAIN cohorts
           /\ \A c \in DOMAIN cohorts : cohorts'[c] = cohorts[c]
           /\ cohorts'[Len(cohorts) + 1] = new
  BY AppendProperties, LenProperties DEF TypeOK

LEMMA CohortSaved ==
    ASSUME TypeOK, NEW c \in DOMAIN cohorts, NEW new \in Cohort,
           cohorts' = [cohorts EXCEPT ![c] = new]
    PROVE  /\ cohorts' \in Seq(Cohort) /\ DOMAIN cohorts' = DOMAIN cohorts
           /\ \A d \in DOMAIN cohorts : cohorts'[d] = IF d = c THEN new ELSE cohorts[d]
  BY ExceptSeq, LenProperties DEF TypeOK

-----------------------------------------------------------------------------
(* Requests. *)

LEMMA RequestSpelled ==
    ASSUME NEW r \in Request
    PROVE  /\ r = [op |-> r.op, program |-> r.program, active |-> r.active, agreement |-> r.agreement,
                   cohort |-> r.cohort, status |-> r.status, day |-> r.day, overtaken |-> r.overtaken]
           /\ r.op \in Ops /\ r.program \in Programs /\ r.active \in BOOLEAN /\ r.agreement \in Nat
           /\ r.cohort \in Nat /\ r.status \in CohortStatuses /\ r.day \in Days
           /\ r.overtaken \in BOOLEAN
  BY DEF Request

LEMMA IdleFits == Idle \in Request /\ Fits(Idle) /\ Judged(Idle) /\ Idle.op = "idle"
<1> DEFINE first == CHOOSE p \in Programs : TRUE
<1>1. first \in Programs
  BY ConstantsAssumption
<1>2. 1 \in Days
  BY ConstantsAssumption DEF Days
<1>3. Idle.op = "idle" /\ Idle = [op |-> "idle", program |-> first, active |-> TRUE, agreement |-> 0,
                                 cohort |-> 0, status |-> "LIVE", day |-> 1, overtaken |-> FALSE]
  BY DEF Idle
<1> HIDE DEF first
<1>4. Idle \in Request
  BY <1>1, <1>2, <1>3 DEF Request, Ops, CohortStatuses
<1> QED
  BY <1>3, <1>4 DEF Fits, Judged, ProgramOps, CohortOps

(***************************************************************************)
(* q is r, unless it is told that it has been overtaken.                   *)
(***************************************************************************)
Told(q, r) ==
    /\ q \in Request
    /\ q.op = r.op /\ q.agreement = r.agreement /\ q.cohort = r.cohort /\ q.day = r.day
    /\ ~q.overtaken => q = r

LEMMA Telling ==
    ASSUME NEW r \in Request, NEW o \in BOOLEAN, ~o => ~r.overtaken, NEW q,
           q = [r EXCEPT !.overtaken = o]
    PROVE  Told(q, r) /\ q.overtaken = o
<1>1. q = [op |-> r.op, program |-> r.program, active |-> r.active, agreement |-> r.agreement,
           cohort |-> r.cohort, status |-> r.status, day |-> r.day, overtaken |-> o]
  BY RequestSpelled
<1>2. /\ q.op = r.op /\ q.agreement = r.agreement /\ q.cohort = r.cohort /\ q.day = r.day
      /\ q.overtaken = o
  BY <1>1
<1>3. q \in Request
  BY <1>1, RequestSpelled DEF Request
<1>4. ASSUME ~o PROVE q = r
  <2>1. o = r.overtaken
    BY <1>4, RequestSpelled
  <2> QED
    BY <1>1, <2>1, RequestSpelled
<1> QED
  BY <1>2, <1>3, <1>4 DEF Told

LEMMA FinishTells ==
    ASSUME TypeOK, NEW s \in Sessions, Finish(s)
    PROVE  /\ req' = [t \in Sessions |-> req'[t]]
           /\ req'[s] = Idle
           /\ \A t \in Sessions :
                 \/ req'[t] = Idle
                 \/ Told(req'[t], req[t]) /\ (~req'[t].overtaken => ~Outdates(req[s], req[t]))
<1>1. req' = [t \in Sessions |->
                IF t = s THEN Idle
                ELSE [req[t] EXCEPT !.overtaken = @ \/ Outdates(req[s], req[t])]]
  BY DEF Finish
<1>2. ASSUME NEW t \in Sessions, t # s
      PROVE  Told(req'[t], req[t]) /\ (~req'[t].overtaken => ~Outdates(req[s], req[t]))
  <2> DEFINE o == req[t].overtaken \/ Outdates(req[s], req[t])
             q == req'[t]
  <2>1. q = [req[t] EXCEPT !.overtaken = o]
    BY <1>1, <1>2
  <2>2. req[t] \in Request
    BY DEF TypeOK
  <2>3. o \in BOOLEAN /\ (~o => ~req[t].overtaken /\ ~Outdates(req[s], req[t]))
    <3>1. req[t].overtaken \in BOOLEAN
      BY <2>2, RequestSpelled
    <3> QED
      BY <3>1
  <2> HIDE DEF o, q
  <2>4. Told(q, req[t]) /\ q.overtaken = o
    BY <2>1, <2>2, <2>3, Telling
  <2> QED
    BY <2>3, <2>4 DEF q
<1>3. req'[s] = Idle
  BY <1>1
<1> QED
  BY <1>1, <1>2, <1>3

LEMMA StatusTells ==
    ASSUME TypeOK, NEW c, NEW status, SetStatus(c, status)
    PROVE  /\ req' = [t \in Sessions |-> req'[t]]
           /\ \A t \in Sessions :
                 /\ Told(req'[t], req[t])
                 /\ ~req'[t].overtaken => ~(req[t].op \in CohortOps /\ req[t].cohort = c)
<1>1. req' = [t \in Sessions |->
                [req[t] EXCEPT !.overtaken = @ \/ (req[t].op \in CohortOps /\ req[t].cohort = c)]]
  BY DEF SetStatus
<1>2. ASSUME NEW t \in Sessions
      PROVE  /\ Told(req'[t], req[t])
             /\ ~req'[t].overtaken => ~(req[t].op \in CohortOps /\ req[t].cohort = c)
  <2> DEFINE hit == req[t].op \in CohortOps /\ req[t].cohort = c
             o == req[t].overtaken \/ hit
             q == req'[t]
  <2>1. q = [req[t] EXCEPT !.overtaken = o]
    BY <1>1
  <2>2. req[t] \in Request
    BY DEF TypeOK
  <2>3. o \in BOOLEAN /\ (~o => ~req[t].overtaken /\ ~hit)
    <3>1. req[t].overtaken \in BOOLEAN
      BY <2>2, RequestSpelled
    <3> QED
      BY <3>1
  <2> HIDE DEF o, q
  <2>4. Told(q, req[t]) /\ q.overtaken = o
    BY <2>1, <2>2, <2>3, Telling
  <2> QED
    BY <2>3, <2>4 DEF q
<1> QED
  BY <1>1, <1>2

(***************************************************************************)
(* Agreements stay, and so do their terms; none is a draft again.  Cohorts *)
(* stay.                                                                   *)
(***************************************************************************)
RowsStay ==
    /\ \A a \in DOMAIN agreements :
          /\ a \in DOMAIN agreements'
          /\ agreements'[a].partner = agreements[a].partner
          /\ agreements'[a].from = agreements[a].from
          /\ agreements'[a].to = agreements[a].to
          /\ agreements'[a].supersedes = agreements[a].supersedes
          /\ agreements[a].status # "DRAFT" => agreements'[a].status # "DRAFT"
    /\ \A c \in DOMAIN cohorts : c \in DOMAIN cohorts'

LEMMA FitsStays ==
    ASSUME TypeOK, RowsStay, NEW q, Fits(q)
    PROVE  Fits(q)'
<1>1. \A a \in DOMAIN agreements : agreements[a].supersedes \in DOMAIN agreements \cup {0}
  BY RowsTyped
<1> QED
  BY <1>1 DEF Fits, RowsStay

(***************************************************************************)
(* The part of the invariant that is about the requests in flight.         *)
(***************************************************************************)
RequestsStand ==
    /\ req \in [Sessions -> Request]
    /\ \A s \in Sessions : Fits(req[s]) /\ Judged(req[s])

(***************************************************************************)
(* A request that has been told, or not, of what happened to its rows.     *)
(***************************************************************************)
LEMMA ToldStands ==
    ASSUME Inv, RowsStay, NEW t \in Sessions, Told(req'[t], req[t]),
           NEW q, q = req[t], ~req'[t].overtaken => Judged(q)'
    PROVE  req'[t] \in Request /\ Fits(req[t])' /\ Judged(req[t])'
<1>1. Fits(q) /\ TypeOK
  BY DEF Inv, Typed
<1>2. Fits(q)'
  BY <1>1, FitsStays
<1>3. Fits(req[t])'
  BY <1>2 DEF Told, Fits
<1>4. CASE req'[t].overtaken
  BY <1>3, <1>4 DEF Told, Judged
<1>5. CASE ~req'[t].overtaken
  <2>1. req'[t] = q /\ Judged(q)'
    BY <1>5 DEF Told
  <2> QED
    BY <1>3, <2>1 DEF Told, Judged, Vacant
<1> QED
  BY <1>4, <1>5

(***************************************************************************)
(* They survive a commit if whoever it does not outdate is judged as       *)
(* before.                                                                 *)
(***************************************************************************)
LEMMA CommitKeeps ==
    ASSUME Inv, NEW s \in Sessions, Finish(s), RowsStay,
           \A q \in Request : Fits(q) /\ Judged(q) /\ ~Outdates(req[s], q) => Judged(q)'
    PROVE  RequestsStand'
<1>1. /\ req' = [t \in Sessions |-> req'[t]]
      /\ \A t \in Sessions :
            \/ req'[t] = Idle
            \/ Told(req'[t], req[t]) /\ (~req'[t].overtaken => ~Outdates(req[s], req[t]))
  BY FinishTells DEF Inv, Typed
<1>2. ASSUME NEW t \in Sessions PROVE req'[t] \in Request /\ Fits(req[t])' /\ Judged(req[t])'
  <2>1. CASE req'[t] = Idle
    BY <2>1, IdleFits DEF Fits, Judged, ProgramOps, CohortOps
  <2>2. CASE Told(req'[t], req[t]) /\ (~req'[t].overtaken => ~Outdates(req[s], req[t]))
    <3>1. PICK q \in Request : q = req[t]
      BY DEF Inv, Typed, TypeOK
    <3>2. ~req'[t].overtaken => Judged(q)'
      BY <2>2, <3>1 DEF Inv, Typed
    <3> QED
      BY <2>2, <3>1, <3>2, ToldStands
  <2> QED
    BY <1>1, <2>1, <2>2
<1> QED
  BY <1>1, <1>2 DEF RequestsStand

(***************************************************************************)
(* A step outside the requests: none is told, so all must still be judged. *)
(***************************************************************************)
LEMMA QuietKeeps ==
    ASSUME Inv, UNCHANGED req, RowsStay,
           \A q \in Request : Fits(q) /\ Judged(q) => Judged(q)'
    PROVE  RequestsStand'
<1>1. ASSUME NEW t \in Sessions PROVE Fits(req[t])' /\ Judged(req[t])'
  <2>1. PICK q \in Request : q = req[t]
    BY DEF Inv, Typed, TypeOK
  <2>2. Fits(q) /\ Judged(q)
    BY <2>1 DEF Inv, Typed
  <2>3. Fits(q)' /\ Judged(q)' /\ req'[t] = q
    BY <2>1, <2>2, FitsStays DEF Inv, Typed
  <2> QED
    BY <2>3 DEF Fits, Judged, Vacant
<1> QED
  BY <1>1 DEF Inv, Typed, TypeOK, RequestsStand

(***************************************************************************)
(* A request begins with what it has just read, or ends; no row changes.   *)
(***************************************************************************)
LEMMA SessionKeeps ==
    ASSUME Inv, NEW s \in Sessions, NEW q \in Request, Fits(q), Judged(q),
           req' = [req EXCEPT ![s] = q],
           UNCHANGED <<today, active, agreements, cohorts, strays, doubled>>
    PROVE  Inv'
<1>1. \A t \in Sessions : req'[t] = IF t = s THEN q ELSE req[t]
  BY DEF Inv, Typed, TypeOK
<1>2. req' \in [Sessions -> Request]
  BY DEF Inv, Typed, TypeOK
<1>3. ASSUME NEW t \in Sessions PROVE Fits(req[t])' /\ Judged(req[t])'
  <2>1. PICK r : r = req'[t]
    OBVIOUS
  <2>2. Fits(r) /\ Judged(r)
    <3>1. CASE t = s
      BY <1>1, <2>1, <3>1
    <3>2. CASE t # s
      BY <1>1, <2>1, <3>2 DEF Inv, Typed
    <3> QED
      BY <3>1, <3>2
  <2>3. Fits(r)' /\ Judged(r)'
    BY <2>2 DEF Fits, Judged, Vacant
  <2> QED
    BY <2>1, <2>3 DEF Fits, Judged, Vacant
<1>4. TypeOK'
  BY <1>2 DEF Inv, Typed, TypeOK
<1>5. OffersStand'
  BY DEF Inv, OffersStand, RetiredIsIdle, OneHeir
<1> QED
  BY <1>3, <1>4, <1>5 DEF Inv, Typed

LEMMA RollbackKeeps ==
    ASSUME Inv, NEW s \in Sessions, Rollback(s)
    PROVE  Inv'
  BY SessionKeeps, IdleFits DEF Rollback

-----------------------------------------------------------------------------
(* Commits. *)

(***************************************************************************)
(* A programme is saved with the flag it was judged to take.               *)
(***************************************************************************)
LEMMA ProgramKeeps ==
    ASSUME Inv, NEW s \in Sessions, WriteProgram(s)
    PROVE  Inv'
<1>0. PICK p : p = req[s].program
  OBVIOUS
<1>1. /\ req[s].op \in ProgramOps /\ Finish(s)
      /\ active' = IF req[s].active THEN active \cup {p} ELSE active \ {p}
      /\ strays' = strays \cup {c \in DOMAIN cohorts : req[s].overtaken /\ cohorts[c].program = p}
      /\ UNCHANGED <<today, agreements, cohorts, doubled>>
  BY <1>0 DEF WriteProgram, ProgramOps
<1>2. p \in Programs
  BY <1>0 DEF Inv, Typed, TypeOK, Request
<1>3. ~req[s].active => Vacant(p)'
  <2>1. CASE req[s].overtaken
    BY <1>1, <2>1 DEF Vacant
  <2>2. CASE ~req[s].overtaken
    BY <1>0, <1>1, <2>2 DEF Inv, Judged, Vacant
  <2> QED
    BY <2>1, <2>2
<1>4. \A q \in Request : Judged(q) /\ ~Outdates(req[s], q) => Judged(q)'
  <2> SUFFICES ASSUME NEW q \in Request, Judged(q), ~q.overtaken, ~Outdates(req[s], q)
               PROVE  Judged(q)'
    BY DEF Judged
  <2>1. q.op \notin ProgramOps \cup {"open"} \/ q.program # p
    BY <1>0, <1>1 DEF Outdates
  <2>2. q.op = "open" => q.program \in active'
    BY <1>1, <2>1 DEF Judged
  <2>3. q.op \in ProgramOps /\ ~q.active => Vacant(q.program)'
    BY <1>1 DEF Judged, Vacant
  <2> QED
    BY <1>1, <2>2, <2>3 DEF Judged
<1>5. RequestsStand'
  BY <1>1, <1>4, CommitKeeps DEF RowsStay
<1>6. TypeOK'
  BY <1>1, <1>2, <1>5 DEF Inv, Typed, TypeOK, RequestsStand
<1>7. RetiredIsIdle'
  BY <1>1, <1>3 DEF Inv, OffersStand, RetiredIsIdle, Vacant
<1>8. OneHeir'
  BY <1>1 DEF Inv, OffersStand, OneHeir
<1> QED
  BY <1>5, <1>6, <1>7, <1>8 DEF Inv, Typed, OffersStand, RequestsStand

LEMMA OpenKeeps ==
    ASSUME Inv, NEW s \in Sessions, OpenCohort(s)
    PROVE  Inv'
<1> DEFINE new == [program |-> req[s].program, agreement |-> req[s].agreement, status |-> "LIVE"]
           n == Len(cohorts) + 1
<1>1. /\ req[s].op = "open" /\ Finish(s) /\ cohorts' = Append(cohorts, new)
      /\ strays' = strays \cup {c \in {n} : req[s].overtaken}
      /\ UNCHANGED <<today, active, agreements, doubled>>
  BY DEF OpenCohort, Serving
<1>2. req[s] \in Request /\ req[s].agreement \in DOMAIN agreements \cup {0}
  BY <1>1 DEF Inv, Typed, TypeOK, Fits
<1>3. new \in Cohort /\ new.program = req[s].program /\ new.agreement = req[s].agreement
  BY <1>2, RequestSpelled DEF Cohort, CohortStatuses
<1> HIDE DEF new
<1>4. /\ cohorts' \in Seq(Cohort) /\ DOMAIN cohorts' = DOMAIN cohorts \cup {n}
      /\ cohorts'[n] = new /\ n \notin DOMAIN cohorts
      /\ \A c \in DOMAIN cohorts : cohorts'[c] = cohorts[c]
  BY <1>1, <1>3, CohortAdded DEF Inv, Typed
<1>5. new.program \in active \/ n \in strays'
  BY <1>1, <1>3 DEF Inv, Judged
<1> HIDE DEF n
<1>6. \A q \in Request : Fits(q) /\ Judged(q) /\ ~Outdates(req[s], q) => Judged(q)'
  <2> SUFFICES ASSUME NEW q \in Request, Fits(q), Judged(q), ~q.overtaken, ~Outdates(req[s], q)
               PROVE  Judged(q)'
    BY DEF Judged
  <2>1. q.op \notin ProgramOps \/ q.program # new.program
    BY <1>1, <1>3 DEF Outdates
  <2>2. q.op \in ProgramOps /\ ~q.active => Vacant(q.program)'
    BY <1>1, <1>4, <2>1 DEF Judged, Vacant
  <2>3. q.op \in CohortOps => cohorts'[q.cohort].status = q.status
    BY <1>4 DEF Judged, Fits
  <2> QED
    BY <1>1, <2>2, <2>3 DEF Judged
<1>7. RequestsStand'
  BY <1>1, <1>4, <1>6, CommitKeeps DEF RowsStay
<1>8. TypeOK'
  BY <1>1, <1>2, <1>3, <1>4, <1>7 DEF Inv, Typed, TypeOK, RequestsStand
<1>9. RetiredIsIdle'
  BY <1>1, <1>4, <1>5 DEF Inv, OffersStand, RetiredIsIdle
<1>10. OneHeir'
  BY <1>1 DEF Inv, OffersStand, OneHeir
<1> QED
  BY <1>7, <1>8, <1>9, <1>10 DEF Inv, Typed, OffersStand, RequestsStand

(***************************************************************************)
(* What an activation writes: two rows, and of them the status alone.      *)
(***************************************************************************)
LEMMA Activation ==
    ASSUME TypeOK, NEW s \in Sessions, Fits(req[s]), ActivateAgreement(s)
    PROVE  LET a == req[s].agreement
               previous == agreements[a].supersedes
           IN  /\ a \in DOMAIN agreements /\ a # previous
               /\ agreements' \in Seq(Agreement) /\ DOMAIN agreements' = DOMAIN agreements
               /\ \A b \in DOMAIN agreements :
                     /\ agreements'[b].partner = agreements[b].partner
                     /\ agreements'[b].from = agreements[b].from
                     /\ agreements'[b].to = agreements[b].to
                     /\ agreements'[b].supersedes = agreements[b].supersedes
                     /\ agreements'[b].status = CASE b = a -> "ACTIVE"
                                                  [] b = previous -> "TERMINATED"
                                                  [] OTHER -> agreements[b].status
               /\ doubled' = doubled \cup {b \in {a} : req[s].overtaken}
               /\ req[s].op = "activate" /\ Finish(s) /\ UNCHANGED <<today, active, cohorts, strays>>
<1> DEFINE a == req[s].agreement
           previous == agreements[a].supersedes
<1>1. /\ req[s].op = "activate" /\ Finish(s) /\ UNCHANGED <<today, active, cohorts, strays>>
      /\ doubled' = doubled \cup {b \in {a} : req[s].overtaken}
      /\ agreements' = [b \in DOMAIN agreements |->
                             CASE b = a -> WithStatus(b, "ACTIVE")
                               [] b = previous -> WithStatus(b, "TERMINATED")
                               [] OTHER -> agreements[b]]
  BY DEF ActivateAgreement, Serving
<1>2. a \in DOMAIN agreements
  BY <1>1 DEF Fits
<1>3. a # previous
  BY <1>2, RowsTyped
<1> HIDE DEF a, previous
<1>4. ASSUME NEW b \in DOMAIN agreements, NEW status \in {"DRAFT", "ACTIVE", "TERMINATED"}
      PROVE  /\ WithStatus(b, status) \in Agreement /\ WithStatus(b, status).status = status
             /\ WithStatus(b, status).partner = agreements[b].partner
             /\ WithStatus(b, status).from = agreements[b].from
             /\ WithStatus(b, status).to = agreements[b].to
             /\ WithStatus(b, status).supersedes = agreements[b].supersedes
  BY RowsTyped DEF WithStatus, Agreement
<1>5. ASSUME NEW b \in DOMAIN agreements
      PROVE  /\ agreements'[b] \in Agreement
             /\ agreements'[b].partner = agreements[b].partner
             /\ agreements'[b].from = agreements[b].from
             /\ agreements'[b].to = agreements[b].to
             /\ agreements'[b].supersedes = agreements[b].supersedes
             /\ agreements'[b].status = CASE b = a -> "ACTIVE"
                                          [] b = previous -> "TERMINATED"
                                          [] OTHER -> agreements[b].status
  <2>1. CASE b = a
    <3>1. agreements'[b] = WithStatus(b, "ACTIVE")
      BY <1>1, <1>3, <2>1
    <3> QED
      BY <1>3, <1>4, <2>1, <3>1
  <2>2. CASE b = previous
    <3>1. agreements'[b] = WithStatus(b, "TERMINATED")
      BY <1>1, <1>3, <2>2
    <3> QED
      BY <1>3, <1>4, <2>2, <3>1
  <2>3. CASE b # a /\ b # previous
    <3>1. agreements'[b] = agreements[b]
      BY <1>1, <2>3
    <3> QED
      BY <2>3, <3>1, RowsTyped
  <2> QED
    BY <2>1, <2>2, <2>3
<1>6. agreements' \in Seq(Agreement)
  <2>1. agreements' = [b \in DOMAIN agreements |-> agreements'[b]]
    BY <1>1
  <2>2. DOMAIN agreements = 1 .. Len(agreements) /\ Len(agreements) \in Nat
    BY RowsTyped
  <2>3. agreements' \in [1 .. Len(agreements) -> Agreement]
    BY <1>5, <2>1, <2>2
  <2> QED
    BY <2>2, <2>3, SeqDef
<1>7. DOMAIN agreements' = DOMAIN agreements
  BY <1>1
<1> QED
  BY <1>1, <1>2, <1>3, <1>5, <1>6, <1>7 DEF a, previous

(***************************************************************************)
(* A predecessor that is still in force has no heir yet, and an activation *)
(* gives it one.                                                           *)
(***************************************************************************)
LEMMA ActivateKeeps ==
    ASSUME Inv, NEW s \in Sessions, ActivateAgreement(s)
    PROVE  Inv'
<1> DEFINE a == req[s].agreement
           previous == agreements[a].supersedes
<1>1. TypeOK /\ Fits(req[s])
  BY DEF Inv, Typed
<1>2. /\ a \in DOMAIN agreements /\ a # previous
      /\ agreements' \in Seq(Agreement) /\ DOMAIN agreements' = DOMAIN agreements
      /\ \A b \in DOMAIN agreements :
            /\ agreements'[b].partner = agreements[b].partner
            /\ agreements'[b].from = agreements[b].from
            /\ agreements'[b].to = agreements[b].to
            /\ agreements'[b].supersedes = agreements[b].supersedes
            /\ agreements'[b].status = CASE b = a -> "ACTIVE"
                                         [] b = previous -> "TERMINATED"
                                         [] OTHER -> agreements[b].status
      /\ doubled' = doubled \cup {b \in {a} : req[s].overtaken}
      /\ req[s].op = "activate" /\ Finish(s) /\ UNCHANGED <<today, active, cohorts, strays>>
  BY <1>1, Activation
<1>3. \/ a \in doubled'
      \/ /\ agreements[a].status = "DRAFT"
         /\ previous # 0 => agreements[previous].status = "ACTIVE"
  BY <1>2 DEF Inv, Judged
<1>4. previous \in DOMAIN agreements \cup {0} /\ 0 \notin DOMAIN agreements
  BY <1>1, <1>2, RowsTyped
<1>5. \A q \in Request : Fits(q) /\ Judged(q) /\ ~Outdates(req[s], q) => Judged(q)'
  <2> SUFFICES ASSUME NEW q \in Request, Fits(q), Judged(q), ~q.overtaken, ~Outdates(req[s], q)
               PROVE  Judged(q)'
    BY DEF Judged
  <2> DEFINE b == q.agreement
             root == agreements[b].supersedes
  <2>1. ASSUME q.op = "activate"
        PROVE  /\ agreements'[b].supersedes = root /\ agreements'[b].status = "DRAFT"
               /\ root # 0 => agreements'[root].status = "ACTIVE"
    <3>1. b \in DOMAIN agreements /\ root \in DOMAIN agreements \cup {0}
      BY <1>1, <2>1, RowsTyped DEF Fits
    <3>2. agreements[b].status = "DRAFT" /\ (root # 0 => agreements[root].status = "ACTIVE")
      BY <2>1 DEF Judged
    <3>3. ({a, previous} \ {0}) \cap ({b, root} \ {0}) = {}
      <4>1. Contracts(req[s]) = {a, previous} \ {0} /\ Contracts(q) = {b, root} \ {0}
        BY DEF Contracts
      <4>2. {req[s].op, q.op} = {"activate"}
        BY <1>2, <2>1
      <4> QED
        BY <4>1, <4>2 DEF Outdates
    <3>4. b # a /\ b # previous
      BY <1>2, <1>4, <3>1, <3>3
    <3>5. root # 0 => root # a /\ root # previous
      BY <3>3
    <3> QED
      BY <1>2, <3>1, <3>2, <3>4, <3>5
  <2>2. /\ q.op \in ProgramOps /\ ~q.active => Vacant(q.program)'
        /\ q.op = "open" => q.program \in active'
        /\ q.op \in CohortOps => cohorts'[q.cohort].status = q.status
    BY <1>2 DEF Judged, Vacant
  <2> QED
    BY <2>1, <2>2 DEF Judged
<1>6. RequestsStand'
  BY <1>2, <1>5, CommitKeeps DEF RowsStay
<1>7. TypeOK'
  <2>1. \A b \in DOMAIN agreements : agreements[b].from < agreements[b].to /\ agreements[b].supersedes < b
    BY <1>1 DEF TypeOK
  <2> QED
    BY <1>1, <1>2, <1>6, <2>1 DEF TypeOK, RequestsStand
<1> HIDE DEF a, previous
<1>8. RetiredIsIdle'
  BY <1>2 DEF Inv, OffersStand, RetiredIsIdle
<1>9. OneHeir'
  <2> SUFFICES ASSUME NEW b \in DOMAIN agreements, agreements'[b].status # "DRAFT",
                      agreements[b].supersedes # 0,
                      agreements[b].supersedes \notin doubled',
                      \A c \in DOMAIN agreements :
                         /\ agreements[c].supersedes = agreements[b].supersedes
                         /\ agreements'[c].status # "DRAFT"
                         => c \notin doubled'
               PROVE  /\ agreements'[agreements[b].supersedes].status = "TERMINATED"
                      /\ \A c \in DOMAIN agreements :
                            /\ agreements[c].supersedes = agreements[b].supersedes
                            /\ agreements'[c].status # "DRAFT"
                            => c = b
    BY <1>2 DEF OneHeir
  <2> DEFINE root == agreements[b].supersedes
  <2>1. root \in DOMAIN agreements /\ root \notin doubled /\ doubled \subseteq doubled'
    BY <1>1, <1>2, RowsTyped
  <2>2. \A c \in DOMAIN agreements : agreements[c].status # "DRAFT" => agreements'[c].status # "DRAFT"
    BY <1>2
  <2>3. \A c \in DOMAIN agreements :
           agreements[c].status # "DRAFT" /\ agreements[c].supersedes = root
           => /\ agreements[root].status = "TERMINATED"
              /\ \A d \in DOMAIN agreements :
                    agreements[d].supersedes = root /\ agreements[d].status # "DRAFT" => d = c
    BY <2>1, <2>2 DEF Inv, OffersStand, OneHeir
  <2>4. CASE root = previous
    <3>1. a \notin doubled'
      BY <1>2, <2>4 DEF previous
    <3>2. agreements[a].status = "DRAFT" /\ agreements[root].status = "ACTIVE"
      BY <1>3, <2>4, <3>1
    <3>3. \A c \in DOMAIN agreements : agreements[c].supersedes = root => agreements[c].status = "DRAFT"
      BY <2>3, <3>2
    <3>4. \A c \in DOMAIN agreements :
             agreements[c].supersedes = root /\ agreements'[c].status # "DRAFT" => c = a
      <4>1. ASSUME NEW c \in DOMAIN agreements, agreements[c].supersedes = root, c # a,
                   agreements'[c].status # "DRAFT"
            PROVE  FALSE
        <5>1. agreements[c].status = "DRAFT"
          BY <3>3, <4>1
        <5>2. c = previous
          BY <1>2, <4>1, <5>1
        <5> QED
          BY <2>4, <3>2, <5>1, <5>2
      <4> QED
        BY <4>1
    <3>5. agreements'[root].status = "TERMINATED"
      BY <1>2, <2>1, <2>4
    <3> QED
      BY <3>4, <3>5
  <2>5. CASE root # previous
    <3>1. b # a
      BY <2>5 DEF previous
    <3>2. root # a
      <4>1. ASSUME root = a PROVE FALSE
        <5>1. agreements[a].status = "DRAFT" /\ (previous # 0 => agreements[previous].status = "ACTIVE")
          BY <1>3, <4>1
        <5>2. agreements[b].status # "DRAFT"
          BY <1>2, <1>4, <3>1, <5>1
        <5> QED
          BY <2>3, <4>1, <5>1, <5>2
      <4> QED
        BY <4>1
    <3>3. \A c \in DOMAIN agreements : agreements[c].supersedes = root => c # a
      BY <2>5 DEF previous
    <3>4. \A c \in DOMAIN agreements :
             agreements[c].supersedes = root /\ agreements'[c].status # "DRAFT"
             => agreements[c].status # "DRAFT"
      <4>1. ASSUME NEW c \in DOMAIN agreements, agreements[c].supersedes = root,
                   agreements'[c].status # "DRAFT", agreements[c].status = "DRAFT"
            PROVE  FALSE
        <5>1. c # a
          BY <3>3, <4>1
        <5>2. c = previous /\ previous # 0
          BY <1>2, <1>4, <4>1, <5>1
        <5> QED
          BY <1>1, <1>2, <4>1, <5>2 DEF Fits, a, previous
      <4> QED
        BY <4>1
    <3>5. agreements'[root].status = agreements[root].status
      BY <1>2, <2>1, <2>5, <3>2
    <3> QED
      BY <2>3, <3>4, <3>5
  <2> QED
    BY <2>4, <2>5
<1> QED
  BY <1>6, <1>7, <1>8, <1>9 DEF Inv, Typed, OffersStand, RequestsStand

(***************************************************************************)
(* A draft changes nothing for anyone.                                     *)
(***************************************************************************)
LEMMA CreateKeeps ==
    ASSUME Inv, AgreementNewView
    PROVE  /\ Inv'
           /\ \A a \in DOMAIN agreements : a \in DOMAIN agreements' /\ agreements'[a] = agreements[a]
<1>1. PICK partner \in Partners, from \in Days, to \in Days, link \in AgreementChoices \cup {0} :
         CreateAgreement(partner, from, to, link)
  BY DEF AgreementNewView
<1> DEFINE new == [partner |-> partner, from |-> from, to |-> to, status |-> "DRAFT",
                   supersedes |-> link]
           n == Len(agreements) + 1
<1>2. TypeOK /\ UNCHANGED <<today, active, cohorts, req, strays, doubled>>
  BY <1>1 DEF Inv, Typed, CreateAgreement
<1>3. link \in DOMAIN agreements \cup {0} /\ link \in Nat /\ link < n
  BY <1>2, RowsTyped DEF AgreementChoices
<1>4. new \in Agreement /\ new.supersedes = link /\ new.status = "DRAFT" /\ new.from < new.to
  BY <1>1, <1>3 DEF Agreement, CreateAgreement, CheckAgreementTerms
<1>5. agreements' = Append(agreements, new)
  BY <1>1 DEF CreateAgreement
<1> HIDE DEF new
<1>6. /\ agreements' \in Seq(Agreement) /\ DOMAIN agreements' = DOMAIN agreements \cup {n}
      /\ n \notin DOMAIN agreements
      /\ \A a \in DOMAIN agreements : agreements'[a] = agreements[a]
      /\ agreements'[n] = new
  BY <1>2, <1>4, <1>5, AgreementAdded
<1>7. \A a \in DOMAIN agreements : agreements[a].supersedes \in DOMAIN agreements \cup {0}
  BY <1>2, RowsTyped
<1> HIDE DEF n
<1>8. \A q \in Request : Fits(q) /\ Judged(q) => Judged(q)'
  <2> SUFFICES ASSUME NEW q \in Request, Fits(q), Judged(q), ~q.overtaken PROVE Judged(q)'
    BY DEF Judged
  <2> DEFINE b == q.agreement
             root == agreements[b].supersedes
  <2>1. ASSUME q.op = "activate"
        PROVE  /\ agreements'[b].supersedes = root /\ agreements'[b].status = "DRAFT"
               /\ root # 0 => agreements'[root].status = "ACTIVE"
    <3>1. /\ b \in DOMAIN agreements /\ agreements[b].status = "DRAFT"
          /\ root # 0 => agreements[root].status = "ACTIVE"
      BY <2>1 DEF Judged, Fits
    <3> QED
      BY <1>6, <1>7, <3>1
  <2>2. /\ q.op \in ProgramOps /\ ~q.active => Vacant(q.program)'
        /\ q.op = "open" => q.program \in active'
        /\ q.op \in CohortOps => cohorts'[q.cohort].status = q.status
    BY <1>2 DEF Judged, Vacant
  <2> QED
    BY <2>1, <2>2 DEF Judged
<1>9. RequestsStand'
  BY <1>2, <1>6, <1>8, QuietKeeps DEF RowsStay
<1>10. TypeOK'
  BY <1>2, <1>3, <1>4, <1>6, <1>9 DEF TypeOK, RequestsStand
<1>11. RetiredIsIdle'
  BY <1>2 DEF Inv, OffersStand, RetiredIsIdle
<1>12. OneHeir'
  <2> SUFFICES ASSUME NEW a \in DOMAIN agreements, agreements[a].status # "DRAFT",
                      agreements[a].supersedes # 0,
                      agreements[a].supersedes \notin doubled,
                      \A b \in DOMAIN agreements :
                         /\ agreements[b].supersedes = agreements[a].supersedes
                         /\ agreements[b].status # "DRAFT"
                         => b \notin doubled
               PROVE  /\ agreements'[agreements[a].supersedes].status = "TERMINATED"
                      /\ \A b \in DOMAIN agreements' :
                            /\ agreements'[b].supersedes = agreements[a].supersedes
                            /\ agreements'[b].status # "DRAFT"
                            => b = a
    BY <1>2, <1>4, <1>6 DEF OneHeir
  <2>1. /\ agreements[agreements[a].supersedes].status = "TERMINATED"
        /\ \A b \in DOMAIN agreements :
              agreements[b].supersedes = agreements[a].supersedes /\ agreements[b].status # "DRAFT" => b = a
    BY DEF Inv, OffersStand, OneHeir
  <2> QED
    BY <1>4, <1>6, <1>7, <2>1
<1> QED
  BY <1>6, <1>9, <1>10, <1>11, <1>12 DEF Inv, Typed, OffersStand, RequestsStand

(***************************************************************************)
(* A cohort is saved as one that nobody need have asked about: of the same *)
(* programme, and not live unless it was, or is a stray.  The requests     *)
(* that have loaded it are told, or find the status they loaded.           *)
(***************************************************************************)
CohortAs(c, new) ==
    /\ c \in DOMAIN cohorts
    /\ new \in Cohort
    /\ cohorts' = [cohorts EXCEPT ![c] = new]
    /\ UNCHANGED <<today, active, agreements, doubled>>
    /\ strays' \subseteq DOMAIN cohorts
    /\ \A d \in strays : d = c \/ d \in strays'
    /\ new.program = cohorts[c].program
    /\ new.agreement \in DOMAIN agreements \cup {0}
    /\ new.status = "LIVE" => c \in strays' \/ (cohorts[c].status = "LIVE" /\ c \notin strays)

LEMMA CohortKeeps ==
    ASSUME Inv, NEW c, NEW new, CohortAs(c, new), RequestsStand'
    PROVE  Inv'
<1>1. /\ cohorts' \in Seq(Cohort) /\ DOMAIN cohorts' = DOMAIN cohorts
      /\ \A d \in DOMAIN cohorts : cohorts'[d] = IF d = c THEN new ELSE cohorts[d]
  BY CohortSaved DEF Inv, Typed, CohortAs
<1>2. TypeOK'
  BY <1>1 DEF Inv, Typed, TypeOK, CohortAs, RequestsStand
<1>3. RetiredIsIdle'
  BY <1>1 DEF Inv, OffersStand, RetiredIsIdle, CohortAs
<1>4. OneHeir'
  BY DEF Inv, OffersStand, OneHeir, CohortAs
<1> QED
  BY <1>2, <1>3, <1>4 DEF Inv, Typed, OffersStand, RequestsStand

LEMMA CohortJudges ==
    ASSUME Inv, NEW c, NEW new, CohortAs(c, new), NEW q \in Request, Judged(q),
           q.op \in CohortOps /\ q.cohort = c => q.overtaken \/ new.status = q.status,
           Fits(q)
    PROVE  Judged(q)'
<1>1. /\ DOMAIN cohorts' = DOMAIN cohorts
      /\ \A d \in DOMAIN cohorts : cohorts'[d] = IF d = c THEN new ELSE cohorts[d]
  BY CohortSaved DEF Inv, Typed, CohortAs
<1> SUFFICES ASSUME ~q.overtaken PROVE Judged(q)'
  BY DEF Judged
<1>2. \A p : Vacant(p) => Vacant(p)'
  BY <1>1 DEF Vacant, CohortAs
<1>3. q.op \in CohortOps => cohorts'[q.cohort].status = q.status
  BY <1>1 DEF Judged, Fits
<1> QED
  BY <1>2, <1>3 DEF Judged, CohortAs

(***************************************************************************)
(* An edit or a start saves the status it was judged by, unless it has     *)
(* been overtaken and makes a stray.                                       *)
(***************************************************************************)
LEMMA WriteCohortKeeps ==
    ASSUME Inv, NEW s \in Sessions, WriteCohort(s)
    PROVE  Inv'
<1> DEFINE c == req[s].cohort
           link == IF req[s].op = "edit" THEN req[s].agreement ELSE cohorts[c].agreement
           new == SavedCohort(cohorts[c], req[s])
<1>1. /\ req[s].op \in CohortOps /\ Finish(s) /\ cohorts' = [cohorts EXCEPT ![c] = new]
      /\ strays' = strays \cup {d \in {c} : req[s].overtaken}
      /\ UNCHANGED <<today, active, agreements, doubled>>
  BY DEF WriteCohort
<1>2. /\ req[s] \in Request /\ c \in DOMAIN cohorts
      /\ req[s].op = "edit" => req[s].agreement \in DOMAIN agreements \cup {0}
  BY <1>1 DEF Inv, Typed, TypeOK, Fits
<1>3. cohorts[c] \in Cohort /\ cohorts[c].agreement \in DOMAIN agreements \cup {0}
  BY <1>2, RowsTyped DEF Inv, Typed, TypeOK
<1>4. link \in DOMAIN agreements \cup {0} /\ link \in Nat
  <2>1. req[s].agreement \in Nat /\ cohorts[c].agreement \in Nat
    BY <1>2, <1>3, RequestSpelled DEF Cohort
  <2> QED
    BY <1>2, <1>3, <2>1
<1>5. new = [program |-> cohorts[c].program, agreement |-> link, status |-> req[s].status]
  BY DEF SavedCohort
<1> HIDE DEF link
<1>6. /\ new \in Cohort /\ new.program = cohorts[c].program /\ new.agreement = link
      /\ new.status = req[s].status
  BY <1>2, <1>3, <1>4, <1>5, RequestSpelled DEF Cohort
<1> HIDE DEF new
<1>7. req[s].overtaken \/ new.status = cohorts[c].status
  BY <1>1, <1>6 DEF Inv, Judged
<1>8. strays \subseteq DOMAIN cohorts
  BY DEF Inv, Typed, TypeOK
<1>9. CohortAs(c, new)
  BY <1>1, <1>2, <1>4, <1>6, <1>7, <1>8 DEF CohortAs
<1>10. \A q \in Request : Fits(q) /\ Judged(q) /\ ~Outdates(req[s], q) => Judged(q)'
  <2> SUFFICES ASSUME NEW q \in Request, Fits(q), Judged(q), ~Outdates(req[s], q)
               PROVE  Judged(q)'
    OBVIOUS
  <2>1. ~(q.op \in CohortOps /\ q.cohort = c)
    BY <1>1 DEF Outdates
  <2> HIDE DEF c
  <2> QED
    BY <1>9, <2>1, CohortJudges
<1>11. RowsStay
  <2>1. DOMAIN cohorts' = DOMAIN cohorts
    BY <1>1
  <2> QED
    BY <1>1, <2>1 DEF RowsStay
<1>12. RequestsStand'
  BY <1>1, <1>10, <1>11, CommitKeeps
<1> QED
  BY <1>9, <1>12, CohortKeeps

LEMMA StatusKeeps ==
    ASSUME Inv, NEW c \in DOMAIN cohorts, NEW status \in CohortStatuses, SetStatus(c, status),
           strays' \subseteq DOMAIN cohorts, \A d \in strays : d = c \/ d \in strays',
           status = "LIVE" => c \in strays' \/ (cohorts[c].status = "LIVE" /\ c \notin strays)
    PROVE  Inv'
<1> DEFINE new == [cohorts[c] EXCEPT !.status = status]
<1>1. cohorts' = [cohorts EXCEPT ![c] = new] /\ UNCHANGED <<today, active, agreements, doubled>>
  BY DEF SetStatus
<1>2. cohorts[c] \in Cohort /\ cohorts[c].agreement \in DOMAIN agreements \cup {0}
  BY RowsTyped DEF Inv, Typed, TypeOK
<1>3. /\ new \in Cohort /\ new.status = status /\ new.program = cohorts[c].program
      /\ new.agreement = cohorts[c].agreement
  BY <1>2 DEF Cohort
<1> HIDE DEF new
<1>4. CohortAs(c, new)
  BY <1>1, <1>2, <1>3 DEF CohortAs
<1>5. /\ req' = [t \in Sessions |-> req'[t]]
      /\ \A t \in Sessions :
            /\ Told(req'[t], req[t])
            /\ ~req'[t].overtaken => ~(req[t].op \in CohortOps /\ req[t].cohort = c)
  BY StatusTells DEF Inv, Typed
<1>6. RowsStay
  <2>1. DOMAIN cohorts' = DOMAIN cohorts
    BY <1>1
  <2> QED
    BY <1>1, <2>1 DEF RowsStay
<1>7. ASSUME NEW t \in Sessions PROVE req'[t] \in Request /\ Fits(req[t])' /\ Judged(req[t])'
  <2>1. PICK q \in Request : q = req[t]
    BY DEF Inv, Typed, TypeOK
  <2>2. Fits(q) /\ Judged(q)
    BY <2>1 DEF Inv, Typed
  <2>3. ~req'[t].overtaken => Judged(q)'
    BY <1>4, <1>5, <2>1, <2>2, CohortJudges
  <2> QED
    BY <1>5, <1>6, <2>1, <2>3, ToldStands
<1>8. RequestsStand'
  BY <1>5, <1>7 DEF RequestsStand
<1> QED
  BY <1>4, <1>8, CohortKeeps

LEMMA DecisionKeeps ==
    ASSUME Inv, NEW c \in DOMAIN cohorts, NEW status \in {"LIVE", "REJECTED"}, RecordDecision(c, status)
    PROVE  Inv'
<1>1. SetStatus(c, status) /\ strays' = strays \cup {d \in {c} : cohorts[c].status # "LIVE"}
  BY DEF RecordDecision
<1>2. status \in CohortStatuses /\ strays \subseteq DOMAIN cohorts
  BY DEF CohortStatuses, Inv, Typed, TypeOK
<1> QED
  BY <1>1, <1>2, StatusKeeps

LEMMA EndKeeps ==
    ASSUME Inv, NEW c \in DOMAIN cohorts, EndCohort(c)
    PROVE  Inv'
<1>1. SetStatus(c, "OVER") /\ strays' = strays \ {c}
  BY DEF EndCohort
<1>2. "OVER" \in CohortStatuses /\ strays \subseteq DOMAIN cohorts
  BY DEF CohortStatuses, Inv, Typed, TypeOK
<1> QED
  BY <1>1, <1>2, StatusKeeps

(***************************************************************************)
(* Midnight leaves what was judged; an activation remembers its day.       *)
(***************************************************************************)
LEMMA MidnightKeeps ==
    ASSUME Inv, NextDay
    PROVE  Inv'
<1>1. /\ today < LastDay /\ today' = today + 1
      /\ UNCHANGED <<active, agreements, cohorts, req, strays, doubled>>
  BY DEF NextDay
<1>2. today' \in Days
  BY <1>1, ConstantsAssumption DEF Inv, Typed, TypeOK, Days
<1>3. RequestsStand'
  BY <1>1, QuietKeeps DEF RowsStay, Judged, Vacant
<1>4. TypeOK'
  BY <1>1, <1>2 DEF Inv, Typed, TypeOK
<1>5. OffersStand'
  BY <1>1 DEF Inv, OffersStand, RetiredIsIdle, OneHeir
<1> QED
  BY <1>3, <1>4, <1>5 DEF Inv, Typed, RequestsStand

-----------------------------------------------------------------------------
(* What is read is judged as it stands. *)

(***************************************************************************)
(* A request that has just been read, spelled out.                         *)
(***************************************************************************)
LEMMA RequestIs ==
    ASSUME NEW op \in Ops, NEW p \in Programs, NEW becomes \in BOOLEAN
    PROVE  /\ OnProgram(op, p, becomes) \in Request
           /\ OnProgram(op, p, becomes).op = op /\ OnProgram(op, p, becomes).program = p
           /\ OnProgram(op, p, becomes).active = becomes
<1> DEFINE idle == Idle
           asking == [idle EXCEPT !.op = op]
           about == [asking EXCEPT !.program = p]
           on == [about EXCEPT !.active = becomes]
<1>1. OnProgram(op, p, becomes) = on
  BY DEF OnProgram
<1>2. idle \in Request
  BY IdleFits
<1> HIDE DEF idle
<1>3. asking \in Request /\ asking.op = op
  BY <1>2 DEF Request
<1> HIDE DEF asking
<1>4. about \in Request /\ about.op = op /\ about.program = p
  BY <1>3 DEF Request
<1> HIDE DEF about
<1>5. on \in Request /\ on.active = becomes
  BY <1>4 DEF Request
<1>6. on.op = op /\ on.program = p
  BY <1>4 DEF Request
<1> QED
  BY <1>1, <1>5, <1>6

LEMMA ReadsKeep ==
    ASSUME Inv, NEW s \in Sessions, NEW p \in Programs,
           ReadUpdateProgram(s, p) \/ ReadToggle(s, p) \/ ReadApproveProgram(s, p)
    PROVE  Inv'
<1>1. PICK op \in ProgramOps, becomes \in BOOLEAN :
         /\ Begin(s, OnProgram(op, p, becomes))
         /\ ~becomes => p \notin active \/ Retirable(p)
  <2>1. CASE ReadUpdateProgram(s, p)
    <3> DEFINE flag == p \in active
    <3>1. flag \in BOOLEAN /\ (~flag => p \notin active) /\ Begin(s, OnProgram("update", p, flag))
      BY <2>1 DEF ReadUpdateProgram
    <3> HIDE DEF flag
    <3> QED
      BY <3>1 DEF ProgramOps
  <2>2. CASE ReadToggle(s, p)
    BY <2>2 DEF ReadToggle, ProgramOps
  <2>3. CASE ReadApproveProgram(s, p)
    BY <2>3 DEF ReadApproveProgram, ProgramOps
  <2> QED
    BY <2>1, <2>2, <2>3
<1> DEFINE q == OnProgram(op, p, becomes)
<1>2. q \in Request /\ q.op = op /\ q.program = p /\ q.active = becomes
  <2>1. op \in Ops
    BY DEF Ops, ProgramOps
  <2> QED
    BY <2>1, RequestIs
<1>3. ~becomes => Vacant(p)
  BY <1>1 DEF Inv, OffersStand, RetiredIsIdle, Retirable, Live, Vacant
<1>4. req' = [req EXCEPT ![s] = q] /\ UNCHANGED <<today, active, agreements, cohorts, strays, doubled>>
  BY <1>1 DEF Begin
<1> HIDE DEF q
<1>5. Fits(q) /\ Judged(q)
  <2>1. op \notin {"open", "edit", "activate"} \cup CohortOps
    BY DEF ProgramOps, CohortOps
  <2> QED
    BY <1>2, <1>3, <2>1 DEF Fits, Judged
<1> QED
  BY <1>2, <1>4, <1>5, SessionKeeps

LEMMA ReadActivateKeeps ==
    ASSUME Inv, NEW s \in Sessions, NEW a \in DOMAIN agreements, ReadActivate(s, a)
    PROVE  Inv'
<1> DEFINE idle == Idle
           asking == [idle EXCEPT !.op = "activate"]
           about == [asking EXCEPT !.agreement = a]
           q == [about EXCEPT !.day = today]
<1>1. req' = [req EXCEPT ![s] = q] /\ UNCHANGED <<today, active, agreements, cohorts, strays, doubled>>
  BY DEF ReadActivate, Begin
<1>2. a \in Nat /\ today \in Days
  BY RowsTyped DEF Inv, Typed, TypeOK
<1>3. idle \in Request
  BY IdleFits
<1> HIDE DEF idle
<1>4. asking \in Request /\ asking.op = "activate"
  BY <1>3 DEF Request, Ops
<1> HIDE DEF asking
<1>5. about \in Request /\ about.op = "activate" /\ about.agreement = a
  BY <1>2, <1>4 DEF Request
<1> HIDE DEF about
<1>6. q \in Request /\ q.op = "activate" /\ q.agreement = a /\ q.day = today
  BY <1>2, <1>5 DEF Request
<1> HIDE DEF q
<1>7. Fits(q) /\ Judged(q)
  BY <1>6 DEF ReadActivate, Activatable, Supersedable, Fits, Judged, ProgramOps, CohortOps
<1> QED
  BY <1>1, <1>6, <1>7, SessionKeeps

LEMMA ReadOpenKeeps ==
    ASSUME Inv, NEW s \in Sessions, NEW p \in Programs, NEW a \in DOMAIN agreements \cup {0},
           NEW starts \in Days, ReadOpenCohort(s, p, a, starts)
    PROVE  Inv'
<1> DEFINE q == [OnProgram("open", p, TRUE) EXCEPT !.agreement = a]
<1>1. req' = [req EXCEPT ![s] = q] /\ UNCHANGED <<today, active, agreements, cohorts, strays, doubled>>
  BY DEF ReadOpenCohort, Begin
<1>2. a \in Nat /\ p \in active
  BY RowsTyped DEF Inv, Typed, ReadOpenCohort
<1>3. q \in Request /\ q.op = "open" /\ q.program = p /\ q.agreement = a
  <2> DEFINE op == "open"
             becomes == TRUE
             r == OnProgram(op, p, becomes)
  <2>1. op \in Ops /\ becomes \in BOOLEAN
    BY DEF Ops
  <2>2. q = [r EXCEPT !.agreement = a]
    OBVIOUS
  <2> HIDE DEF op, becomes, q
  <2>3. r \in Request /\ r.op = op /\ r.program = p
    BY <2>1, RequestIs
  <2> HIDE DEF r
  <2>4. q \in Request /\ q.op = op /\ q.program = p /\ q.agreement = a
    BY <1>2, <2>2, <2>3 DEF Request
  <2> QED
    BY <2>4 DEF op
<1> HIDE DEF q
<1>4. Fits(q) /\ Judged(q)
  BY <1>2, <1>3 DEF Fits, Judged, ProgramOps, CohortOps
<1> QED
  BY <1>1, <1>3, <1>4, SessionKeeps

LEMMA OnCohortIs ==
    ASSUME TypeOK, NEW c \in DOMAIN cohorts, NEW op \in CohortOps
    PROVE  /\ OnCohort(op, c) \in Request
           /\ OnCohort(op, c).op = op /\ OnCohort(op, c).cohort = c
           /\ OnCohort(op, c).status = cohorts[c].status
<1> DEFINE idle == Idle
           asking == [idle EXCEPT !.op = op]
           about == [asking EXCEPT !.program = cohorts[c].program]
           of == [about EXCEPT !.cohort = c]
           q == [of EXCEPT !.status = cohorts[c].status]
<1>1. OnCohort(op, c) = q
  BY DEF OnCohort
<1>2. idle \in Request /\ op \in Ops
  BY IdleFits DEF Ops
<1>3. /\ cohorts[c].program \in Programs /\ cohorts[c].status \in CohortStatuses /\ c \in Nat
  BY LenProperties, RowsTyped DEF Cohort, TypeOK
<1> HIDE DEF idle
<1>4. asking \in Request /\ asking.op = op
  BY <1>2 DEF Request
<1> HIDE DEF asking
<1>5. about \in Request /\ about.op = op
  BY <1>3, <1>4 DEF Request
<1> HIDE DEF about
<1>6. of \in Request /\ of.op = op /\ of.cohort = c
  BY <1>3, <1>5 DEF Request
<1> HIDE DEF of
<1>7. q \in Request /\ q.op = op /\ q.cohort = c /\ q.status = cohorts[c].status
  BY <1>3, <1>6 DEF Request
<1> QED
  BY <1>1, <1>7

LEMMA ReadCohortKeeps ==
    ASSUME Inv, NEW s \in Sessions, NEW c \in DOMAIN cohorts,
           ReadStartCohort(s, c) \/ \E a \in AgreementChoices \cup {0} : ReadUpdateCohort(s, c, a)
    PROVE  Inv'
<1>1. TypeOK /\ "edit" \in CohortOps /\ "start" \in CohortOps
  BY DEF Inv, Typed, CohortOps
<1>2. PICK q \in Request :
         /\ Begin(s, q) /\ q.op \in CohortOps /\ q.cohort = c /\ q.status = cohorts[c].status
         /\ q.op = "edit" => q.agreement \in DOMAIN agreements \cup {0}
  <2>1. CASE ReadStartCohort(s, c)
    <3> DEFINE r == OnCohort("start", c)
    <3>1. Begin(s, r)
      BY <2>1 DEF ReadStartCohort
    <3>2. r \in Request /\ r.op = "start" /\ r.cohort = c /\ r.status = cohorts[c].status
      BY <1>1, OnCohortIs
    <3> HIDE DEF r
    <3> QED
      BY <1>1, <3>1, <3>2
  <2>2. ASSUME NEW a \in AgreementChoices \cup {0}, ReadUpdateCohort(s, c, a)
        PROVE  \E q \in Request :
                  /\ Begin(s, q) /\ q.op \in CohortOps /\ q.cohort = c /\ q.status = cohorts[c].status
                  /\ q.op = "edit" => q.agreement \in DOMAIN agreements \cup {0}
    <3> DEFINE r == OnCohort("edit", c)
               under == [r EXCEPT !.agreement = a]
    <3>1. Begin(s, under)
      BY <2>2 DEF ReadUpdateCohort
    <3>2. r \in Request /\ r.op = "edit" /\ r.cohort = c /\ r.status = cohorts[c].status
      BY <1>1, OnCohortIs
    <3>3. a \in DOMAIN agreements \cup {0} /\ a \in Nat
      BY <1>1, RowsTyped DEF AgreementChoices
    <3> HIDE DEF r
    <3>4. /\ under \in Request /\ under.op = "edit" /\ under.cohort = c
          /\ under.status = cohorts[c].status /\ under.agreement = a
      BY <3>2, <3>3 DEF Request
    <3> HIDE DEF under
    <3> QED
      BY <1>1, <3>1, <3>3, <3>4
  <2> QED
    BY <2>1, <2>2
<1>3. Fits(q) /\ Judged(q)
  <2>1. q.op \notin {"open", "activate"} \cup ProgramOps
    BY <1>2 DEF CohortOps, ProgramOps
  <2> QED
    BY <1>2, <2>1 DEF Fits, Judged
<1> QED
  BY <1>2, <1>3, SessionKeeps DEF Begin

-----------------------------------------------------------------------------
LEMMA StepKeeps ==
    ASSUME Inv, [Next]_vars
    PROVE  Inv'
<1>1. CASE UNCHANGED vars
  BY <1>1 DEF vars, Inv, Typed, TypeOK, Fits, Judged, Vacant, OffersStand, RetiredIsIdle, OneHeir
<1>2. ASSUME NEW c \in DOMAIN cohorts,
             \/ \E status \in {"LIVE", "REJECTED"} : RecordDecision(c, status)
             \/ EndCohort(c)
      PROVE  Inv'
  BY <1>2, DecisionKeeps, EndKeeps
<1>3. ASSUME NEW s \in Sessions,
             HandleProgramAction(s) \/ AgreementActivateView(s) \/ CohortsView(s) \/ Rollback(s)
      PROVE  Inv'
  BY <1>3, ReadsKeep, ProgramKeeps, ReadActivateKeeps, ActivateKeeps, ReadOpenKeeps, OpenKeeps,
     ReadCohortKeeps, WriteCohortKeeps, RollbackKeeps
     DEF HandleProgramAction, AgreementActivateView, CohortsView
<1> QED
  BY <1>1, <1>2, <1>3, MidnightKeeps, CreateKeeps DEF Next

LEMMA StartsRight == Init => Inv
<1> SUFFICES ASSUME Init PROVE Inv
  OBVIOUS
<1>1. \A s \in Sessions : req[s] = Idle
  BY DEF Init
<1>2. agreements \in Seq(Agreement) /\ cohorts \in Seq(Cohort) /\ DOMAIN agreements = {} /\ DOMAIN cohorts = {}
  BY EmptySeq DEF Init
<1>3. req \in [Sessions -> Request]
  BY <1>1, IdleFits DEF Init
<1>4. 1 \in Days
  BY ConstantsAssumption DEF Days
<1>5. TypeOK
  BY <1>2, <1>3, <1>4 DEF Init, TypeOK
<1>6. OffersStand
  BY <1>2 DEF OffersStand, RetiredIsIdle, OneHeir
<1> QED
  BY <1>1, <1>5, <1>6, IdleFits DEF Inv, Typed

LEMMA Invariant == Spec => []Inv
  BY StartsRight, StepKeeps, PTL DEF Spec

-----------------------------------------------------------------------------
(* The theorems. *)

(***************************************************************************)
(* Every variable keeps its type: the window of an agreement is never      *)
(* empty, it names only an earlier one, and a cohort only one that exists. *)
(***************************************************************************)
THEOREM TypeCorrect == Spec => []TypeOK
<1>1. Inv => TypeOK
  BY DEF Inv, Typed
<1> QED
  BY <1>1, Invariant, PTL

(***************************************************************************)
(* What is offered stands on something, for any number of programmes,      *)
(* agreements, cohorts and requests: no cohort but a stray runs on a       *)
(* retired programme, and one agreement alone takes the place of another,  *)
(* unless one of these was activated by a request that another had         *)
(* overtaken.                                                              *)
(***************************************************************************)
THEOREM NothingStrands == Spec => []OffersStand
<1>1. Inv => OffersStand
  BY DEF Inv
<1> QED
  BY <1>1, Invariant, PTL

(***************************************************************************)
(* An activation that ends an agreement puts one of the same partner in    *)
(* its place on the same day, or one that opens later.                     *)
(***************************************************************************)
LEMMA StepKeepsPartners ==
    ASSUME Inv, [Next]_vars
    PROVE  [\/ Partnered(today) \subseteq Partnered(today)'
            \/ \E s \in Sessions :
                  /\ Serving(s, "activate") /\ req'[s] = Idle
                  /\ agreements[req[s].agreement].from > today \/ req[s].day # today]_agreements
<1> SUFFICES ASSUME agreements' # agreements,
                    \A s \in Sessions :
                       Serving(s, "activate") /\ req'[s] = Idle
                       => ~(agreements[req[s].agreement].from > today) /\ req[s].day = today,
                    NEW k \in DOMAIN agreements, IsAvailableOn(k, today)
             PROVE  \E a \in DOMAIN agreements' :
                       /\ IsAvailableOn(a, today)'
                       /\ agreements'[a].partner = agreements[k].partner
  BY DEF Partnered
<1>1. TypeOK
  BY DEF Inv, Typed
<1>2. ASSUME AgreementNewView
      PROVE  /\ k \in DOMAIN agreements' /\ IsAvailableOn(k, today)'
             /\ agreements'[k].partner = agreements[k].partner
  <2>1. UNCHANGED today
    BY <1>2 DEF AgreementNewView, CreateAgreement
  <2> QED
    BY <1>2, <2>1, CreateKeeps DEF IsAvailableOn, Covers
<1>3. ASSUME NEW s \in Sessions, ActivateAgreement(s)
      PROVE  \E a \in DOMAIN agreements' :
                IsAvailableOn(a, today)' /\ agreements'[a].partner = agreements[k].partner
  <2> DEFINE a == req[s].agreement
             previous == agreements[a].supersedes
  <2>1. Fits(req[s])
    BY DEF Inv, Typed
  <2>2. /\ a \in DOMAIN agreements /\ a # previous /\ DOMAIN agreements' = DOMAIN agreements
        /\ \A b \in DOMAIN agreements :
              /\ agreements'[b].partner = agreements[b].partner
              /\ agreements'[b].from = agreements[b].from
              /\ agreements'[b].to = agreements[b].to
              /\ agreements'[b].status = CASE b = a -> "ACTIVE"
                                           [] b = previous -> "TERMINATED"
                                           [] OTHER -> agreements[b].status
        /\ req[s].op = "activate" /\ Finish(s) /\ UNCHANGED today
    BY <1>1, <1>3, <2>1, Activation
  <2>3. /\ agreements[a].to >= today /\ agreements[a].from <= today
        /\ previous # 0 => agreements[previous].partner = agreements[a].partner
    <3>1. ~(agreements[a].from > today) /\ req[s].day = today
      BY <1>1, <2>2, FinishTells DEF Serving
    <3>2. agreements[a].from \in Nat /\ today \in Nat
      BY <1>1, <2>2, RowsTyped
    <3> QED
      BY <2>1, <2>2, <3>1, <3>2 DEF Fits
  <2> HIDE DEF a, previous
  <2>4. CASE k # previous
    <3>1. IsAvailableOn(k, today)'
      BY <2>2, <2>3, <2>4 DEF IsAvailableOn, Covers
    <3> QED
      BY <2>2, <3>1
  <2>5. CASE k = previous
    <3>1. agreements'[a].status = "ACTIVE"
      BY <2>2
    <3>3. PICK b \in DOMAIN agreements : b = a
      BY <2>2
    <3>4. IsAvailableOn(b, today)'
      BY <2>2, <2>3, <3>1, <3>3 DEF IsAvailableOn, Covers
    <3>5. k # 0
      BY <1>1, RowsTyped
    <3> QED
      BY <2>2, <2>3, <2>5, <3>3, <3>4, <3>5
  <2> QED
    BY <2>4, <2>5
<1>4. AgreementNewView \/ \E s \in Sessions : ActivateAgreement(s)
  <2>1. ~NextDay
    BY DEF NextDay
  <2>2. \A c \in DOMAIN cohorts : ~EndCohort(c) /\ \A status : ~RecordDecision(c, status)
    BY DEF RecordDecision, EndCohort, SetStatus
  <2>3. \A s \in Sessions : ~HandleProgramAction(s) /\ ~CohortsView(s) /\ ~Rollback(s)
    BY DEF HandleProgramAction, ReadUpdateProgram, ReadToggle, ReadApproveProgram, WriteProgram,
           CohortsView, ReadOpenCohort, OpenCohort, ReadUpdateCohort, ReadStartCohort, WriteCohort,
           Rollback, Begin
  <2>4. \A s \in Sessions : AgreementActivateView(s) => ActivateAgreement(s)
    BY DEF AgreementActivateView, ReadActivate, Begin
  <2> QED
    BY <2>1, <2>2, <2>3, <2>4 DEF Next, vars
<1> QED
  BY <1>2, <1>3, <1>4

(***************************************************************************)
(* A partner that is under an agreement stays under one, whatever is       *)
(* drafted or activated and however requests overlap, except by an         *)
(* appendix that opens later, and by one that was judged before midnight.  *)
(***************************************************************************)
THEOREM PartnersStay == Spec => StaysPartnered
<1>1. Spec => []Inv /\ [][Next]_vars
  BY Invariant, PTL DEF Spec
<1> QED
  BY <1>1, StepKeepsPartners, PTL DEF StaysPartnered

-----------------------------------------------------------------------------
(* Price lists and quotes, for every set of programmes, semesters, fees and *)
(* requests in flight, and any number of days, lists and enrolments.        *)

(***************************************************************************)
(* The columns a request was loaded with, always those of a draft.         *)
(***************************************************************************)
DraftColumns == [semester : Semesters, from : PriceDays, status : {"DRAFT"}]

(***************************************************************************)
(* A request in flight.  What row holds depends on what it is about.       *)
(***************************************************************************)
IsRequest(q) ==
    /\ q = [op |-> q.op, list |-> q.list, program |-> q.program, row |-> q.row,
            overtaken |-> q.overtaken]
    /\ q.op \in ListOps \cup {"enrol", "idle"}
    /\ q.list \in DOMAIN lists \cup {0}
    /\ q.program \in Levels
    /\ q.overtaken \in BOOLEAN

CatalogueFits(q) ==
    /\ q.op # "idle" => q.list \in DOMAIN lists
    /\ q.op \in {"edit", "approve"} => q.row \in DraftColumns
    /\ q.op \in {"price", "unprice"} => q.row \in Fees \cup {0}
    /\ q.op \in {"rule", "unrule"} => q.row \in Scopes
    /\ q.op = "enrol" => q.row \in Quote /\ q.row.list = q.list

CatalogueTyped ==
    /\ CatalogueTypeOK
    /\ task = [s \in Workers |-> task[s]]
    /\ \A s \in Workers : IsRequest(task[s]) /\ CatalogueFits(task[s])

(***************************************************************************)
(* The list a quote names still says what was quoted.                      *)
(***************************************************************************)
Stands(quote) ==
    /\ lists[quote.list].status # "DRAFT"
    /\ lists[quote.list].from <= quote.on
    /\ lists[quote.list].fee[quote.program] = quote.fee
    /\ {quote.rule} = RegistrationFee(quote.program, quote.list)

Kept(quote) == quote.list \in overwritten \/ Stands(quote)

(***************************************************************************)
(* What a request was judged by is still so, unless an approval has        *)
(* overtaken it.                                                           *)
(***************************************************************************)
CatalogueJudged(q) ==
    /\ q.op \in ListOps /\ ~q.overtaken => lists[q.list].status = "DRAFT"
    /\ q.op = "enrol" => Kept(q.row)

CatalogueInv ==
    /\ CatalogueTyped
    /\ QuotesStand
    /\ \A s \in Workers : CatalogueJudged(task[s])

-----------------------------------------------------------------------------
(* The list in force. *)

LEMMA ListsTyped ==
    ASSUME lists \in Seq(PriceList)
    PROVE  /\ DOMAIN lists = 1 .. Len(lists) /\ Len(lists) \in Nat
           /\ \A l \in DOMAIN lists : /\ l \in Nat \ {0} /\ lists[l] \in PriceList
                                     /\ lists[l].from \in Nat
<1>1. \A d \in PriceDays : d \in Nat
  BY CatalogueAssumption DEF PriceDays
<1>2. DOMAIN lists = 1 .. Len(lists) /\ Len(lists) \in Nat /\ \A l \in DOMAIN lists : lists[l] \in PriceList
  BY LenProperties
<1>3. \A l \in DOMAIN lists : lists[l].from \in PriceDays
  BY <1>2 DEF PriceList
<1> QED
  BY <1>1, <1>2, <1>3

(***************************************************************************)
(* Of two lists one comes before the other, so one at most is in force.    *)
(***************************************************************************)
LEMMA OneInForce ==
    ASSUME lists \in Seq(PriceList), NEW on \in PriceDays,
           NEW l \in InForce(on), NEW m \in InForce(on)
    PROVE  l = m
  BY ListsTyped DEF InForce, Approved

(***************************************************************************)
(* Of the lists that have begun one is in force: the one with the fewest   *)
(* before it.                                                              *)
(***************************************************************************)
LEMMA SomeInForce ==
    ASSUME lists \in Seq(PriceList), NEW on \in PriceDays, Approved(on) # {}
    PROVE  InForce(on) # {}
<1> DEFINE Beats(m, l) == \/ lists[m].from > lists[l].from
                          \/ lists[m].from = lists[l].from /\ m > l
           Above(l) == {m \in Approved(on) : Beats(m, l)}
           all == DOMAIN lists
           heads == {Above(l) : l \in Approved(on)}
<1>1. \A l \in Approved(on) : l \in DOMAIN lists /\ l \in Nat /\ lists[l].from \in Nat
  BY ListsTyped DEF Approved
<1>2. IsFiniteSet(all)
  BY ListsTyped, FS_Interval
<1>3. heads \in SUBSET SUBSET all /\ heads # {}
  BY <1>1
<1>4. PICK l \in Approved(on) : \A m \in Approved(on) : Above(m) \subseteq Above(l) => Above(m) = Above(l)
  <2>1. PICK x \in heads : \A y \in heads : y \subseteq x => y = x
    <3> HIDE DEF all, heads
    <3> QED
      BY <1>2, <1>3, SmallestSet
  <2> HIDE DEF Above
  <2> QED
    BY <2>1
<1>5. ASSUME NEW m \in Above(l) PROVE FALSE
  <2>1. m \in Approved(on) /\ Beats(m, l)
    OBVIOUS
  <2>2. Above(m) \subseteq Above(l)
    BY <1>1, <2>1
  <2>3. m \notin Above(m)
    BY <1>1, <2>1
  <2> QED
    BY <1>4, <1>5, <2>1, <2>2, <2>3
<1>6. \A m \in Approved(on) \ {l} : Beats(l, m)
  BY <1>1, <1>5
<1> QED
  BY <1>6 DEF InForce

BegunIsInForce == \A on \in PriceDays : Approved(on) # {} => InForce(on) # {}

LEMMA ListsInForce == CatalogueTypeOK => BegunIsInForce
  BY SomeInForce DEF BegunIsInForce, CatalogueTypeOK

(***************************************************************************)
(* A price that is quoted stands on the list it was read from.             *)
(***************************************************************************)
LEMMA QuoteStands ==
    ASSUME CatalogueTypeOK, NEW p \in Levels, NEW on \in PriceDays, NEW quote \in ResolvePrice(p, on)
    PROVE  quote \in Quote /\ quote.list \in DOMAIN lists /\ Stands(quote)
<1>1. PICK l \in {m \in InForce(on) : Priced(p, m)},
           r \in UNION {RegistrationFee(p, m) : m \in InForce(on)} :
         quote = [program |-> p, list |-> l, on |-> on, fee |-> lists[l].fee[p], rule |-> r]
  BY DEF ResolvePrice
<1>2. r \in RegistrationFee(p, l)
  BY <1>1, OneInForce DEF CatalogueTypeOK
<1>3. {r} = RegistrationFee(p, l) /\ r \in Scopes
  BY <1>2 DEF RegistrationFee, Scopes
<1>4. /\ l \in DOMAIN lists /\ lists[l].status = "APPROVED" /\ lists[l].from <= on
      /\ lists[l].fee[p] # 0
  BY <1>1 DEF InForce, Approved, Priced
<1>5. lists[l].fee[p] \in Fees /\ l \in Nat \ {0}
  BY <1>4, ListsTyped DEF CatalogueTypeOK, PriceList
<1> QED
  BY <1>1, <1>3, <1>4, <1>5 DEF Quote, Stands

-----------------------------------------------------------------------------
(* Requests. *)

LEMMA CatalogueIdleFits == IsRequest(NoTask) /\ CatalogueFits(NoTask) /\ CatalogueJudged(NoTask) /\ NoTask.op = "idle"
  BY CatalogueAssumption DEF NoTask, IsRequest, CatalogueFits, CatalogueJudged, ListOps

(***************************************************************************)
(* A request begins with what it has just read, and touches no row.        *)
(***************************************************************************)
LEMMA BeginKeeps ==
    ASSUME CatalogueInv, NEW s \in Workers, NEW q, IsRequest(q), CatalogueFits(q), CatalogueJudged(q), Start(s, q)
    PROVE  CatalogueInv'
<1>1. UNCHANGED <<lists, quotes, overwritten>> /\ task' = [task EXCEPT ![s] = q]
  BY DEF Start
<1>2. task' = [t \in Workers |-> IF t = s THEN q ELSE task[t]]
  BY <1>1 DEF CatalogueInv, CatalogueTyped
<1>3. \A t \in Workers : task'[t] = IF t = s THEN q ELSE task[t]
  BY <1>2
<1>4. (\A t \in Workers : IsRequest(task[t]) /\ CatalogueFits(task[t]))'
  BY <1>1, <1>3 DEF CatalogueInv, CatalogueTyped, IsRequest, CatalogueFits
<1>5. CatalogueTypeOK'
  BY <1>1, <1>4 DEF CatalogueInv, CatalogueTyped, CatalogueTypeOK, IsRequest
<1>6. QuotesStand'
  BY <1>1 DEF CatalogueInv, QuotesStand, RegistrationFee
<1>7. ASSUME NEW t \in Workers PROVE CatalogueJudged(task[t])'
  <2>1. CatalogueJudged(q) /\ CatalogueJudged(task[t])
    BY DEF CatalogueInv
  <2>2. CASE t = s
    BY <1>1, <1>3, <2>1, <2>2 DEF CatalogueJudged, Kept, Stands, RegistrationFee
  <2>3. CASE t # s
    BY <1>1, <1>3, <2>1, <2>3 DEF CatalogueJudged, Kept, Stands, RegistrationFee
  <2> QED
    BY <2>2, <2>3
<1> QED
  BY <1>2, <1>4, <1>5, <1>6, <1>7 DEF CatalogueInv, CatalogueTyped

LEMMA CatalogueRollbackKeeps ==
    ASSUME CatalogueInv, NEW s \in Workers, Abandon(s)
    PROVE  CatalogueInv'
<1>1. UNCHANGED <<lists, quotes, overwritten>> /\ task' = [task EXCEPT ![s] = NoTask]
  BY DEF Abandon
<1>2. task' = [t \in Workers |-> IF t = s THEN NoTask ELSE task[t]]
  BY <1>1 DEF CatalogueInv, CatalogueTyped
<1>3. \A t \in Workers : task'[t] = IF t = s THEN NoTask ELSE task[t]
  BY <1>2
<1>4. (\A t \in Workers : IsRequest(task[t]) /\ CatalogueFits(task[t]))'
  BY <1>1, <1>3, CatalogueIdleFits DEF CatalogueInv, CatalogueTyped, IsRequest, CatalogueFits
<1>5. CatalogueTypeOK'
  BY <1>1, <1>4 DEF CatalogueInv, CatalogueTyped, CatalogueTypeOK, IsRequest
<1>6. QuotesStand'
  BY <1>1 DEF CatalogueInv, QuotesStand, RegistrationFee
<1>7. ASSUME NEW t \in Workers PROVE CatalogueJudged(task[t])'
  <2>1. CatalogueJudged(task[t])
    BY DEF CatalogueInv
  <2>2. CASE t = s
    BY <1>3, <2>2, CatalogueIdleFits DEF CatalogueJudged, ListOps
  <2>3. CASE t # s
    BY <1>1, <1>3, <2>1, <2>3 DEF CatalogueJudged, Kept, Stands, RegistrationFee
  <2> QED
    BY <2>2, <2>3
<1> QED
  BY <1>2, <1>4, <1>5, <1>6, <1>7 DEF CatalogueInv, CatalogueTyped

(***************************************************************************)
(* q is r, but for having been overtaken.                                  *)
(***************************************************************************)
Follows(q, r) ==
    /\ q = [op |-> q.op, list |-> q.list, program |-> q.program, row |-> q.row,
            overtaken |-> q.overtaken]
    /\ q.op = r.op /\ q.list = r.list /\ q.program = r.program /\ q.row = r.row

(***************************************************************************)
(* What a commit leaves of the requests in flight, when no row goes.       *)
(***************************************************************************)
LEMMA CatalogueFinishTells ==
    ASSUME CatalogueTyped, NEW s \in Workers, Complete(s)
    PROVE  /\ task' = [t \in Workers |-> task'[t]]
           /\ overwritten \subseteq overwritten' /\ overwritten' \subseteq overwritten \cup {task[s].list}
           /\ task[s].overtaken => task[s].list \in overwritten'
           /\ \A t \in Workers :
                 \/ task'[t] = NoTask
                 \/ /\ Follows(task'[t], task[t])
                    /\ task'[t].overtaken \in BOOLEAN
                    /\ ~task'[t].overtaken => ~task[t].overtaken /\ ~Overtakes(task[s], task[t])
<1>1. task' = [t \in Workers |->
                IF t = s THEN NoTask
                ELSE [task[t] EXCEPT !.overtaken = @ \/ Overtakes(task[s], task[t])]]
  BY DEF Complete
<1>2. ASSUME NEW t \in Workers, t # s
      PROVE  /\ Follows(task'[t], task[t])
             /\ task'[t].overtaken \in BOOLEAN
             /\ ~task'[t].overtaken => ~task[t].overtaken /\ ~Overtakes(task[s], task[t])
  <2> DEFINE o == task[t].overtaken \/ Overtakes(task[s], task[t])
  <2>1. task'[t] = [task[t] EXCEPT !.overtaken = o]
    BY <1>1, <1>2
  <2>2. /\ task[t] = [op |-> task[t].op, list |-> task[t].list, program |-> task[t].program,
                     row |-> task[t].row, overtaken |-> task[t].overtaken]
        /\ task[t].overtaken \in BOOLEAN
    BY DEF CatalogueTyped, IsRequest
  <2>3. o \in BOOLEAN
    BY <2>2
  <2>4. ~o => ~task[t].overtaken /\ ~Overtakes(task[s], task[t])
    OBVIOUS
  <2> HIDE DEF o
  <2>5. task'[t] = [op |-> task[t].op, list |-> task[t].list, program |-> task[t].program,
                   row |-> task[t].row, overtaken |-> o]
    BY <2>1, <2>2
  <2>6. task'[t].overtaken = o /\ Follows(task'[t], task[t])
    BY <2>5 DEF Follows
  <2> QED
    BY <2>3, <2>4, <2>6
<1>3. \A t \in Workers : t = s => task'[t] = NoTask
  BY <1>1
<1> QED
  BY <1>1, <1>2, <1>3 DEF Complete, CatalogueTyped, CatalogueTypeOK, IsRequest

(***************************************************************************)
(* The requests in flight survive a commit after which every list is still *)
(* there, and those judged by an editable list are either told or right.   *)
(***************************************************************************)
LEMMA CatalogueCommitKeeps ==
    ASSUME CatalogueInv, NEW s \in Workers, Complete(s), DOMAIN lists \subseteq DOMAIN lists',
           task[s].list \in DOMAIN lists,
           \A quote : quote.list \in DOMAIN lists /\ Kept(quote) => Kept(quote)',
           \A q : /\ q.list \in DOMAIN lists /\ q.op \in ListOps
                  /\ lists[q.list].status = "DRAFT" /\ ~Overtakes(task[s], q)
                  => lists'[q.list].status = "DRAFT"
    PROVE  /\ task' = [t \in Workers |-> task'[t]] /\ overwritten' \subseteq DOMAIN lists'
           /\ \A t \in Workers : /\ IsRequest(task[t])' /\ CatalogueFits(task[t])'
                                 /\ CatalogueJudged(task[t])'
<1>1. ASSUME NEW t \in Workers
      PROVE  \/ task'[t] = NoTask
             \/ /\ Follows(task'[t], task[t])
                /\ task'[t].overtaken \in BOOLEAN
                /\ ~task'[t].overtaken => ~task[t].overtaken /\ ~Overtakes(task[s], task[t])
  BY CatalogueFinishTells DEF CatalogueInv
<1>2. ASSUME NEW t \in Workers PROVE IsRequest(task[t])' /\ CatalogueFits(task[t])'
  <2>1. CASE task'[t] = NoTask
    BY <2>1, CatalogueAssumption DEF NoTask, IsRequest, CatalogueFits, ListOps
  <2>2. CASE task'[t] # NoTask
    <3>1. IsRequest(task[t]) /\ CatalogueFits(task[t])
      BY DEF CatalogueInv, CatalogueTyped
    <3>2. Follows(task'[t], task[t]) /\ task'[t].overtaken \in BOOLEAN
      BY <1>1, <2>2
    <3> QED
      BY <3>1, <3>2 DEF Follows, IsRequest, CatalogueFits
  <2> QED
    BY <2>1, <2>2
<1>3. ASSUME NEW t \in Workers PROVE CatalogueJudged(task[t])'
  <2>1. CASE task'[t] = NoTask
    BY <2>1 DEF NoTask, CatalogueJudged, ListOps
  <2>2. CASE task'[t] # NoTask
    <3>1. CatalogueFits(task[t]) /\ CatalogueJudged(task[t])
      BY DEF CatalogueInv, CatalogueTyped
    <3>2. /\ task'[t].op = task[t].op /\ task'[t].list = task[t].list /\ task'[t].row = task[t].row
          /\ ~task'[t].overtaken => ~task[t].overtaken /\ ~Overtakes(task[s], task[t])
      BY <1>1, <2>2 DEF Follows
    <3>3. ASSUME task[t].op \in ListOps, ~task'[t].overtaken PROVE lists'[task[t].list].status = "DRAFT"
      BY <3>1, <3>2, <3>3 DEF CatalogueJudged, CatalogueFits, ListOps
    <3>4. ASSUME task[t].op = "enrol" PROVE Kept(task[t].row)'
      <4>1. PICK quote : quote = task[t].row
        OBVIOUS
      <4>2. Kept(quote)'
        BY <3>1, <3>4, <4>1 DEF CatalogueJudged, CatalogueFits, Quote
      <4> QED
        BY <3>2, <4>1, <4>2
    <3> QED
      BY <3>2, <3>3, <3>4 DEF CatalogueJudged
  <2> QED
    BY <2>1, <2>2
<1>4. overwritten' \subseteq DOMAIN lists'
  <2>1. overwritten' \subseteq overwritten \cup {task[s].list}
    BY CatalogueFinishTells DEF CatalogueInv
  <2>2. overwritten \subseteq DOMAIN lists
    BY DEF CatalogueInv, CatalogueTyped, CatalogueTypeOK
  <2> QED
    BY <2>1, <2>2
<1> QED
  BY <1>2, <1>3, <1>4, CatalogueFinishTells DEF CatalogueInv

-----------------------------------------------------------------------------
(* Commits. *)

LEMMA ListSaved ==
    ASSUME lists \in Seq(PriceList), NEW l \in DOMAIN lists, NEW new \in PriceList,
           lists' = [lists EXCEPT ![l] = new]
    PROVE  /\ lists' \in Seq(PriceList) /\ DOMAIN lists' = DOMAIN lists
           /\ \A m \in DOMAIN lists : lists'[m] = IF m = l THEN new ELSE lists[m]
  BY ExceptSeq, LenProperties

(***************************************************************************)
(* An edit saves a draft; items and rules leave status and dates alone.    *)
(***************************************************************************)
DraftSaved(s, new) ==
    /\ new \in PriceList
    /\ task[s].list \in DOMAIN lists
    /\ lists' = [lists EXCEPT ![task[s].list] = new]
    /\ \/ new.status = "DRAFT"
       \/ LET old == lists[task[s].list]
          IN  new.status = old.status /\ new.semester = old.semester /\ new.from = old.from
    /\ task[s].op \in ListOps \ {"approve"}
    /\ Complete(s) /\ UNCHANGED quotes

LEMMA EditSaves ==
    ASSUME CatalogueTyped, NEW s \in Workers, WriteEdit(s)
    PROVE  \E new : DraftSaved(s, new)
<1> DEFINE l == task[s].list
           new == Saved(l, task[s].row)
<1>1. l \in DOMAIN lists /\ task[s].row \in DraftColumns /\ lists[l] \in PriceList
  BY ListsTyped DEF CatalogueTyped, CatalogueTypeOK, CatalogueFits, WriteEdit, Doing
<1>2. new \in PriceList /\ new.status = "DRAFT"
  <2>1. PICK base : base = lists[l]
    OBVIOUS
  <2>2. /\ base = [semester |-> base.semester, from |-> base.from, status |-> base.status,
                   fee |-> base.fee, rules |-> base.rules]
        /\ base.fee \in [Levels -> Fees \cup {0}] /\ base.rules \in SUBSET Scopes
    BY <1>1, <2>1 DEF PriceList
  <2>3. PICK r : r = task[s].row
    OBVIOUS
  <2>4. r.semester \in Semesters /\ r.from \in PriceDays /\ r.status = "DRAFT"
    BY <1>1, <2>3 DEF DraftColumns
  <2>5. new = [base EXCEPT !.semester = r.semester, !.from = r.from, !.status = r.status]
    BY <2>1, <2>3 DEF Saved
  <2>6. new = [semester |-> r.semester, from |-> r.from, status |-> r.status,
               fee |-> base.fee, rules |-> base.rules]
    <3> HIDE DEF new
    <3> QED BY <2>2, <2>5
  <2>7. "DRAFT" \in PriceListStatuses
    BY DEF PriceListStatuses
  <2> HIDE DEF new
  <2> QED
    BY <2>2, <2>4, <2>6, <2>7 DEF PriceList
<1>3. lists' = [lists EXCEPT ![l] = new]
  BY DEF WriteEdit
<1> HIDE DEF new
<1> QED
  BY <1>1, <1>2, <1>3 DEF DraftSaved, WriteEdit, Doing, ListOps

LEMMA ItemSaves ==
    ASSUME CatalogueTyped, NEW s \in Workers, WriteItem(s)
    PROVE  \E new : DraftSaved(s, new)
<1> DEFINE l == task[s].list
           fees == [lists[l].fee EXCEPT ![task[s].program] = task[s].row]
           new == [lists[l] EXCEPT !.fee = fees]
<1>1. /\ l \in DOMAIN lists /\ task[s].row \in Fees \cup {0} /\ lists[l] \in PriceList
      /\ task[s].program \in Levels
  BY ListsTyped DEF CatalogueTyped, CatalogueTypeOK, CatalogueFits, IsRequest, WriteItem
<1>2. fees \in [Levels -> Fees \cup {0}]
  BY <1>1 DEF PriceList
<1>3. lists' = [lists EXCEPT ![l] = new]
  BY DEF WriteItem
<1> HIDE DEF fees
<1>4. /\ new \in PriceList /\ new.status = lists[l].status
      /\ new.semester = lists[l].semester /\ new.from = lists[l].from
  BY <1>1, <1>2 DEF PriceList
<1> HIDE DEF new
<1> QED
  BY <1>1, <1>3, <1>4 DEF DraftSaved, WriteItem, ListOps

LEMMA RuleSaves ==
    ASSUME CatalogueTyped, NEW s \in Workers, WriteFeeRule(s)
    PROVE  \E new : DraftSaved(s, new)
<1> DEFINE l == task[s].list
           scopes == IF Doing(s, "rule") THEN lists[l].rules \cup {task[s].row}
                     ELSE lists[l].rules \ {task[s].row}
           new == [lists[l] EXCEPT !.rules = scopes]
<1>1. l \in DOMAIN lists /\ task[s].row \in Scopes /\ lists[l] \in PriceList
  BY ListsTyped DEF CatalogueTyped, CatalogueTypeOK, CatalogueFits, WriteFeeRule
<1>2. scopes \in SUBSET Scopes
  BY <1>1 DEF PriceList
<1>3. lists' = [lists EXCEPT ![l] = new]
  BY DEF WriteFeeRule
<1> HIDE DEF scopes
<1>4. /\ new \in PriceList /\ new.status = lists[l].status
      /\ new.semester = lists[l].semester /\ new.from = lists[l].from
  BY <1>1, <1>2 DEF PriceList
<1> HIDE DEF new
<1> QED
  BY <1>1, <1>3, <1>4 DEF DraftSaved, WriteFeeRule, ListOps

LEMMA DraftKeeps ==
    ASSUME CatalogueInv, NEW s \in Workers, NEW new, DraftSaved(s, new)
    PROVE  CatalogueInv'
<1> DEFINE l == task[s].list
<1>1. /\ l \in DOMAIN lists /\ Complete(s) /\ UNCHANGED quotes /\ task[s].op \in ListOps \ {"approve"}
      /\ new.status = "DRAFT" \/ ( /\ new.status = lists[l].status
                                  /\ new.semester = lists[l].semester)
  BY DEF DraftSaved
<1>2. /\ lists' \in Seq(PriceList) /\ DOMAIN lists' = DOMAIN lists
      /\ \A m \in DOMAIN lists : lists'[m] = IF m = l THEN new ELSE lists[m]
  BY ListSaved DEF DraftSaved, CatalogueInv, CatalogueTyped, CatalogueTypeOK
<1>3. overwritten \subseteq overwritten' /\ (l \in overwritten' \/ lists[l].status = "DRAFT")
  BY <1>1, CatalogueFinishTells DEF CatalogueInv, CatalogueJudged
<1>4. \A quote : quote.list \in DOMAIN lists /\ Kept(quote) => Kept(quote)'
  <2> SUFFICES ASSUME NEW quote, quote.list \in DOMAIN lists, quote.list \notin overwritten', Stands(quote)
               PROVE  Stands(quote)'
    BY <1>3 DEF Kept
  <2>1. lists'[quote.list] = lists[quote.list]
    BY <1>2, <1>3 DEF Stands
  <2> QED
    BY <2>1 DEF Stands, RegistrationFee
<1>5. \A q : q.list \in DOMAIN lists /\ lists[q.list].status = "DRAFT"
             => lists'[q.list].status = "DRAFT"
  BY <1>1, <1>2
<1>6. /\ task' = [t \in Workers |-> task'[t]] /\ overwritten' \subseteq DOMAIN lists'
      /\ \A t \in Workers : /\ IsRequest(task[t])' /\ CatalogueFits(task[t])'
                            /\ CatalogueJudged(task[t])'
  BY <1>1, <1>2, <1>4, <1>5, CatalogueCommitKeeps
<1>7. CatalogueTypeOK'
  <2>1. (\A i, m \in DOMAIN lists :
            {lists[i].status, lists[m].status} = {"APPROVED"} /\ lists[i].semester = lists[m].semester
            => i = m)'
    <3> SUFFICES ASSUME NEW i \in DOMAIN lists', NEW m \in DOMAIN lists',
                        {lists'[i].status, lists'[m].status} = {"APPROVED"},
                        lists'[i].semester = lists'[m].semester
                 PROVE  i = m
      OBVIOUS
    <3>1. lists'[i].status = "APPROVED" /\ lists'[m].status = "APPROVED"
      OBVIOUS
    <3>2. /\ lists[i].status = "APPROVED" /\ lists[i].semester = lists'[i].semester
          /\ lists[m].status = "APPROVED" /\ lists[m].semester = lists'[m].semester
      BY <1>1, <1>2, <3>1
    <3>3. {lists[i].status, lists[m].status} = {"APPROVED"}
      BY <3>2
    <3> QED
      BY <1>2, <3>2, <3>3 DEF CatalogueInv, CatalogueTyped, CatalogueTypeOK
  <2> QED
    BY <1>1, <1>2, <1>6, <2>1 DEF CatalogueInv, CatalogueTyped, CatalogueTypeOK, IsRequest
<1>8. QuotesStand'
  <2> SUFFICES ASSUME NEW i \in DOMAIN quotes PROVE Kept(quotes[i])'
    BY <1>1 DEF QuotesStand, Kept, Stands
  <2>1. PICK quote : quote = quotes[i]
    OBVIOUS
  <2>2. Kept(quote) /\ quote.list \in DOMAIN lists
    BY <2>1 DEF CatalogueInv, CatalogueTyped, CatalogueTypeOK, QuotesStand, Kept, Stands
  <2>3. Kept(quote)' /\ quotes'[i] = quote
    BY <1>1, <1>4, <2>1, <2>2
  <2> QED
    BY <2>3 DEF Kept, Stands, RegistrationFee
<1> QED
  BY <1>6, <1>7, <1>8 DEF CatalogueInv, CatalogueTyped

(***************************************************************************)
(* An approval: the list takes the columns it was read with, and whatever  *)
(* else is approved of that semester gives way.                            *)
(***************************************************************************)
LEMMA ApprovalSaves ==
    ASSUME CatalogueTyped, NEW s \in Workers, RecordExternalApproval(s)
    PROVE  LET l == task[s].list
           IN  /\ l \in DOMAIN lists /\ lists' \in Seq(PriceList) /\ DOMAIN lists' = DOMAIN lists
               /\ task[s].row \in DraftColumns
               /\ lists'[l].status = "APPROVED" /\ lists'[l].semester = task[s].row.semester
               /\ \A m \in DOMAIN lists \ {l} :
                     /\ lists'[m].semester = lists[m].semester /\ lists'[m].from = lists[m].from
                     /\ lists'[m].fee = lists[m].fee /\ lists'[m].rules = lists[m].rules
                     /\ lists'[m].status = IF lists[m].status = "APPROVED"
                                             /\ lists[m].semester = task[s].row.semester
                                           THEN "ARCHIVED" ELSE lists[m].status
               /\ task[s].op = "approve" /\ Complete(s) /\ UNCHANGED quotes
<1> DEFINE l == task[s].list
           row == task[s].row
           superseded == {m \in DOMAIN lists \ {l} :
                            lists[m].status = "APPROVED" /\ lists[m].semester = row.semester}
           new == Saved(l, [row EXCEPT !.status = "APPROVED"])
<1>1. /\ task[s].op = "approve" /\ Complete(s) /\ UNCHANGED quotes
      /\ lists' = [m \in DOMAIN lists |->
                      IF m = l THEN new
                      ELSE IF m \in superseded THEN [lists[m] EXCEPT !.status = "ARCHIVED"]
                      ELSE lists[m]]
  BY DEF RecordExternalApproval, Doing
<1>2. l \in DOMAIN lists /\ row \in DraftColumns
  BY <1>1 DEF CatalogueTyped, CatalogueFits
<1>3. /\ DOMAIN lists = 1 .. Len(lists) /\ Len(lists) \in Nat
      /\ \A m \in DOMAIN lists : lists[m] \in PriceList
  BY ListsTyped DEF CatalogueTyped, CatalogueTypeOK
<1>4. new \in PriceList /\ new.status = "APPROVED" /\ new.semester = row.semester
  <2>1. PICK base : base = lists[l]
    OBVIOUS
  <2>2. /\ base = [semester |-> base.semester, from |-> base.from, status |-> base.status,
                   fee |-> base.fee, rules |-> base.rules]
        /\ base.fee \in [Levels -> Fees \cup {0}] /\ base.rules \in SUBSET Scopes
    BY <1>2, <1>3, <2>1 DEF PriceList
  <2>3. PICK r : r = [row EXCEPT !.status = "APPROVED"]
    OBVIOUS
  <2>4. row = [semester |-> row.semester, from |-> row.from, status |-> row.status]
        /\ row.semester \in Semesters /\ row.from \in PriceDays
    BY <1>2 DEF DraftColumns
  <2>5. r = [semester |-> row.semester, from |-> row.from, status |-> "APPROVED"]
    BY <2>3, <2>4
  <2>6. r.semester = row.semester /\ r.from = row.from /\ r.status = "APPROVED"
    BY <2>5
  <2>7. new = [base EXCEPT !.semester = r.semester, !.from = r.from, !.status = r.status]
    BY <2>1, <2>3 DEF Saved
  <2>8. new = [semester |-> r.semester, from |-> r.from, status |-> r.status,
               fee |-> base.fee, rules |-> base.rules]
    <3> HIDE DEF new
    <3> QED BY <2>2, <2>7
  <2>9. "APPROVED" \in PriceListStatuses
    BY DEF PriceListStatuses
  <2> HIDE DEF new
  <2> QED
    BY <2>2, <2>4, <2>6, <2>8, <2>9 DEF PriceList
<1> HIDE DEF new
<1>5. DOMAIN lists' = DOMAIN lists /\ lists'[l] = new
  BY <1>1, <1>2
<1>6. ASSUME NEW m \in DOMAIN lists \ {l}
      PROVE  /\ lists'[m] \in PriceList
             /\ lists'[m].semester = lists[m].semester /\ lists'[m].from = lists[m].from
             /\ lists'[m].fee = lists[m].fee /\ lists'[m].rules = lists[m].rules
             /\ lists'[m].status = IF lists[m].status = "APPROVED" /\ lists[m].semester = row.semester
                                   THEN "ARCHIVED" ELSE lists[m].status
  <2>1. lists[m] \in PriceList
    BY <1>3
  <2>2. CASE m \in superseded
    <3>1. lists'[m] = [lists[m] EXCEPT !.status = "ARCHIVED"]
      BY <1>1, <2>2
    <3> QED
      BY <2>1, <2>2, <3>1 DEF PriceList, PriceListStatuses
  <2>3. CASE m \notin superseded
    <3>1. lists'[m] = lists[m]
      BY <1>1, <2>3
    <3> QED
      BY <2>1, <2>3, <3>1
  <2> QED
    BY <2>2, <2>3
<1>7. lists' \in [1 .. Len(lists) -> PriceList]
  <2>1. \A m \in DOMAIN lists : lists'[m] \in PriceList
    BY <1>4, <1>5, <1>6
  <2>2. lists' = [m \in DOMAIN lists |-> lists'[m]]
    BY <1>1
  <2> QED
    BY <1>3, <2>1, <2>2
<1>8. lists' \in Seq(PriceList)
  BY <1>3, <1>7, SeqDef
<1> QED
  BY <1>1, <1>2, <1>4, <1>5, <1>6, <1>8

LEMMA ApprovalKeeps ==
    ASSUME CatalogueInv, NEW s \in Workers, RecordExternalApproval(s)
    PROVE  CatalogueInv'
<1> DEFINE l == task[s].list
<1>1. /\ l \in DOMAIN lists /\ lists' \in Seq(PriceList) /\ DOMAIN lists' = DOMAIN lists
      /\ lists'[l].status = "APPROVED" /\ lists'[l].semester = task[s].row.semester
      /\ task[s].op = "approve" /\ Complete(s) /\ UNCHANGED quotes
      /\ \A m \in DOMAIN lists \ {l} :
            /\ lists'[m].semester = lists[m].semester /\ lists'[m].from = lists[m].from
            /\ lists'[m].fee = lists[m].fee /\ lists'[m].rules = lists[m].rules
            /\ lists'[m].status = IF lists[m].status = "APPROVED"
                                    /\ lists[m].semester = task[s].row.semester
                                  THEN "ARCHIVED" ELSE lists[m].status
  BY ApprovalSaves DEF CatalogueInv
<1>2. overwritten \subseteq overwritten' /\ (l \in overwritten' \/ lists[l].status = "DRAFT")
  BY <1>1, CatalogueFinishTells DEF CatalogueInv, CatalogueJudged, ListOps
<1>3. \A q : q.list \in DOMAIN lists /\ q.op \in ListOps /\ lists[q.list].status = "DRAFT"
             /\ ~Overtakes(task[s], q) => lists'[q.list].status = "DRAFT"
  BY <1>1 DEF Overtakes
<1>4. \A quote : quote.list \in DOMAIN lists /\ Kept(quote) => Kept(quote)'
  <2> SUFFICES ASSUME NEW quote, quote.list \in DOMAIN lists, quote.list \notin overwritten', Stands(quote)
               PROVE  Stands(quote)'
    BY <1>2 DEF Kept
  <2>1. quote.list # l
    BY <1>2 DEF Stands
  <2>2. /\ lists'[quote.list].status # "DRAFT" /\ lists'[quote.list].from = lists[quote.list].from
        /\ lists'[quote.list].fee = lists[quote.list].fee
        /\ lists'[quote.list].rules = lists[quote.list].rules
    BY <1>1, <2>1 DEF Stands
  <2> QED
    BY <2>2 DEF Stands, RegistrationFee
<1>5. /\ task' = [t \in Workers |-> task'[t]] /\ overwritten' \subseteq DOMAIN lists'
      /\ \A t \in Workers : /\ IsRequest(task[t])' /\ CatalogueFits(task[t])'
                            /\ CatalogueJudged(task[t])'
  BY <1>1, <1>3, <1>4, CatalogueCommitKeeps
<1>6. CatalogueTypeOK'
  <2>1. (\A i, m \in DOMAIN lists :
            {lists[i].status, lists[m].status} = {"APPROVED"} /\ lists[i].semester = lists[m].semester
            => i = m)'
    <3> SUFFICES ASSUME NEW i \in DOMAIN lists', NEW m \in DOMAIN lists',
                        {lists'[i].status, lists'[m].status} = {"APPROVED"},
                        lists'[i].semester = lists'[m].semester, i # m
                 PROVE  FALSE
      OBVIOUS
    <3>1. lists'[i].status = "APPROVED" /\ lists'[m].status = "APPROVED"
      OBVIOUS
    <3>2. i # l /\ m # l
      BY <1>1, <3>1
    <3>3. /\ lists[i].status = "APPROVED" /\ lists[i].semester = lists'[i].semester
          /\ lists[m].status = "APPROVED" /\ lists[m].semester = lists'[m].semester
      BY <1>1, <3>1, <3>2
    <3>4. {lists[i].status, lists[m].status} = {"APPROVED"}
      BY <3>3
    <3> QED
      BY <1>1, <3>3, <3>4 DEF CatalogueInv, CatalogueTyped, CatalogueTypeOK
  <2> QED
    BY <1>1, <1>5, <2>1 DEF CatalogueInv, CatalogueTyped, CatalogueTypeOK, IsRequest
<1>7. QuotesStand'
  <2> SUFFICES ASSUME NEW i \in DOMAIN quotes PROVE Kept(quotes[i])'
    BY <1>1 DEF QuotesStand, Kept, Stands
  <2>1. PICK quote : quote = quotes[i]
    OBVIOUS
  <2>2. Kept(quote) /\ quote.list \in DOMAIN lists
    BY <2>1 DEF CatalogueInv, CatalogueTyped, CatalogueTypeOK, QuotesStand, Kept, Stands
  <2>3. Kept(quote)' /\ quotes'[i] = quote
    BY <1>1, <1>4, <2>1, <2>2
  <2> QED
    BY <2>3 DEF Kept, Stands, RegistrationFee
<1> QED
  BY <1>5, <1>6, <1>7 DEF CatalogueInv, CatalogueTyped

LEMMA CatalogueCreateKeeps ==
    ASSUME CatalogueInv, NEW semester \in Semesters, NEW from \in PriceDays, CreatePriceList(semester, from)
    PROVE  /\ CatalogueInv'
           /\ DOMAIN lists' = DOMAIN lists \cup {Len(lists) + 1}
           /\ \A l \in DOMAIN lists : lists'[l] = lists[l]
           /\ lists'[Len(lists) + 1].status = "DRAFT"
<1> DEFINE new == [semester |-> semester, from |-> from, status |-> "DRAFT",
                   fee |-> [p \in Levels |-> 0], rules |-> {}]
<1>1. new \in PriceList /\ new.status = "DRAFT"
  BY DEF PriceList, PriceListStatuses
<1>2. lists' = Append(lists, new) /\ UNCHANGED <<task, overwritten, quotes>>
  BY DEF CreatePriceList, Calm
<1>3. lists \in Seq(PriceList)
  BY DEF CatalogueInv, CatalogueTyped, CatalogueTypeOK
<1> HIDE DEF new
<1>4. /\ lists' \in Seq(PriceList)
      /\ DOMAIN lists' = DOMAIN lists \cup {Len(lists) + 1}
      /\ \A l \in DOMAIN lists : lists'[l] = lists[l]
      /\ lists'[Len(lists) + 1] = new
  BY <1>1, <1>2, <1>3, AppendProperties, LenProperties
<1>5. CatalogueTypeOK'
  <2>1. (\A i, m \in DOMAIN lists :
            {lists[i].status, lists[m].status} = {"APPROVED"} /\ lists[i].semester = lists[m].semester
            => i = m)'
    <3> SUFFICES ASSUME NEW i \in DOMAIN lists', NEW m \in DOMAIN lists',
                        {lists'[i].status, lists'[m].status} = {"APPROVED"},
                        lists'[i].semester = lists'[m].semester
                 PROVE  i = m
      OBVIOUS
    <3>1. lists'[i].status = "APPROVED" /\ lists'[m].status = "APPROVED"
      OBVIOUS
    <3>2. i \in DOMAIN lists /\ m \in DOMAIN lists
      BY <1>1, <1>4, <3>1
    <3>3. /\ {lists[i].status, lists[m].status} = {"APPROVED"}
          /\ lists[i].semester = lists[m].semester
      BY <1>4, <3>1, <3>2
    <3> QED
      BY <3>2, <3>3 DEF CatalogueInv, CatalogueTyped, CatalogueTypeOK
  <2> QED
    BY <1>2, <1>4, <2>1 DEF CatalogueInv, CatalogueTyped, CatalogueTypeOK
<1>6. CatalogueTyped'
  BY <1>2, <1>4, <1>5 DEF CatalogueInv, CatalogueTyped, IsRequest, CatalogueFits
<1>7. \A quote : quote.list \in DOMAIN lists /\ Kept(quote) => Kept(quote)'
  BY <1>2, <1>4 DEF Kept, Stands, RegistrationFee
<1>8. QuotesStand'
  <2> SUFFICES ASSUME NEW i \in DOMAIN quotes PROVE Kept(quotes[i])'
    BY <1>2 DEF QuotesStand, Kept, Stands
  <2>1. Kept(quotes[i]) /\ quotes[i].list \in DOMAIN lists
    BY DEF CatalogueInv, CatalogueTyped, CatalogueTypeOK, QuotesStand, Kept, Stands
  <2> QED
    BY <1>2, <1>7, <2>1 DEF Kept, Stands, RegistrationFee
<1>9. ASSUME NEW t \in Workers PROVE CatalogueJudged(task[t])'
  <2>1. CatalogueJudged(task[t]) /\ CatalogueFits(task[t])
    BY DEF CatalogueInv, CatalogueTyped
  <2> QED
    BY <1>2, <1>4, <1>7, <2>1 DEF CatalogueJudged, CatalogueFits, ListOps, Kept, Stands, RegistrationFee
<1> QED
  BY <1>1, <1>2, <1>4, <1>6, <1>8, <1>9 DEF CatalogueInv

LEMMA EnrolKeeps ==
    ASSUME CatalogueInv, NEW s \in Workers, WriteEnrol(s)
    PROVE  CatalogueInv'
<1> DEFINE new == task[s].row
<1>1. /\ task[s].op = "enrol" /\ quotes' = Append(quotes, new) /\ UNCHANGED lists /\ Complete(s)
  BY DEF WriteEnrol, Doing
<1>2. new \in Quote /\ new.list \in DOMAIN lists
  BY <1>1 DEF CatalogueInv, CatalogueTyped, CatalogueFits
<1>3. overwritten \subseteq overwritten' /\ Kept(new)
  BY <1>1, CatalogueFinishTells DEF CatalogueInv, CatalogueJudged
<1> HIDE DEF new
<1>4. quotes \in Seq(Quote)
  BY DEF CatalogueInv, CatalogueTyped, CatalogueTypeOK
<1>5. /\ quotes' \in Seq(Quote)
      /\ \A i \in DOMAIN quotes' : quotes'[i] = new \/ (i \in DOMAIN quotes /\ quotes'[i] = quotes[i])
  BY <1>1, <1>2, <1>4, AppendProperties, LenProperties
<1>6. \A quote : Kept(quote) => Kept(quote)'
  BY <1>1, <1>3 DEF Kept, Stands, RegistrationFee
<1>7. \A q : lists[q.list].status = "DRAFT" => lists'[q.list].status = "DRAFT"
  BY <1>1
<1>8. /\ task' = [t \in Workers |-> task'[t]] /\ overwritten' \subseteq DOMAIN lists'
      /\ \A t \in Workers : /\ IsRequest(task[t])' /\ CatalogueFits(task[t])'
                            /\ CatalogueJudged(task[t])'
  <2>1. task[s].list \in DOMAIN lists
    BY <1>1 DEF CatalogueInv, CatalogueTyped, CatalogueFits
  <2> QED
    BY <1>1, <1>6, <1>7, <2>1, CatalogueCommitKeeps
<1>9. CatalogueTypeOK'
  BY <1>1, <1>2, <1>5, <1>8 DEF CatalogueInv, CatalogueTyped, CatalogueTypeOK, IsRequest
<1>10. QuotesStand'
  <2> SUFFICES ASSUME NEW i \in DOMAIN quotes' PROVE Kept(quotes[i])'
    BY DEF QuotesStand, Kept, Stands
  <2>1. PICK quote : quote = quotes'[i]
    OBVIOUS
  <2>2. Kept(quote)
    BY <1>3, <1>5, <2>1 DEF CatalogueInv, QuotesStand, Kept, Stands
  <2>3. Kept(quote)'
    BY <1>6, <2>2
  <2> QED
    BY <2>1, <2>3 DEF Kept, Stands, RegistrationFee
<1> QED
  BY <1>8, <1>9, <1>10 DEF CatalogueInv, CatalogueTyped

(***************************************************************************)
(* What is read is judged as it stands.                                    *)
(***************************************************************************)
Asking(op, l, p, row) == [op |-> op, list |-> l, program |-> p, row |-> row, overtaken |-> FALSE]

LEMMA AskingIs ==
    ASSUME NEW op, NEW l, NEW row, NEW p
    PROVE  /\ OnList(op, l, row) = Asking(op, l, NoTask.program, row)
           /\ [OnList(op, l, row) EXCEPT !.program = p] = Asking(op, l, p, row)
           /\ NoTask.program \in Levels
<1>1. NoTask.program \in Levels
  BY CatalogueAssumption DEF NoTask
<1> DEFINE no == FALSE
           none == <<>>
           zero == 0
           name == "idle"
           first == CHOOSE q \in Levels : TRUE
<1>2. NoTask = [op |-> name, list |-> zero, program |-> first, row |-> none, overtaken |-> no]
  BY DEF NoTask
<1>3. \A q : Asking(op, l, q, row) = [op |-> op, list |-> l, program |-> q, row |-> row,
                                     overtaken |-> no]
  BY DEF Asking
<1> HIDE DEF no, none, zero, name, first
<1>4. NoTask.program = first
  BY <1>2
<1> DEFINE idle == NoTask
           acting == [idle EXCEPT !.op = op]
           listed == [acting EXCEPT !.list = l]
<1>5. idle = [op |-> name, list |-> zero, program |-> first, row |-> none, overtaken |-> no]
  BY <1>2
<1>6. OnList(op, l, row) = [listed EXCEPT !.row = row]
  BY DEF OnList
<1> HIDE DEF idle
<1>7. acting = [op |-> op, list |-> zero, program |-> first, row |-> none, overtaken |-> no]
  BY <1>5
<1> HIDE DEF acting
<1>8. listed = [op |-> op, list |-> l, program |-> first, row |-> none, overtaken |-> no]
  BY <1>7
<1> HIDE DEF listed
<1>9. OnList(op, l, row) = Asking(op, l, first, row)
  BY <1>3, <1>6, <1>8
<1>10. [Asking(op, l, first, row) EXCEPT !.program = p] = Asking(op, l, p, row)
  BY <1>3
<1> QED
  BY <1>1, <1>4, <1>10, <1>9

LEMMA AskingFits ==
    ASSUME NEW l \in DOMAIN lists, Editable(l), NEW op \in ListOps, NEW row, NEW p \in Levels
    PROVE  /\ IsRequest(Asking(op, l, p, row)) /\ CatalogueJudged(Asking(op, l, p, row))
           /\ Asking(op, l, p, row).op = op /\ Asking(op, l, p, row).list = l
           /\ Asking(op, l, p, row).row = row
<1> DEFINE q == Asking(op, l, p, row)
<1>1. /\ q = [op |-> q.op, list |-> q.list, program |-> q.program, row |-> q.row,
              overtaken |-> q.overtaken]
      /\ q.op = op /\ q.list = l /\ q.program = p /\ q.row = row /\ q.overtaken = FALSE
  BY DEF Asking
<1> HIDE DEF q
<1>2. op # "enrol"
  BY DEF ListOps
<1> QED
  BY <1>1, <1>2 DEF IsRequest, CatalogueJudged, Editable, q

LEMMA HandlingKeeps ==
    ASSUME CatalogueInv, NEW s \in Workers, HandlePriceList(s)
    PROVE  CatalogueInv'
<1> USE DEF CatalogueInv
<1>1. \A l \in DOMAIN lists : lists[l] \in PriceList
  BY ListsTyped DEF CatalogueTyped, CatalogueTypeOK
<1>2. ASSUME NEW l \in DOMAIN lists, NEW semester \in Semesters, NEW from \in PriceDays,
             ReadEdit(s, l, semester, from)
      PROVE  CatalogueInv'
  <2> DEFINE row == [Columns(l) EXCEPT !.semester = semester, !.from = from]
             q == Asking("edit", l, NoTask.program, row)
  <2>1. row \in DraftColumns
    BY <1>1, <1>2 DEF ReadEdit, Columns, DraftColumns, Editable
  <2>2. Start(s, q) /\ Editable(l)
    BY <1>2, AskingIs DEF ReadEdit
  <2> HIDE DEF row
  <2>3. IsRequest(q) /\ CatalogueJudged(q) /\ q.op = "edit" /\ q.list = l /\ q.row = row
    BY <2>2, AskingIs, AskingFits DEF ListOps
  <2> HIDE DEF q
  <2> QED
    BY <2>1, <2>2, <2>3, BeginKeeps DEF CatalogueFits
<1>3. ASSUME NEW l \in DOMAIN lists, NEW p \in Levels, ReadRemoveItem(s, l, p) PROVE CatalogueInv'
  <2> DEFINE q == Asking("unprice", l, p, 0)
  <2>1. Start(s, q) /\ Editable(l)
    BY <1>3, AskingIs DEF ReadRemoveItem
  <2>2. IsRequest(q) /\ CatalogueJudged(q) /\ q.op = "unprice" /\ q.list = l /\ q.row = 0
    BY <2>1, AskingFits DEF ListOps
  <2> HIDE DEF q
  <2> QED
    BY <2>1, <2>2, BeginKeeps DEF CatalogueFits
<1>4. ASSUME NEW l \in DOMAIN lists, NEW p \in Levels, NEW fee \in Fees, ReadAddItem(s, l, p, fee)
      PROVE  CatalogueInv'
  <2> DEFINE q == Asking("price", l, p, fee)
  <2>1. Start(s, q) /\ Editable(l)
    BY <1>4, AskingIs DEF ReadAddItem
  <2>2. IsRequest(q) /\ CatalogueJudged(q) /\ q.op = "price" /\ q.list = l /\ q.row = fee
    BY <2>1, AskingFits DEF ListOps
  <2> HIDE DEF q
  <2> QED
    BY <2>1, <2>2, BeginKeeps DEF CatalogueFits
<1>5. ASSUME NEW l \in DOMAIN lists, NEW scope \in Scopes, ReadFeeRule(s, l, scope) PROVE CatalogueInv'
  <2> DEFINE op == IF scope \in lists[l].rules THEN "unrule" ELSE "rule"
             q == Asking(op, l, NoTask.program, scope)
  <2>1. Start(s, q) /\ Editable(l) /\ op \in {"rule", "unrule"}
    BY <1>5, AskingIs DEF ReadFeeRule
  <2> HIDE DEF op
  <2>2. IsRequest(q) /\ CatalogueJudged(q) /\ q.op = op /\ q.list = l /\ q.row = scope
    BY <2>1, AskingIs, AskingFits DEF ListOps
  <2> HIDE DEF q
  <2> QED
    BY <2>1, <2>2, BeginKeeps DEF CatalogueFits
<1>6. ASSUME NEW l \in DOMAIN lists, ReadApproval(s, l) PROVE CatalogueInv'
  <2> DEFINE row == Columns(l)
             q == Asking("approve", l, NoTask.program, row)
  <2>1. row \in DraftColumns
    BY <1>1, <1>6 DEF ReadApproval, Columns, DraftColumns, Editable, PriceList
  <2>2. Start(s, q) /\ Editable(l)
    BY <1>6, AskingIs DEF ReadApproval
  <2> HIDE DEF row
  <2>3. IsRequest(q) /\ CatalogueJudged(q) /\ q.op = "approve" /\ q.list = l /\ q.row = row
    BY <2>2, AskingIs, AskingFits DEF ListOps
  <2> HIDE DEF q
  <2> QED
    BY <2>1, <2>2, <2>3, BeginKeeps DEF CatalogueFits
<1>7. CASE WriteEdit(s) \/ WriteItem(s) \/ WriteFeeRule(s)
  BY <1>7, EditSaves, ItemSaves, RuleSaves, DraftKeeps
<1>8. CASE RecordExternalApproval(s)
  BY <1>8, ApprovalKeeps
<1> QED
  BY <1>2, <1>3, <1>4, <1>5, <1>6, <1>7, <1>8
     DEF HandlePriceList, EditView, PriceItemView, FeeRuleView, ApprovalView

LEMMA EnrollingKeeps ==
    ASSUME CatalogueInv, NEW s \in Workers, EnrollWithCharges(s)
    PROVE  CatalogueInv'
<1>1. ASSUME NEW p \in Levels, NEW on \in PriceDays, ReadEnrol(s, p, on) PROVE CatalogueInv'
  <2>1. PICK quote \in ResolvePrice(p, on) :
           Start(s, [OnList("enrol", quote.list, quote) EXCEPT !.program = quote.program])
    BY <1>1 DEF ReadEnrol
  <2>2. quote \in Quote /\ quote.list \in DOMAIN lists /\ Stands(quote)
    BY QuoteStands DEF CatalogueInv, CatalogueTyped
  <2> DEFINE q == Asking("enrol", quote.list, quote.program, quote)
  <2>3. Start(s, q)
    BY <2>1, AskingIs
  <2>4. IsRequest(q) /\ CatalogueFits(q) /\ CatalogueJudged(q)
    BY <2>2 DEF Asking, IsRequest, CatalogueFits, CatalogueJudged, ListOps, Quote, Kept
  <2> HIDE DEF q
  <2> QED
    BY <2>3, <2>4, BeginKeeps
<1> QED
  BY <1>1, EnrolKeeps DEF EnrollWithCharges

LEMMA CatalogueStepKeeps ==
    ASSUME CatalogueInv, [CatalogueNext]_catalogueVars
    PROVE  CatalogueInv'
<1>1. CASE UNCHANGED catalogueVars
  BY <1>1
     DEF catalogueVars, CatalogueInv, CatalogueTyped, CatalogueTypeOK, IsRequest, CatalogueFits, QuotesStand, CatalogueJudged, Kept, Stands, RegistrationFee
<1>2. CASE PriceListsView
  BY <1>2, CatalogueCreateKeeps DEF PriceListsView
<1> QED
  BY <1>1, <1>2, HandlingKeeps, EnrollingKeeps, CatalogueRollbackKeeps DEF CatalogueNext

LEMMA CatalogueStartsRight == CatalogueInit => CatalogueInv
<1> SUFFICES ASSUME CatalogueInit PROVE CatalogueInv
  OBVIOUS
<1>1. \A s \in Workers : task[s] = NoTask
  BY DEF CatalogueInit
<1>2. lists \in Seq(PriceList) /\ quotes \in Seq(Quote) /\ DOMAIN lists = {} /\ DOMAIN quotes = {}
  BY EmptySeq DEF CatalogueInit
<1>3. CatalogueTypeOK
  BY <1>1, <1>2, CatalogueIdleFits DEF CatalogueInit, CatalogueTypeOK, IsRequest
<1>4. CatalogueTyped
  BY <1>1, <1>3, CatalogueIdleFits DEF CatalogueInit, CatalogueTyped
<1> QED
  BY <1>1, <1>2, <1>4, CatalogueIdleFits DEF CatalogueInv, QuotesStand

LEMMA CatalogueInvariant == CatalogueSpec => []CatalogueInv
  BY CatalogueStartsRight, CatalogueStepKeeps, PTL DEF CatalogueSpec

-----------------------------------------------------------------------------
(* The theorems. *)

(***************************************************************************)
(* At most one price list of a semester is approved, whichever requests    *)
(* overlap: RecordExternalApproval archives what it finds under its lock.  *)
(***************************************************************************)
THEOREM CatalogueTypeCorrect == CatalogueSpec => []CatalogueTypeOK
<1>1. CatalogueInv => CatalogueTypeOK
  BY DEF CatalogueInv, CatalogueTyped
<1> QED
  BY <1>1, CatalogueInvariant, PTL

(***************************************************************************)
(* BR-012, D-14: what an enrolment was quoted can be read off the list it  *)
(* names for good, for any number of lists, programmes and requests,       *)
(* except off a list that was written by a request that had read it before *)
(* its approval.                                                           *)
(***************************************************************************)
THEOREM PricesAreKept == CatalogueSpec => []QuotesStand
<1>1. CatalogueInv => QuotesStand
  BY DEF CatalogueInv
<1> QED
  BY <1>1, CatalogueInvariant, PTL

(***************************************************************************)
(* Lists that were begun remain so: nothing but an approval in its         *)
(* semester moves a list that is in force.                                 *)
(***************************************************************************)
LEMMA StepKeepsPrices ==
    ASSUME CatalogueInv, CatalogueInv', [CatalogueNext]_catalogueVars
    PROVE  [\A d \in PriceDays : \A l \in InForce(d) :
              InForce(d)' # {} \/ SupersededLater(l, d) \/ Overwrites(l)]_lists
<1> SUFFICES ASSUME NEW d \in PriceDays, NEW k \in InForce(d), ~SupersededLater(k, d), ~Overwrites(k),
                    lists' # lists
             PROVE  InForce(d)' # {}
  OBVIOUS
<1>1. lists \in Seq(PriceList) /\ lists' \in Seq(PriceList)
  BY DEF CatalogueInv, CatalogueTyped, CatalogueTypeOK
<1>2. k \in Approved(d)
  BY DEF InForce
<1>3. k \in DOMAIN lists /\ lists[k].status = "APPROVED" /\ lists[k].from <= d
  BY <1>2 DEF Approved
<1>12. ASSUME NEW s \in Workers, Complete(s)
       PROVE  task'[s] = NoTask
  BY <1>12 DEF Complete
<1>4. ASSUME k \in DOMAIN lists', lists'[k] = lists[k] PROVE Approved(d)' # {}
  BY <1>3, <1>4 DEF Approved
<1>5. ASSUME PriceListsView PROVE Approved(d)' # {}
  <2>1. PICK semester \in Semesters, from \in PriceDays : CreatePriceList(semester, from)
    BY <1>5 DEF PriceListsView
  <2> QED
    BY <1>3, <1>4, <2>1, CatalogueCreateKeeps
<1>6. ASSUME NEW s \in Workers, NEW new, DraftSaved(s, new) PROVE Approved(d)' # {}
  <2>1. k # task[s].list
    BY <1>3, <1>6, <1>12 DEF CatalogueInv, CatalogueJudged, DraftSaved, Overwrites
  <2>2. /\ DOMAIN lists' = DOMAIN lists
        /\ \A m \in DOMAIN lists : lists'[m] = IF m = task[s].list THEN new ELSE lists[m]
    BY <1>1, <1>6, ListSaved DEF DraftSaved
  <2> QED
    BY <1>3, <1>4, <2>1, <2>2
<1>7. ASSUME NEW s \in Workers, RecordExternalApproval(s) PROVE Approved(d)' # {}
  <2> DEFINE l == task[s].list
             row == task[s].row
  <2>1. /\ l \in DOMAIN lists /\ lists'[l].status = "APPROVED" /\ DOMAIN lists' = DOMAIN lists
        /\ lists'[l].semester = row.semester
        /\ \A m \in DOMAIN lists \ {l} :
              /\ lists'[m].from = lists[m].from
              /\ lists'[m].status = IF lists[m].status = "APPROVED" /\ lists[m].semester = row.semester
                                    THEN "ARCHIVED" ELSE lists[m].status
        /\ Complete(s) /\ task[s].op = "approve"
    BY <1>7, ApprovalSaves DEF CatalogueInv
  <2>2. CASE k # l /\ lists[k].semester # row.semester
    BY <1>3, <2>1, <2>2 DEF Approved
  <2>3. CASE k = l \/ lists[k].semester = row.semester
    <3>1. ~task[s].overtaken
      BY <1>12, <2>1, <2>3 DEF Overwrites, Doing
    <3>2. lists[l].status = "DRAFT"
      BY <2>1, <3>1 DEF CatalogueInv, CatalogueJudged, ListOps
    <3>3. lists[k].semester = row.semester
      BY <1>3, <2>3, <3>2
    <3>4. ~(lists'[l].from > d)
      BY <2>1, <3>2, <3>3 DEF SupersededLater
    <3>5. lists'[l] \in PriceList
      BY <1>1, <2>1, LenProperties
    <3>6. lists'[l].from \in Nat /\ d \in Nat
      BY <3>5, CatalogueAssumption DEF PriceList, PriceDays
    <3>7. lists'[l].from <= d
      BY <3>4, <3>6
    <3> QED
      BY <2>1, <3>7 DEF Approved
  <2> QED
    BY <2>2, <2>3
<1>8. ASSUME NEW s \in Workers, HandlePriceList(s) PROVE Approved(d)' # {}
  <2>1. \/ WriteEdit(s) \/ WriteItem(s) \/ WriteFeeRule(s) \/ RecordExternalApproval(s)
    BY <1>8 DEF HandlePriceList, EditView, PriceItemView, FeeRuleView, ApprovalView, ReadEdit,
           ReadRemoveItem, ReadAddItem, ReadFeeRule, ReadApproval, Start
  <2>2. CatalogueTyped
    BY DEF CatalogueInv
  <2>3. CASE WriteEdit(s) \/ WriteItem(s) \/ WriteFeeRule(s)
    <3>1. PICK new : DraftSaved(s, new)
      BY <2>2, <2>3, EditSaves, ItemSaves, RuleSaves
    <3> QED
      BY <1>6, <3>1
  <2> QED
    BY <1>7, <2>1, <2>3
<1>9. ASSUME NEW s \in Workers PROVE ~EnrollWithCharges(s) /\ ~Abandon(s)
  BY DEF EnrollWithCharges, ReadEnrol, WriteEnrol, Start, Abandon
<1>10. Approved(d)' # {}
  BY <1>5, <1>8, <1>9 DEF CatalogueNext, catalogueVars
<1>11. BegunIsInForce'
  <2>1. CatalogueTypeOK'
    BY DEF CatalogueInv, CatalogueTyped
  <2> QED
    BY <2>1, ListsInForce, PTL
<1> QED
  BY <1>10, <1>11 DEF BegunIsInForce

(***************************************************************************)
(* A day that has a price list keeps one, whatever is edited, priced or    *)
(* archived, unless a list that begins later takes the semester of that    *)
(* list, or a request that read a list before its approval writes it, or   *)
(* approves again in its semester.                                         *)
(***************************************************************************)
THEOREM DaysKeepPrices == CatalogueSpec => PricesStayInForce
<1>1. CatalogueSpec => []CatalogueInv /\ [][CatalogueNext]_catalogueVars
  BY CatalogueInvariant, PTL DEF CatalogueSpec
<1> QED
  BY <1>1, StepKeepsPrices, PTL DEF PricesStayInForce
=============================================================================
