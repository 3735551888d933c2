-------------------------- MODULE EnrolmentProofs --------------------------
(***************************************************************************)
(* Theorems about Enrolment for every price, every set of sessions and any *)
(* number of lines, receipts, clearances and certificates.                 *)
(***************************************************************************)
EXTENDS Enrolment, Sums, SequenceTheorems, TLAPS

(***************************************************************************)
(* The steps of a clearance are done, and stay so unless a first signature *)
(* is saved over the second.                                               *)
(***************************************************************************)
StepsStand(c) == "step" \in raced \/ StepsDone(c)

(***************************************************************************)
(* What a request is about is there, and what it brings fits.  The steps a *)
(* clearance is closed on, and the case a certificate is issued on, stand  *)
(* once they were seen.                                                    *)
(***************************************************************************)
Fits(q) ==
    /\ q.op \in FormOps \cup {"issue", "handover"} => q.on \in DOMAIN clearances
    /\ q.op = "close" => StepsStand(q.on)
    /\ q.op = "certify" => q.to \in {"", "certified", "done"}
    /\ q.op = "issue" => clearances[q.on].case = "GRADUATION"
    /\ q.op = "issue_replacement" => q.on \in DOMAIN certificates
    /\ q.op = "handover" => /\ q.with \in DOMAIN certificates
                            /\ certificates[q.with].replaces = 0
                            /\ certificates[q.with].clearance = q.on
    /\ q.op = "approve_void" => q.on \in DOMAIN receipts /\ q.to \in {"", "PENDING_FINANCE"}
    /\ q.op \in StatusOps \ {"sweep"} => q.to \in Statuses
    /\ q.op = "open" => q.to \in Cases

(***************************************************************************)
(* A request about to write the status of the enrolment.                   *)
(***************************************************************************)
Moving(q) == q.op \in StatusOps \/ (q.op = "approve_void" /\ q.to # "")

(***************************************************************************)
(* The status a request was judged by is still the status, unless another  *)
(* commit moved it.                                                        *)
(***************************************************************************)
StatusJudged(q) ==
    \/ "status" \in q.overtaken
    \/ /\ Moving(q) => status \notin Final
       /\ q.op = "open" /\ q.to = "GRADUATION" => status = "COMPLETED"

(***************************************************************************)
(* The same of the certificates, and of the finance step a first signature *)
(* has loaded.                                                             *)
(***************************************************************************)
CertificateJudged(q) ==
    \/ "certificate" \in q.overtaken
    \/ /\ q.op = "issue" => certificates = <<>>
       /\ q.op = "issue_replacement" => certificates[q.on].status # "REPLACED"
       /\ q.op = "handover" => certificates[q.with].status # "REPLACED"

StepJudged(q) ==
    \/ "step" \in q.overtaken \cup raced
    \/ q.op = "certify" => /\ q.to = "certified" => clearances[q.on].finance # "done"
                           /\ q.to = "done" => clearances[q.on].finance = "done"

PaperJudged(q) == CertificateJudged(q) /\ StepJudged(q)

MoneyTyped ==
    /\ lines \in Seq(Line)
    /\ oldDebt \in BOOLEAN
    /\ receipts \in Seq(Receipt)
    /\ \A r \in DOMAIN receipts : receipts[r].line \in DOMAIN lines \cup {0}

PapersTyped ==
    /\ certificates \in Seq(Certificate)
    /\ \A k \in DOMAIN certificates :
          /\ certificates[k].clearance \in DOMAIN clearances \cup {0}
          /\ certificates[k].replaces \in 0 .. k - 1
          /\ certificates[k].clearance # 0 <=> certificates[k].replaces = 0

RequestsTyped ==
    /\ req \in [Sessions -> Request]
    /\ raced \in SUBSET Races
    /\ \A s \in Sessions : Fits(req[s]) /\ StatusJudged(req[s]) /\ PaperJudged(req[s])

(***************************************************************************)
(* A step of handing over has handed over the original of this clearance,  *)
(* and a completed clearance has its steps.                                *)
(***************************************************************************)
HandedOver(c) ==
    \E k \in DOMAIN certificates : /\ certificates[k].replaces = 0
                                   /\ certificates[k].clearance = c
                                   /\ certificates[k].status # "ISSUED"

InOrder(c) ==
    /\ clearances[c].handed => HandedOver(c)
    /\ clearances[c].status = "COMPLETED" => StepsStand(c)

(***************************************************************************)
(* Only a completed course has a graduate's clearance, and only such a     *)
(* clearance has an original certificate.                                  *)
(***************************************************************************)
Graduates ==
    \A c \in DOMAIN clearances :
        \/ clearances[c].case # "GRADUATION"
        \/ status = "COMPLETED"
        \/ "status" \in raced

OnGraduation ==
    \A k \in DOMAIN certificates :
        certificates[k].clearance # 0 => clearances[certificates[k].clearance].case = "GRADUATION"

InForce(k) == certificates[k].status # "REPLACED"

OneInForce ==
    \/ "certificate" \in raced
    \/ \A j, k \in DOMAIN certificates : InForce(j) /\ InForce(k) => j = k

Inv ==
    /\ status \in Statuses
    /\ voucher \in BOOLEAN
    /\ MoneyTyped
    /\ clearances \in Seq(Clearance)
    /\ PapersTyped
    /\ RequestsTyped
    /\ \A c \in DOMAIN clearances : InOrder(c)
    /\ Graduates
    /\ OnGraduation
    /\ OneInForce

-----------------------------------------------------------------------------
(* What no step undoes. *)

(***************************************************************************)
(* No row goes; the case and the steps of a clearance stay (the finance    *)
(* step unless a first signature is saved over the second), so does what a *)
(* certificate was issued on, and one that left the centre has left.       *)
(***************************************************************************)
Grown ==
    /\ raced \subseteq raced'
    /\ DOMAIN receipts \subseteq DOMAIN receipts'
    /\ DOMAIN clearances \subseteq DOMAIN clearances'
    /\ \A c \in DOMAIN clearances :
          /\ clearances'[c].case = clearances[c].case
          /\ clearances[c].custody => clearances'[c].custody
          /\ clearances[c].finance = "done" => clearances'[c].finance = "done" \/ "step" \in raced'
          /\ clearances[c].handed => clearances'[c].handed
    /\ DOMAIN certificates \subseteq DOMAIN certificates'
    /\ \A k \in DOMAIN certificates :
          /\ certificates'[k].clearance = certificates[k].clearance
          /\ certificates'[k].replaces = certificates[k].replaces
          /\ certificates[k].status # "ISSUED" => certificates'[k].status # "ISSUED"

LEMMA StepsLast ==
    ASSUME Grown, NEW c \in DOMAIN clearances, StepsStand(c)
    PROVE  StepsStand(c)'
  BY DEF Grown, StepsStand, StepsDone

LEMMA HandoverLasts ==
    ASSUME Grown, NEW c, HandedOver(c)
    PROVE  HandedOver(c)'
  BY DEF Grown, HandedOver

LEMMA GrownFits ==
    ASSUME Grown, NEW q, Fits(q)
    PROVE  Fits(q)'
<1>1. q.op = "close" => StepsStand(q.on)'
  BY StepsLast DEF Fits, FormOps
<1>2. /\ q.op \in FormOps \cup {"issue", "handover"} => q.on \in DOMAIN clearances'
      /\ q.op = "issue" => clearances'[q.on].case = "GRADUATION"
  BY DEF Grown, Fits
<1>3. /\ q.op = "issue_replacement" => q.on \in DOMAIN certificates'
      /\ q.op = "handover" => /\ q.with \in DOMAIN certificates'
                              /\ certificates'[q.with].replaces = 0
                              /\ certificates'[q.with].clearance = q.on
  BY DEF Grown, Fits
<1>4. q.op = "approve_void" => q.on \in DOMAIN receipts' /\ q.to \in {"", "PENDING_FINANCE"}
  BY DEF Grown, Fits
<1>5. q.op = "certify" => q.to \in {"", "certified", "done"}
  BY DEF Fits
<1> QED
  BY <1>1, <1>2, <1>3, <1>4, <1>5 DEF Fits

-----------------------------------------------------------------------------
(* Requests. *)

LEMMA OutdatesIs ==
    \A a, b :
        /\ Outdates(a, b) \subseteq Races
        /\ Moving(a) /\ (Moving(b) \/ b.op = "open") => "status" \in Outdates(a, b)
        /\ a.op = "issue" /\ b.op = "issue" => "certificate" \in Outdates(a, b)
        /\ {a.op, b.op} \subseteq {"issue_replacement", "handover"} => "certificate" \in Outdates(a, b)
        /\ a.op = "second_certify" /\ b.op = "certify" /\ b.on = a.on /\ b.to = "certified"
           => "step" \in Outdates(a, b)
<1> SUFFICES ASSUME NEW a, NEW b
             PROVE  /\ Outdates(a, b) \subseteq Races
                    /\ Moving(a) /\ (Moving(b) \/ b.op = "open") => "status" \in Outdates(a, b)
                    /\ a.op = "issue" /\ b.op = "issue" => "certificate" \in Outdates(a, b)
                    /\ {a.op, b.op} \subseteq {"issue_replacement", "handover"}
                       => "certificate" \in Outdates(a, b)
                    /\ a.op = "second_certify" /\ b.op = "certify" /\ b.on = a.on /\ b.to = "certified"
                       => "step" \in Outdates(a, b)
  OBVIOUS
<1>1. Outdates(a, b) \subseteq Races
  BY DEF Outdates
<1>2. Moving(a) /\ (Moving(b) \/ b.op = "open") => "status" \in Outdates(a, b)
  BY DEF Outdates, Races, Moving
<1>3. a.op = "issue" /\ b.op = "issue" => "certificate" \in Outdates(a, b)
  BY DEF Outdates, Races
<1>4. {a.op, b.op} \subseteq {"issue_replacement", "handover"} => "certificate" \in Outdates(a, b)
  BY DEF Outdates, Races
<1>5. a.op = "second_certify" /\ b.op = "certify" /\ b.on = a.on /\ b.to = "certified"
      => "step" \in Outdates(a, b)
  BY DEF Outdates, Races
<1> QED
  BY <1>1, <1>2, <1>3, <1>4, <1>5

LEMMA IdleIs ==
    /\ Idle.op = "idle" /\ Idle.on = 0 /\ Idle.with = 0 /\ Idle.from = "" /\ Idle.to = ""
    /\ Idle.overtaken = {} /\ Idle \in Request
<1>1. {} \in SUBSET Races
  OBVIOUS
<1> QED
  BY <1>1 DEF Idle, Request

LEMMA IdleFits == Fits(Idle) /\ StatusJudged(Idle) /\ PaperJudged(Idle)
  BY IdleIs DEF Fits, StatusJudged, PaperJudged, CertificateJudged, StepJudged, Moving, StatusOps, FormOps

LEMMA IdleFitsNext == Fits(Idle)' /\ StatusJudged(Idle)' /\ PaperJudged(Idle)'
<1>1. PICK q : q = Idle
  OBVIOUS
<1>2. Fits(q)' /\ StatusJudged(q)' /\ PaperJudged(q)'
  BY <1>1, IdleIs DEF Fits, StatusJudged, PaperJudged, CertificateJudged, StepJudged, Moving, StatusOps, FormOps
<1> QED
  BY <1>1, <1>2

(***************************************************************************)
(* q is r, told of what the commit of a took away from under it.           *)
(***************************************************************************)
Told(q, r, a) ==
    /\ q \in Request
    /\ q.op = r.op /\ q.on = r.on /\ q.with = r.with /\ q.from = r.from /\ q.to = r.to
    /\ q.overtaken = r.overtaken \cup Outdates(a, r)

LEMMA Telling ==
    ASSUME NEW r \in Request, NEW a, NEW q, q = [r EXCEPT !.overtaken = @ \cup Outdates(a, r)]
    PROVE  Told(q, r, a)
<1> DEFINE o == r.overtaken \cup Outdates(a, r)
<1>1. o \in SUBSET Races
  BY OutdatesIs DEF Request
<1> HIDE DEF o
<1>2. q = [op |-> r.op, on |-> r.on, with |-> r.with, from |-> r.from, to |-> r.to, overtaken |-> o]
  BY DEF Request, o
<1>3. q \in Request
  <2> DEFINE from == Sweepable \cup FormStatuses \cup {""}
             to == Statuses \cup Cases \cup {"certified", "done", ""}
             ops == Ops \cup {"idle"}
  <2>1. Request = [op : ops, on : Nat, with : Nat, from : from, to : to, overtaken : SUBSET Races]
    BY DEF Request
  <2> HIDE DEF from, to, ops
  <2> QED
    BY <1>1, <1>2, <2>1
<1> QED
  BY <1>2, <1>3 DEF Told, o

LEMMA FinishTells ==
    ASSUME RequestsTyped, NEW s \in Sessions, Finish(s)
    PROVE  /\ req' \in [Sessions -> Request]
           /\ req'[s] = Idle
           /\ raced' = raced \cup req[s].overtaken /\ raced' \in SUBSET Races
           /\ \A t \in Sessions \ {s} : Told(req'[t], req[t], req[s])
<1>1. req' = [t \in Sessions |->
                IF t = s THEN Idle
                ELSE [req[t] EXCEPT !.overtaken = @ \cup Outdates(req[s], req[t])]]
  BY DEF Finish
<1>2. ASSUME NEW t \in Sessions, t # s PROVE Told(req'[t], req[t], req[s])
  <2>1. req'[t] = [req[t] EXCEPT !.overtaken = @ \cup Outdates(req[s], req[t])]
    BY <1>1, <1>2
  <2>2. req[t] \in Request
    BY DEF RequestsTyped
  <2> QED
    BY <2>1, <2>2, Telling
<1>3. req'[s] = Idle
  BY <1>1
<1>4. \A t \in Sessions : req'[t] \in Request
  BY <1>2, <1>3, IdleIs DEF Told
<1>5. raced' = raced \cup req[s].overtaken /\ raced' \in SUBSET Races
  BY DEF Finish, RequestsTyped, Request
<1> QED
  BY <1>1, <1>2, <1>3, <1>4, <1>5

(***************************************************************************)
(* What holds next of a request holds of what a session then has.          *)
(***************************************************************************)
LEMMA AtNext ==
    ASSUME NEW t, NEW r, r = req'[t], Fits(r)', StatusJudged(r)', PaperJudged(r)'
    PROVE  Fits(req[t])' /\ StatusJudged(req[t])' /\ PaperJudged(req[t])'
<1>1. Fits(req[t])'
  <2>1. StepsStand(req[t].on)' <=> StepsStand(r.on)'
    BY DEF StepsStand, StepsDone
  <2> QED
    BY <2>1 DEF Fits
<1>2. StatusJudged(req[t])'
  BY DEF StatusJudged, Moving
<1>3. PaperJudged(req[t])'
  BY DEF PaperJudged, CertificateJudged, StepJudged
<1> QED
  BY <1>1, <1>2, <1>3

(***************************************************************************)
(* What a step may do to the status, the certificates and the finance step *)
(* under a request: a is the request it serves.                            *)
(***************************************************************************)
StatusMoves(a) == status' = status \/ Moving(a)

PapersMove(a) ==
    \/ certificates' = certificates
    \/ a.op = "issue" /\ \A k \in DOMAIN certificates : certificates'[k] = certificates[k]
    \/ a.op \in {"issue_replacement", "handover"}

StepMoves(a, c, finance) ==
    \/ finance = clearances[c].finance
    \/ finance # "done" /\ clearances[c].finance # "done"
    \/ finance = "done" /\ a.op = "second_certify" /\ a.on = c
    \/ "step" \in raced'

StepsMove(a) ==
    /\ raced \subseteq raced'
    /\ \A c \in DOMAIN clearances : StepMoves(a, c, clearances'[c].finance)

(***************************************************************************)
(* The requests in flight survive a commit.                                *)
(***************************************************************************)
LEMMA JudgedLast ==
    ASSUME NEW a, NEW r \in Request, NEW q, Told(q, r, a), Fits(r), StatusMoves(a), PapersMove(a),
           a.op \in {"issue_replacement", "handover"} => certificates # <<>>,
           StepsMove(a), StatusJudged(r), PaperJudged(r)
    PROVE  StatusJudged(q)' /\ PaperJudged(q)'
<1>1. /\ q.op = r.op /\ q.on = r.on /\ q.with = r.with /\ q.to = r.to
      /\ q.overtaken = r.overtaken \cup Outdates(a, r)
      /\ Moving(q) <=> Moving(r)
  BY DEF Told, Moving
<1>2. StatusJudged(q)'
  <2>1. SUFFICES ASSUME "status" \notin q.overtaken, Moving(q) \/ q.op = "open"
                 PROVE  StatusJudged(q)'
    BY DEF StatusJudged, Moving
  <2>2. "status" \notin r.overtaken /\ "status" \notin Outdates(a, r)
    BY <1>1, <2>1
  <2>3. status' = status
    BY <1>1, <2>1, <2>2, OutdatesIs DEF StatusMoves
  <2> QED
    BY <1>1, <2>2, <2>3 DEF StatusJudged, Moving
<1>3. CertificateJudged(q)'
  <2>1. SUFFICES ASSUME "certificate" \notin q.overtaken,
                        q.op \in {"issue", "issue_replacement", "handover"}
                 PROVE  CertificateJudged(q)'
    BY DEF PaperJudged, CertificateJudged
  <2>2. "certificate" \notin r.overtaken /\ "certificate" \notin Outdates(a, r)
    BY <1>1, <2>1
  <2>3. CASE q.op = "issue"
    <3>1. a.op # "issue"
      BY <1>1, <2>2, <2>3, OutdatesIs
    <3>2. certificates = <<>>
      BY <1>1, <2>2, <2>3 DEF PaperJudged, CertificateJudged
    <3>3. certificates' = certificates
      BY <3>1, <3>2 DEF PapersMove
    <3> QED
      BY <2>3, <3>2, <3>3 DEF PaperJudged, CertificateJudged
  <2>4. CASE q.op \in {"issue_replacement", "handover"}
    <3>1. a.op \notin {"issue_replacement", "handover"}
      BY <1>1, <2>2, <2>4, OutdatesIs
    <3>2. \A k \in DOMAIN certificates : certificates'[k] = certificates[k]
      BY <3>1 DEF PapersMove
    <3>3. q.op = "issue_replacement" => certificates'[q.on].status # "REPLACED"
      BY <1>1, <2>2, <3>2 DEF PaperJudged, CertificateJudged, Fits
    <3>4. q.op = "handover" => certificates'[q.with].status # "REPLACED"
      BY <1>1, <2>2, <3>2 DEF PaperJudged, CertificateJudged, Fits
    <3> QED
      BY <2>4, <3>3, <3>4 DEF PaperJudged, CertificateJudged
  <2> QED
    BY <2>1, <2>3, <2>4
<1>4. StepJudged(q)'
  <2>1. SUFFICES ASSUME "step" \notin q.overtaken \cup raced', q.op = "certify",
                        q.to \in {"certified", "done"}
                 PROVE  clearances'[q.on].finance = "done" <=> q.to = "done"
    BY DEF StepJudged
  <2>2. "step" \notin r.overtaken \cup raced /\ "step" \notin Outdates(a, r)
    BY <1>1, <2>1 DEF StepsMove
  <2>3. clearances[r.on].finance = "done" <=> r.to = "done"
    BY <1>1, <2>1, <2>2 DEF PaperJudged, StepJudged
  <2>4. r.on \in DOMAIN clearances
    BY <1>1, <2>1 DEF Fits, FormOps
  <2>5. StepMoves(a, r.on, clearances'[r.on].finance)
    BY <2>4 DEF StepsMove
  <2>6. r.to = "certified" => ~(a.op = "second_certify" /\ a.on = r.on)
    BY <1>1, <2>1, <2>2, OutdatesIs
  <2> QED
    BY <1>1, <2>1, <2>3, <2>5, <2>6 DEF StepMoves
<1> QED
  BY <1>2, <1>3, <1>4 DEF PaperJudged

LEMMA FitsToo ==
    ASSUME NEW a, NEW r, NEW q, Told(q, r, a), Fits(r)
    PROVE  Fits(q)
  BY DEF Told, Fits

LEMMA CommitKeeps ==
    ASSUME Inv, NEW s \in Sessions, Finish(s), Grown, StatusMoves(req[s]), PapersMove(req[s]),
           StepsMove(req[s])
    PROVE  /\ RequestsTyped'
           /\ raced' = raced \cup req[s].overtaken
<1>1. /\ RequestsTyped
      /\ req' \in [Sessions -> Request] /\ req'[s] = Idle
      /\ raced' = raced \cup req[s].overtaken /\ raced' \in SUBSET Races
      /\ \A t \in Sessions \ {s} : Told(req'[t], req[t], req[s])
  BY FinishTells DEF Inv
<1>2. ASSUME NEW t \in Sessions PROVE Fits(req[t])' /\ StatusJudged(req[t])' /\ PaperJudged(req[t])'
  <2>1. CASE t = s
    <3>1. req'[t] = Idle
      BY <1>1, <2>1
    <3> QED
      BY <3>1, IdleIs DEF Fits, StatusJudged, PaperJudged, CertificateJudged, StepJudged, Moving, StatusOps, FormOps
  <2>2. CASE t # s
    <3>1. PICK a : a = req[s]
      OBVIOUS
    <3>2. PICK r \in Request : r = req[t]
      BY <1>1 DEF RequestsTyped
    <3>3. PICK q : q = req'[t]
      OBVIOUS
    <3>4. Told(q, r, a) /\ Fits(r) /\ StatusJudged(r) /\ PaperJudged(r) /\ Fits(a)
      BY <1>1, <2>2, <3>1, <3>2, <3>3 DEF RequestsTyped
    <3>5. Fits(q)'
      <4>1. Fits(q)
        BY <3>4, FitsToo
      <4> QED
        BY <4>1, GrownFits
    <3>6. a.op \in {"issue_replacement", "handover"} => certificates # <<>>
      <4>1. a.op \in {"issue_replacement", "handover"} => DOMAIN certificates # {}
        BY <3>4 DEF Fits
      <4>2. DOMAIN <<>> = {}
        OBVIOUS
      <4> QED
        BY <4>1, <4>2
    <3>7. StepsMove(a)
      BY <3>1 DEF StepsMove, StepMoves
    <3>8. StatusJudged(q)' /\ PaperJudged(q)'
      BY <3>1, <3>4, <3>6, <3>7, JudgedLast
    <3> QED
      BY <3>3, <3>5, <3>8, AtNext
  <2> QED
    BY <2>1, <2>2
<1> QED
  BY <1>1, <1>2 DEF RequestsTyped

(***************************************************************************)
(* The same of a step outside the requests.                                *)
(***************************************************************************)
LEMMA QuietKeeps ==
    ASSUME Inv, Quiet, Grown, UNCHANGED <<status, papers>>
    PROVE  RequestsTyped'
<1>1. ASSUME NEW t \in Sessions PROVE Fits(req[t])' /\ StatusJudged(req[t])' /\ PaperJudged(req[t])'
  <2>1. PICK r : r = req[t]
    OBVIOUS
  <2>2. Fits(r) /\ StatusJudged(r) /\ PaperJudged(r) /\ req'[t] = r /\ raced' = raced
    BY <2>1 DEF Inv, RequestsTyped, Quiet
  <2>3. Fits(r)'
    BY <2>2, GrownFits
  <2>4. StatusJudged(r)' /\ PaperJudged(r)'
    BY <2>2 DEF StatusJudged, PaperJudged, CertificateJudged, StepJudged, Moving, papers
  <2> QED
    BY <2>2, <2>3, <2>4, AtNext
<1> QED
  BY <1>1 DEF Inv, RequestsTyped, Quiet

(***************************************************************************)
(* A request begins with what it has just read, or ends; no row changes.   *)
(***************************************************************************)
LEMMA SessionKeeps ==
    ASSUME Inv, NEW s \in Sessions, NEW q \in Request, Fits(q), StatusJudged(q), PaperJudged(q),
           req' = [req EXCEPT ![s] = q], UNCHANGED <<status, voucher, money, papers, raced>>
    PROVE  Inv'
<1>1. UNCHANGED <<lines, oldDebt, receipts, clearances, certificates>>
  BY DEF money, papers
<1>2. req \in [Sessions -> Request] /\ \A t \in Sessions : req'[t] = IF t = s THEN q ELSE req[t]
  BY DEF Inv, RequestsTyped
<1>3. ASSUME NEW t \in Sessions PROVE Fits(req[t])' /\ StatusJudged(req[t])' /\ PaperJudged(req[t])'
  <2>1. PICK r : r = req'[t]
    OBVIOUS
  <2>2. Fits(r) /\ StatusJudged(r) /\ PaperJudged(r)
    BY <1>2, <2>1 DEF Inv, RequestsTyped
  <2>3. Fits(r)' /\ StatusJudged(r)' /\ PaperJudged(r)'
    <3>1. Fits(r)'
      BY <1>1, <2>2 DEF Fits, StepsStand, StepsDone
    <3>2. StatusJudged(r)' /\ PaperJudged(r)'
      BY <1>1, <2>2 DEF StatusJudged, PaperJudged, CertificateJudged, StepJudged, Moving
    <3> QED
      BY <3>1, <3>2
  <2> QED
    BY <2>1, <2>3, AtNext
<1>4. RequestsTyped'
  BY <1>2, <1>3 DEF Inv, RequestsTyped
<1> QED
  BY <1>1, <1>4 DEF Inv, MoneyTyped, PapersTyped, InOrder, HandedOver, StepsStand, StepsDone, Graduates,
                    OnGraduation, OneInForce, InForce

LEMMA RollbackKeeps ==
    ASSUME Inv, NEW s \in Sessions, Rollback(s)
    PROVE  Inv'
  BY SessionKeeps, IdleFits, IdleIs DEF Rollback

-----------------------------------------------------------------------------
(* Money. *)

LEMMA RowsTyped ==
    ASSUME Inv
    PROVE  /\ DOMAIN lines = 1 .. Len(lines) /\ Len(lines) \in Nat
           /\ \A l \in DOMAIN lines : lines[l] \in Line
           /\ DOMAIN receipts = 1 .. Len(receipts) /\ Len(receipts) \in Nat
           /\ \A r \in DOMAIN receipts : receipts[r] \in Receipt
           /\ DOMAIN clearances = 1 .. Len(clearances) /\ Len(clearances) \in Nat
           /\ \A c \in DOMAIN clearances : c \in Nat \ {0} /\ clearances[c] \in Clearance
           /\ DOMAIN certificates = 1 .. Len(certificates) /\ Len(certificates) \in Nat
           /\ \A k \in DOMAIN certificates : k \in Nat \ {0} /\ certificates[k] \in Certificate
<1>1. /\ DOMAIN lines = 1 .. Len(lines) /\ Len(lines) \in Nat
      /\ \A l \in DOMAIN lines : lines[l] \in Line
  BY LenProperties DEF Inv, MoneyTyped
<1>2. /\ DOMAIN receipts = 1 .. Len(receipts) /\ Len(receipts) \in Nat
      /\ \A r \in DOMAIN receipts : receipts[r] \in Receipt
  BY LenProperties DEF Inv, MoneyTyped
<1>3. /\ DOMAIN clearances = 1 .. Len(clearances) /\ Len(clearances) \in Nat
      /\ \A c \in DOMAIN clearances : c \in Nat \ {0} /\ clearances[c] \in Clearance
  BY LenProperties DEF Inv
<1>4. /\ DOMAIN certificates = 1 .. Len(certificates) /\ Len(certificates) \in Nat
      /\ \A k \in DOMAIN certificates : k \in Nat \ {0} /\ certificates[k] \in Certificate
  BY LenProperties DEF Inv, PapersTyped
<1> QED
  BY <1>1, <1>2, <1>3, <1>4

LEMMA RankIs ==
    ASSUME NEW type \in {"OPENING_BALANCE", "TUITION", "EXTRA_FEE"}
    PROVE  Rank[type] \in Nat
  BY DEF Rank

(***************************************************************************)
(* A unit of money goes to a line that is owed, the first of them.         *)
(***************************************************************************)
LEMMA AllocateIs ==
    ASSUME Inv
    PROVE  Allocate \in DOMAIN lines \cup {0}
<1>1. SUFFICES ASSUME Owed # {} PROVE \E l \in Owed : \A m \in Owed : Precedes(l, m)
  BY DEF Allocate, Owed
<1> DEFINE Before(l) == {m \in Owed : ~Precedes(l, m)}
           all == DOMAIN lines
           heads == {Before(l) : l \in Owed}
<1>2. IsFiniteSet(all) /\ Owed \subseteq all
  BY RowsTyped, FS_Interval DEF Owed
<1>3. heads \in SUBSET SUBSET all /\ heads # {}
  BY <1>1, <1>2
<1>4. PICK f \in Owed : \A g \in Owed : Before(g) \subseteq Before(f) => Before(g) = Before(f)
  <2>1. PICK x \in heads : \A y \in heads : y \subseteq x => y = x
    <3> HIDE DEF all, heads
    <3> QED
      BY <1>2, <1>3, SmallestSet
  <2> HIDE DEF Before
  <2> QED
    BY <2>1
<1>5. ASSUME NEW l \in Owed
      PROVE  l \in Int /\ Rank[lines[l].type] \in Int
  <2>1. lines[l] \in Line /\ l \in Int
    BY <1>2, RowsTyped
  <2>2. lines[l].type \in {"OPENING_BALANCE", "TUITION", "EXTRA_FEE"}
    BY <2>1 DEF Line
  <2> QED
    BY <2>1, <2>2, RankIs
<1>6. ASSUME NEW g \in Owed, ~Precedes(f, g) PROVE FALSE
  <2>1. g \in Before(f) /\ g \notin Before(g)
    BY <1>5, <1>6 DEF Precedes
  <2>2. ASSUME NEW h \in Before(g) PROVE h \in Before(f)
    <3>1. h \in Owed /\ ~Precedes(g, h)
      OBVIOUS
    <3>2. ~Precedes(f, h)
      BY <1>5, <1>6, <3>1 DEF Precedes
    <3> QED
      BY <3>1, <3>2
  <2> QED
    BY <1>4, <2>1, <2>2
<1> QED
  BY <1>6

(***************************************************************************)
(* Nothing of the papers moves while clearances and certificates stay.     *)
(***************************************************************************)
LEMMA PapersKeep ==
    ASSUME Inv, UNCHANGED papers, raced \subseteq raced'
    PROVE  /\ clearances' \in Seq(Clearance) /\ PapersTyped' /\ OnGraduation'
           /\ \A c \in DOMAIN clearances' : InOrder(c)'
<1>1. UNCHANGED <<clearances, certificates>>
  BY DEF papers
<1>2. PapersTyped' /\ OnGraduation'
  BY <1>1 DEF Inv, PapersTyped, OnGraduation
<1>3. ASSUME NEW c \in DOMAIN clearances PROVE InOrder(c)'
  BY <1>1 DEF Inv, InOrder, HandedOver, StepsStand, StepsDone
<1> QED
  BY <1>1, <1>2, <1>3 DEF Inv

LEMMA StayIsGrown ==
    ASSUME UNCHANGED papers, DOMAIN receipts \subseteq DOMAIN receipts', raced \subseteq raced'
    PROVE  Grown
  BY DEF papers, Grown

LEMMA MoneyKeeps ==
    ASSUME Inv, Quiet, MoneyTyped', DOMAIN receipts \subseteq DOMAIN receipts',
           UNCHANGED <<status, papers>>, voucher' \in BOOLEAN
    PROVE  Inv'
<1>1. RequestsTyped' /\ raced' = raced
  BY StayIsGrown, QuietKeeps DEF papers, Quiet
<1>2. Graduates' /\ OneInForce'
  BY DEF Inv, Graduates, OneInForce, InForce, papers, Quiet
<1> QED
  BY <1>1, <1>2, PapersKeep DEF Inv

LEMMA ReceiptWritten ==
    ASSUME receipts \in Seq(Receipt), NEW r \in DOMAIN receipts, NEW new \in Receipt,
           receipts' = [receipts EXCEPT ![r] = new]
    PROVE  /\ receipts' \in Seq(Receipt) /\ DOMAIN receipts' = DOMAIN receipts
           /\ \A p \in DOMAIN receipts : receipts'[p] = IF p = r THEN new ELSE receipts[p]
  BY ExceptSeq, LenProperties

LEMMA TakePaymentKeeps ==
    ASSUME Inv, TakePayment
    PROVE  Inv'
<1> DEFINE new == [line |-> Allocate, returned |-> 0, void |-> "none"]
<1>1. /\ receipts' = Append(receipts, new)
      /\ Quiet /\ UNCHANGED <<status, voucher, lines, oldDebt, papers>>
  BY DEF TakePayment
<1>2. new \in Receipt /\ new.line \in DOMAIN lines \cup {0}
  BY AllocateIs, RowsTyped DEF Receipt
<1> HIDE DEF new
<1>3. /\ receipts' \in Seq(Receipt) /\ Len(receipts') = Len(receipts) + 1
      /\ \A r \in 1 .. Len(receipts) : receipts'[r] = receipts[r]
      /\ receipts'[Len(receipts) + 1] = new
  BY <1>1, <1>2, AppendProperties DEF Inv, MoneyTyped
<1>4. DOMAIN receipts' = DOMAIN receipts \cup {Len(receipts) + 1}
  BY <1>3, RowsTyped, LenProperties
<1>5. MoneyTyped'
  BY <1>1, <1>2, <1>3, <1>4, RowsTyped DEF Inv, MoneyTyped
<1> QED
  BY <1>1, <1>4, <1>5, MoneyKeeps DEF Inv

LEMMA LineAdded ==
    ASSUME Inv, NEW new \in Line, lines' = Append(lines, new), UNCHANGED receipts,
           oldDebt' \in BOOLEAN
    PROVE  MoneyTyped'
<1>1. lines' \in Seq(Line) /\ Len(lines') = Len(lines) + 1
  BY AppendProperties DEF Inv, MoneyTyped
<1>2. DOMAIN lines \subseteq DOMAIN lines'
  BY <1>1, RowsTyped, LenProperties
<1> QED
  BY <1>1, <1>2 DEF Inv, MoneyTyped

LEMMA NewLineIs ==
    ASSUME NEW type \in {"OPENING_BALANCE", "TUITION", "EXTRA_FEE"}
    PROVE  NewLine(type) \in Line
<1> DEFINE no == FALSE
<1>1. no \in BOOLEAN
  OBVIOUS
<1> HIDE DEF no
<1>2. NewLine(type) = [type |-> type, due |-> 1, voided |-> no]
  BY DEF NewLine, no
<1> QED
  BY <1>1, <1>2 DEF Line

LEMMA ChargesKeep ==
    ASSUME Inv, ChargeExtraFee \/ FindOldDebt \/ PostOldDebt
    PROVE  Inv'
<1>1. CASE ChargeExtraFee
  <2>1. MoneyTyped'
    BY <1>1, NewLineIs, LineAdded DEF ChargeExtraFee, Inv, MoneyTyped
  <2> QED
    BY <1>1, <2>1, MoneyKeeps DEF ChargeExtraFee, Inv
<1>2. CASE FindOldDebt
  <2>1. MoneyTyped'
    BY <1>2 DEF FindOldDebt, Inv, MoneyTyped
  <2> QED
    BY <1>2, <2>1, MoneyKeeps DEF FindOldDebt, Inv
<1>3. CASE PostOldDebt
  <2>1. MoneyTyped'
    BY <1>3, NewLineIs, LineAdded DEF PostOldDebt
  <2> QED
    BY <1>3, <2>1, MoneyKeeps DEF PostOldDebt, Inv
<1> QED
  BY <1>1, <1>2, <1>3

LEMMA VoucherKeeps ==
    ASSUME Inv, RecordVoucher
    PROVE  Inv'
<1>1. MoneyTyped' /\ UNCHANGED receipts
  BY DEF RecordVoucher, money, Inv, MoneyTyped
<1> QED
  BY <1>1, MoneyKeeps DEF RecordVoucher

LEMMA ReceiptMarked ==
    ASSUME Inv, NEW r \in DOMAIN receipts, NEW mark \in {"none", "pending", "rejected", "approved"},
           receipts' = [receipts EXCEPT ![r].void = mark], UNCHANGED oldDebt,
           lines' \in Seq(Line), DOMAIN lines' = DOMAIN lines
    PROVE  MoneyTyped' /\ DOMAIN receipts' = DOMAIN receipts
<1> DEFINE new == [receipts[r] EXCEPT !.void = mark]
<1>1. receipts' = [receipts EXCEPT ![r] = new]
  OBVIOUS
<1>2. receipts[r] \in Receipt
  BY RowsTyped
<1>3. new \in Receipt /\ new.line = receipts[r].line
  BY <1>2 DEF Receipt
<1> HIDE DEF new
<1>4. /\ receipts' \in Seq(Receipt) /\ DOMAIN receipts' = DOMAIN receipts
      /\ \A p \in DOMAIN receipts : receipts'[p] = IF p = r THEN new ELSE receipts[p]
  BY <1>1, <1>3, ReceiptWritten DEF Inv, MoneyTyped
<1> QED
  BY <1>3, <1>4 DEF Inv, MoneyTyped

LEMMA MarksKeep ==
    ASSUME Inv, NEW r \in DOMAIN receipts, RequestVoid(r) \/ RejectVoid(r)
    PROVE  Inv'
<1>1. PICK mark \in {"none", "pending"} :
         /\ receipts' = [receipts EXCEPT ![r].void = mark]
         /\ Quiet /\ UNCHANGED <<status, voucher, lines, oldDebt, papers>>
  BY DEF RequestVoid, RejectVoid, MarkVoid
<1>2. lines' \in Seq(Line) /\ DOMAIN lines' = DOMAIN lines
  BY <1>1 DEF Inv, MoneyTyped
<1>3. MoneyTyped' /\ DOMAIN receipts' = DOMAIN receipts
  BY <1>1, <1>2, ReceiptMarked
<1> QED
  BY <1>1, <1>3, MoneyKeeps DEF Inv

(***************************************************************************)
(* A credit return: one unit more handed back of as many issued receipts   *)
(* as the credit has units.                                                *)
(***************************************************************************)
LEMMA ReturnedIs ==
    ASSUME Inv, ReturnCredit
    PROVE  \E back \in SUBSET Issued :
              /\ Cardinality(back) = -Balance
              /\ DOMAIN receipts' = DOMAIN receipts /\ receipts' \in Seq(Receipt)
              /\ \A r \in DOMAIN receipts :
                    /\ receipts'[r].line = receipts[r].line /\ receipts'[r].void = receipts[r].void
                    /\ receipts'[r].returned = IF r \in back THEN receipts[r].returned + 1
                                               ELSE receipts[r].returned
<1>1. PICK back \in kSubset(-Balance, CreditRows) :
         receipts' = [r \in DOMAIN receipts |->
                        [receipts[r] EXCEPT !.returned = IF r \in back THEN @ + 1 ELSE @]]
  BY DEF ReturnCredit
<1>2. back \in SUBSET Issued /\ Cardinality(back) = -Balance
  BY DEF kSubset, CreditRows
<1> DEFINE after(r) == [receipts[r] EXCEPT !.returned = IF r \in back THEN @ + 1 ELSE @]
<1>3. ASSUME NEW r \in DOMAIN receipts
      PROVE  /\ after(r) \in Receipt
             /\ after(r).line = receipts[r].line /\ after(r).void = receipts[r].void
             /\ after(r).returned = IF r \in back THEN receipts[r].returned + 1
                                    ELSE receipts[r].returned
  <2>1. receipts[r] \in Receipt
    BY RowsTyped
  <2> QED
    BY <2>1 DEF Receipt
<1>4. receipts' = [r \in DOMAIN receipts |-> after(r)]
  BY <1>1
<1> HIDE DEF after
<1>5. DOMAIN receipts' = 1 .. Len(receipts) /\ Len(receipts) \in Nat
  BY <1>4, RowsTyped
<1>6. receipts' \in [1 .. Len(receipts) -> Receipt]
  BY <1>3, <1>4, <1>5, RowsTyped
<1>7. receipts' \in Seq(Receipt)
  BY <1>5, <1>6, SeqDef
<1>8. \A r \in DOMAIN receipts : receipts'[r] = after(r)
  BY <1>4
<1> QED
  BY <1>2, <1>3, <1>5, <1>7, <1>8, RowsTyped

(***************************************************************************)
(* It tells the voids in flight that the money they judged has moved.      *)
(***************************************************************************)
LEMMA ReturnTells ==
    ASSUME RequestsTyped, ReturnCredit
    PROVE  /\ req' \in [Sessions -> Request]
           /\ \A s \in Sessions :
                 /\ req'[s].op = req[s].op /\ req'[s].on = req[s].on /\ req'[s].with = req[s].with
                 /\ req'[s].from = req[s].from /\ req'[s].to = req[s].to
                 /\ req'[s].overtaken = IF req[s].op = "approve_void"
                                        THEN req[s].overtaken \cup {"money"} ELSE req[s].overtaken
<1>1. req' = [s \in Sessions |->
                IF Serving(s, "approve_void")
                THEN [req[s] EXCEPT !.overtaken = @ \cup {"money"}] ELSE req[s]]
  BY DEF ReturnCredit
<1> DEFINE new(s) == [req[s] EXCEPT !.overtaken = @ \cup {"money"}]
<1>2. ASSUME NEW s \in Sessions
      PROVE  /\ new(s) \in Request
             /\ new(s).op = req[s].op /\ new(s).on = req[s].on /\ new(s).with = req[s].with
             /\ new(s).from = req[s].from /\ new(s).to = req[s].to
             /\ new(s).overtaken = req[s].overtaken \cup {"money"}
  <2> DEFINE from == Sweepable \cup FormStatuses \cup {""}
             to == Statuses \cup Cases \cup {"certified", "done", ""}
             ops == Ops \cup {"idle"}
             told == req[s].overtaken \cup {"money"}
  <2>1. req[s] \in [op : ops, on : Nat, with : Nat, from : from, to : to, overtaken : SUBSET Races]
    BY DEF RequestsTyped, Request
  <2>2. told \in SUBSET Races
    BY <2>1 DEF Races
  <2>3. Request = [op : ops, on : Nat, with : Nat, from : from, to : to, overtaken : SUBSET Races]
    BY DEF Request
  <2> HIDE DEF from, to, ops, told
  <2>4. new(s) = [op |-> req[s].op, on |-> req[s].on, with |-> req[s].with, from |-> req[s].from,
                  to |-> req[s].to, overtaken |-> told]
    BY <2>1 DEF told
  <2>5. told = req[s].overtaken \cup {"money"}
    BY DEF told
  <2> HIDE DEF new
  <2> QED
    BY <2>1, <2>2, <2>3, <2>4, <2>5
<1>3. \A s \in Sessions : req'[s] = IF req[s].op = "approve_void" THEN new(s) ELSE req[s]
  BY <1>1 DEF Serving
<1> HIDE DEF new
<1>4. \A s \in Sessions : req'[s] \in Request
  BY <1>2, <1>3 DEF RequestsTyped
<1>5. ASSUME NEW s \in Sessions
      PROVE  /\ req'[s].op = req[s].op /\ req'[s].on = req[s].on /\ req'[s].with = req[s].with
             /\ req'[s].from = req[s].from /\ req'[s].to = req[s].to
             /\ req'[s].overtaken = IF req[s].op = "approve_void"
                                    THEN req[s].overtaken \cup {"money"} ELSE req[s].overtaken
  <2>1. CASE req[s].op = "approve_void"
    BY <1>2, <1>3, <2>1
  <2>2. CASE req[s].op # "approve_void"
    BY <1>3, <2>2
  <2> QED
    BY <2>1, <2>2
<1> QED
  BY <1>1, <1>4, <1>5

LEMMA ReturnKeeps ==
    ASSUME Inv, ReturnCredit
    PROVE  Inv'
<1>1. UNCHANGED <<status, voucher, lines, oldDebt, clearances, certificates, raced>>
  BY DEF ReturnCredit, papers
<1>2. DOMAIN receipts' = DOMAIN receipts /\ MoneyTyped'
  BY <1>1, ReturnedIs DEF Inv, MoneyTyped
<1>3. /\ req' \in [Sessions -> Request]
      /\ \A s \in Sessions :
            /\ req'[s].op = req[s].op /\ req'[s].on = req[s].on /\ req'[s].with = req[s].with
            /\ req'[s].from = req[s].from /\ req'[s].to = req[s].to
            /\ req[s].overtaken \subseteq req'[s].overtaken
  BY ReturnTells DEF Inv
<1>4. ASSUME NEW s \in Sessions PROVE Fits(req[s])' /\ StatusJudged(req[s])' /\ PaperJudged(req[s])'
  <2>1. PICK q : q = req[s]
    OBVIOUS
  <2>2. PICK n : n = req'[s]
    OBVIOUS
  <2>3. /\ n.op = q.op /\ n.on = q.on /\ n.with = q.with /\ n.from = q.from /\ n.to = q.to
        /\ q.overtaken \subseteq n.overtaken
    BY <1>3, <2>1, <2>2
  <2>4. Fits(q) /\ StatusJudged(q) /\ PaperJudged(q)
    BY <2>1 DEF Inv, RequestsTyped
  <2>5. Fits(n)'
    <3>1. Fits(n)
      BY <2>3, <2>4 DEF Fits
    <3>2. Grown
      BY <1>1, <1>2, StayIsGrown DEF papers
    <3> QED
      BY <3>1, <3>2, GrownFits
  <2>6. StatusJudged(n)' /\ PaperJudged(n)'
    BY <1>1, <2>3, <2>4 DEF StatusJudged, PaperJudged, CertificateJudged, StepJudged, Moving
  <2> QED
    BY <2>2, <2>5, <2>6, AtNext
<1>5. RequestsTyped'
  BY <1>1, <1>3, <1>4 DEF Inv, RequestsTyped
<1>6. Graduates' /\ OneInForce'
  BY <1>1 DEF Inv, Graduates, OneInForce, InForce
<1> QED
  BY <1>1, <1>2, <1>5, <1>6, PapersKeep DEF Inv, papers

-----------------------------------------------------------------------------
(* Commits that may move the status. *)

LEMMA StatusKeeps ==
    ASSUME Inv, NEW s \in Sessions, Finish(s), StatusMoves(req[s]), status' \in Statuses,
           MoneyTyped', DOMAIN receipts \subseteq DOMAIN receipts', UNCHANGED <<voucher, papers>>
    PROVE  Inv'
<1>1. RequestsTyped' /\ raced' = raced \cup req[s].overtaken
  <2>1. raced \subseteq raced' /\ UNCHANGED <<clearances, certificates>>
    BY FinishTells DEF Inv, papers
  <2>2. StepsMove(req[s]) /\ PapersMove(req[s])
    BY <2>1 DEF StepsMove, StepMoves, PapersMove
  <2> QED
    BY <2>1, <2>2, StayIsGrown, CommitKeeps
<1>2. Graduates'
  <2>1. SUFFICES ASSUME NEW c \in DOMAIN clearances, clearances[c].case = "GRADUATION",
                        "status" \notin raced'
                 PROVE  status' = "COMPLETED"
    BY DEF Graduates, papers
  <2>2. status = "COMPLETED" /\ "status" \notin req[s].overtaken
    BY <1>1, <2>1 DEF Inv, Graduates
  <2>3. ~Moving(req[s])
    BY <2>2 DEF Inv, RequestsTyped, StatusJudged, Final
  <2> QED
    BY <2>2, <2>3 DEF StatusMoves
<1>3. OneInForce'
  BY <1>1 DEF Inv, OneInForce, InForce, papers
<1> QED
  BY <1>1, <1>2, <1>3, PapersKeep DEF Inv

LEMMA ExitIs ==
    /\ DOMAIN Exit = {"complete", "withdraw", "dismiss"}
    /\ Exit["complete"] = "COMPLETED" /\ Exit["withdraw"] = "WITHDRAWN" /\ Exit["dismiss"] = "DISMISSED"
  BY DEF Exit

LEMMA MoveKeeps ==
    ASSUME Inv, NEW s \in Sessions, WriteApprove(s) \/ WriteLeave(s)
    PROVE  Inv'
<1>1. /\ req[s].op \in {"approve", "complete", "withdraw", "dismiss"} /\ status' = req[s].to
      /\ Finish(s) /\ UNCHANGED <<voucher, lines, oldDebt, receipts, papers>>
  BY ExitIs DEF WriteApprove, WriteLeave, MoveStatus, Serving
<1>2. status' \in Statuses /\ StatusMoves(req[s])
  BY <1>1 DEF Inv, RequestsTyped, Fits, StatusMoves, Moving, StatusOps
<1>3. MoneyTyped'
  BY <1>1 DEF Inv, MoneyTyped
<1> QED
  BY <1>1, <1>2, <1>3, StatusKeeps

LEMMA CancelRegistrationKeeps ==
    ASSUME Inv, NEW s \in Sessions, WriteCancelRegistration(s)
    PROVE  Inv'
<1> DEFINE after == [l \in DOMAIN lines |-> [lines[l] EXCEPT !.voided = TRUE]]
<1>1. /\ req[s].op = "cancel_registration" /\ status' = req[s].to /\ lines' = after
      /\ Finish(s) /\ UNCHANGED <<voucher, oldDebt, receipts, papers>>
  BY DEF WriteCancelRegistration, MoveStatus, Serving
<1>2. status' \in Statuses /\ StatusMoves(req[s])
  BY <1>1 DEF Inv, RequestsTyped, Fits, StatusMoves, Moving, StatusOps
<1>3. ASSUME NEW l \in DOMAIN lines PROVE [lines[l] EXCEPT !.voided = TRUE] \in Line
  BY RowsTyped DEF Line
<1>4. after \in [1 .. Len(lines) -> Line] /\ Len(lines) \in Nat
  BY <1>3, RowsTyped
<1>5. after \in Seq(Line) /\ DOMAIN after = DOMAIN lines
  <2>1. DOMAIN after = DOMAIN lines
    OBVIOUS
  <2> HIDE DEF after
  <2> QED
    BY <1>4, <2>1, SeqDef
<1> HIDE DEF after
<1>6. MoneyTyped'
  BY <1>1, <1>5 DEF Inv, MoneyTyped
<1> QED
  BY <1>1, <1>2, <1>6, StatusKeeps

LEMMA WriteSweepKeeps ==
    ASSUME Inv, NEW s \in Sessions, WriteSweep(s)
    PROVE  Inv'
<1>1. /\ req[s].op = "sweep" /\ status' \in Sweepable
      /\ Finish(s) /\ UNCHANGED <<voucher, lines, oldDebt, receipts, papers>>
  BY DEF WriteSweep, Serving, Sweepable, money
<1>2. status' \in Statuses /\ StatusMoves(req[s])
  BY <1>1 DEF Statuses, StatusMoves, Moving, StatusOps
<1>3. MoneyTyped'
  BY <1>1 DEF Inv, MoneyTyped
<1> QED
  BY <1>1, <1>2, <1>3, StatusKeeps

LEMMA WriteApproveVoidKeeps ==
    ASSUME Inv, NEW s \in Sessions, WriteApproveVoid(s)
    PROVE  Inv'
<1>1. /\ req[s].op = "approve_void" /\ status' = IF req[s].to = "" THEN status ELSE req[s].to
      /\ receipts' = [receipts EXCEPT ![req[s].on].void = "approved"]
      /\ Finish(s) /\ UNCHANGED <<voucher, lines, oldDebt, papers>>
  BY DEF WriteApproveVoid, Serving
<1>2. req[s].on \in DOMAIN receipts /\ req[s].to \in {"", "PENDING_FINANCE"}
  BY <1>1 DEF Inv, RequestsTyped, Fits
<1>3. status' \in Statuses /\ StatusMoves(req[s])
  BY <1>1, <1>2 DEF Inv, Statuses, StatusMoves, Moving
<1>4. lines' \in Seq(Line) /\ DOMAIN lines' = DOMAIN lines
  BY <1>1 DEF Inv, MoneyTyped
<1>5. MoneyTyped' /\ DOMAIN receipts' = DOMAIN receipts
  BY <1>1, <1>2, <1>4, ReceiptMarked
<1> QED
  BY <1>1, <1>3, <1>5, StatusKeeps

-----------------------------------------------------------------------------
(* Commits that write a clearance. *)

LEMMA FormWritten ==
    ASSUME Inv, NEW c \in DOMAIN clearances, NEW row \in Clearance,
           clearances' = [clearances EXCEPT ![c] = row]
    PROVE  /\ clearances' \in Seq(Clearance) /\ DOMAIN clearances' = DOMAIN clearances
           /\ \A d \in DOMAIN clearances : clearances'[d] = IF d = c THEN row ELSE clearances[d]
  BY ExceptSeq, LenProperties DEF Inv

LEMMA FormKeeps ==
    ASSUME Inv, NEW s \in Sessions, Finish(s), NEW c \in DOMAIN clearances, NEW row \in Clearance,
           clearances' = [clearances EXCEPT ![c] = row], UNCHANGED <<status, voucher, money, certificates>>,
           row.case = clearances[c].case, row.handed <=> clearances[c].handed,
           clearances[c].custody => row.custody,
           StepMoves(req[s], c, row.finance),
           row.status = "COMPLETED" => clearances[c].status = "COMPLETED" \/ StepsStand(c)
    PROVE  Inv'
<1>1. /\ clearances' \in Seq(Clearance) /\ DOMAIN clearances' = DOMAIN clearances
      /\ \A d \in DOMAIN clearances : clearances'[d] = IF d = c THEN row ELSE clearances[d]
  BY FormWritten
<1>2. UNCHANGED <<lines, oldDebt, receipts>>
  BY DEF money
<1>3. Grown /\ StepsMove(req[s])
  <2>1. raced \subseteq raced'
    BY FinishTells DEF Inv
  <2>2. clearances[c].finance = "done" => row.finance = "done" \/ "step" \in raced'
    BY DEF StepMoves
  <2> QED
    BY <1>1, <1>2, <2>1, <2>2 DEF Grown, StepsMove, StepMoves
<1>4. RequestsTyped' /\ raced' = raced \cup req[s].overtaken
  BY <1>3, CommitKeeps DEF StatusMoves, PapersMove
<1>5. ASSUME NEW d \in DOMAIN clearances PROVE InOrder(d)'
  <2>1. InOrder(d)
    BY DEF Inv
  <2>2. clearances'[d].handed => HandedOver(d)'
    <3>1. clearances'[d].handed => clearances[d].handed
      BY <1>1
    <3> QED
      BY <1>3, <2>1, <3>1, HandoverLasts DEF InOrder
  <2>3. clearances'[d].status = "COMPLETED" => StepsStand(d)'
    <3>1. clearances'[d].status = "COMPLETED" => clearances[d].status = "COMPLETED" \/ StepsStand(d)
      BY <1>1
    <3> QED
      BY <1>3, <2>1, <3>1, StepsLast DEF InOrder
  <2> QED
    BY <2>2, <2>3 DEF InOrder
<1>6. MoneyTyped' /\ PapersTyped'
  BY <1>1, <1>2 DEF Inv, MoneyTyped, PapersTyped
<1>7. Graduates' /\ OneInForce'
  <2>1. \A d \in DOMAIN clearances : clearances'[d].case = clearances[d].case
    BY <1>1
  <2> QED
    BY <1>1, <1>4, <2>1 DEF Inv, Graduates, OneInForce, InForce
<1>8. OnGraduation'
  <2>1. \A d \in DOMAIN clearances : clearances'[d].case = clearances[d].case
    BY <1>1
  <2> QED
    BY <2>1 DEF Inv, PapersTyped, OnGraduation
<1> QED
  BY <1>1, <1>4, <1>5, <1>6, <1>7, <1>8 DEF Inv

(***************************************************************************)
(* The signatures, the parking, the closing and the cancelling of a form.  *)
(***************************************************************************)
LEMMA FormOpsKeep ==
    ASSUME Inv, NEW s \in Sessions,
           WriteBlock(s) \/ WriteCustody(s) \/ WriteCertify(s) \/ WriteSecondCertify(s)
              \/ WriteClose(s) \/ WriteCancel(s)
    PROVE  Inv'
<1>1. PICK c : c = req[s].on
  OBVIOUS
<1>2. PICK from : from = req[s].from
  OBVIOUS
<1>3. c \in DOMAIN clearances /\ (req[s].op = "close" => StepsStand(c))
  BY <1>1 DEF WriteBlock, WriteCustody, WriteCertify, WriteSecondCertify, WriteClose, WriteCancel,
              Serving, FormOps, Inv, RequestsTyped, Fits
<1> DEFINE old == clearances[c]
           moved(a, b) == IF from = a THEN b ELSE old.status
<1>4. /\ old \in Clearance /\ old.status \in FormStatuses
      /\ old.finance \in {"none", "certified", "done"} /\ old.custody \in BOOLEAN
  BY <1>3, RowsTyped DEF Clearance
<1> DEFINE Good(row) ==
              /\ row \in Clearance
              /\ row.case = old.case /\ (row.handed <=> old.handed)
              /\ old.custody => row.custody
              /\ StepMoves(req[s], c, row.finance)
              /\ row.status = "COMPLETED" => old.status = "COMPLETED" \/ StepsStand(c)
<1>5. ASSUME NEW row, Good(row), SaveForm(s, row) PROVE Inv'
  <2>1. /\ clearances' = [clearances EXCEPT ![c] = row] /\ Finish(s)
        /\ UNCHANGED <<status, voucher, money, certificates>>
    BY <1>1, <1>5 DEF SaveForm
  <2> QED
    BY <1>3, <1>5, <2>1, FormKeeps
<1>6. CASE WriteBlock(s)
  <2>1. SaveForm(s, [old EXCEPT !.status = "BLOCKED"])
    BY <1>1, <1>6 DEF WriteBlock
  <2>2. Good([old EXCEPT !.status = "BLOCKED"])
    BY <1>4 DEF Clearance, FormStatuses, StepMoves
  <2> QED
    BY <1>5, <2>1, <2>2
<1>7. CASE WriteCustody(s)
  <2> DEFINE to == moved("OPEN", "IN_PROGRESS")
  <2>1. SaveForm(s, [old EXCEPT !.custody = TRUE, !.status = to])
    BY <1>1, <1>2, <1>7 DEF WriteCustody, Moved
  <2>2. to \in FormStatuses /\ (to = "COMPLETED" => old.status = "COMPLETED")
    BY <1>4 DEF FormStatuses
  <2> HIDE DEF to
  <2>3. Good([old EXCEPT !.custody = TRUE, !.status = to])
    BY <1>4, <2>2 DEF Clearance, StepMoves
  <2> QED
    BY <1>5, <2>1, <2>3
<1>8. CASE WriteCertify(s)
  <2> DEFINE to == moved("BLOCKED", "IN_PROGRESS")
  <2>1. PICK signed : signed = req[s].to
    OBVIOUS
  <2>2. SaveForm(s, [old EXCEPT !.finance = signed, !.status = to])
    BY <1>1, <1>2, <1>8, <2>1 DEF WriteCertify, Moved
  <2>3. to \in FormStatuses /\ (to = "COMPLETED" => old.status = "COMPLETED")
    BY <1>4 DEF FormStatuses
  <2>4. signed \in {"certified", "done"} /\ req[s].op = "certify"
    BY <1>8, <2>1 DEF WriteCertify, Serving, Inv, RequestsTyped, Fits
  <2>5. StepMoves(req[s], c, signed)
    <3>1. raced' = raced \cup req[s].overtaken
      BY <2>2 DEF SaveForm, Finish
    <3>2. StepJudged(req[s])
      BY DEF Inv, RequestsTyped, PaperJudged
    <3> QED
      BY <1>1, <2>1, <2>4, <3>1, <3>2 DEF StepJudged, StepMoves
  <2> HIDE DEF to
  <2>6. Good([old EXCEPT !.finance = signed, !.status = to])
    <3>1. PICK row : row = [old EXCEPT !.finance = signed, !.status = to]
      OBVIOUS
    <3>2. /\ row \in Clearance /\ row.case = old.case /\ (row.handed <=> old.handed)
          /\ (old.custody => row.custody) /\ row.finance = signed /\ row.status = to
      BY <1>4, <2>3, <2>4, <3>1 DEF Clearance
    <3>3. Good(row)
      BY <2>3, <2>5, <3>2
    <3> QED
      BY <3>1, <3>3
  <2> QED
    BY <1>5, <2>2, <2>6
<1>9. CASE WriteSecondCertify(s)
  <2>1. SaveForm(s, [old EXCEPT !.finance = "done"])
    BY <1>1, <1>9 DEF WriteSecondCertify
  <2>2. req[s].op = "second_certify"
    BY <1>9 DEF WriteSecondCertify, Serving
  <2>3. Good([old EXCEPT !.finance = "done"])
    BY <1>1, <1>4, <2>2 DEF Clearance, StepMoves
  <2> QED
    BY <1>5, <2>1, <2>3
<1>10. CASE WriteClose(s)
  <2>1. SaveForm(s, [old EXCEPT !.status = "COMPLETED"]) /\ StepsStand(c)
    BY <1>1, <1>3, <1>10 DEF WriteClose, Serving
  <2>2. Good([old EXCEPT !.status = "COMPLETED"])
    BY <1>4, <2>1 DEF Clearance, FormStatuses, StepMoves
  <2> QED
    BY <1>5, <2>1, <2>2
<1>11. CASE WriteCancel(s)
  <2>1. SaveForm(s, [old EXCEPT !.status = "CANCELLED"])
    BY <1>1, <1>11 DEF WriteCancel
  <2>2. Good([old EXCEPT !.status = "CANCELLED"])
    BY <1>4 DEF Clearance, FormStatuses, StepMoves
  <2> QED
    BY <1>5, <2>1, <2>2
<1> QED
  BY <1>6, <1>7, <1>8, <1>9, <1>10, <1>11

(***************************************************************************)
(* A graduate's clearance is opened on a completed course.                 *)
(***************************************************************************)
LEMMA OpenKeeps ==
    ASSUME Inv, NEW s \in Sessions, WriteOpen(s)
    PROVE  Inv'
<1> DEFINE no == FALSE
           new == [case |-> req[s].to, status |-> "OPEN", custody |-> no, finance |-> "none", handed |-> no]
<1>1. /\ req[s].op = "open" /\ clearances' = Append(clearances, new)
      /\ Finish(s) /\ UNCHANGED <<status, voucher, lines, oldDebt, receipts, certificates>>
  BY DEF WriteOpen, Serving, money
<1>2. req[s].to \in Cases /\ no \in BOOLEAN /\ no = FALSE
  BY <1>1 DEF Inv, RequestsTyped, Fits
<1> HIDE DEF no
<1>3. /\ new \in Clearance /\ new.case = req[s].to /\ ~new.handed /\ new.status = "OPEN"
  BY <1>2 DEF Clearance, FormStatuses
<1> HIDE DEF new
<1>4. /\ clearances' \in Seq(Clearance) /\ Len(clearances') = Len(clearances) + 1
      /\ \A c \in 1 .. Len(clearances) : clearances'[c] = clearances[c]
      /\ clearances'[Len(clearances) + 1] = new
  BY <1>1, <1>3, AppendProperties DEF Inv
<1>5. DOMAIN clearances' = DOMAIN clearances \cup {Len(clearances) + 1}
  BY <1>4, RowsTyped, LenProperties
<1>6. \A c \in DOMAIN clearances : clearances'[c] = clearances[c]
  BY <1>4, RowsTyped
<1>7. Grown /\ StepsMove(req[s])
  <2>1. raced \subseteq raced'
    BY <1>1, FinishTells DEF Inv
  <2> QED
    BY <1>1, <1>5, <1>6, <2>1 DEF Grown, StepsMove, StepMoves
<1>8. RequestsTyped' /\ raced' = raced \cup req[s].overtaken
  BY <1>1, <1>7, CommitKeeps DEF StatusMoves, PapersMove
<1>9. ASSUME NEW c \in DOMAIN clearances' PROVE InOrder(c)'
  <2>1. CASE c \in DOMAIN clearances
    <3>1. InOrder(c) /\ clearances'[c] = clearances[c]
      BY <1>6, <2>1 DEF Inv
    <3> QED
      BY <1>7, <2>1, <3>1, HandoverLasts, StepsLast DEF InOrder
  <2>2. CASE c = Len(clearances) + 1
    BY <1>3, <1>4, <2>2 DEF InOrder
  <2> QED
    BY <1>5, <2>1, <2>2
<1>10. Graduates'
  <2>1. SUFFICES ASSUME NEW c \in DOMAIN clearances', clearances'[c].case = "GRADUATION",
                        "status" \notin raced'
                 PROVE  status = "COMPLETED"
    BY <1>1 DEF Graduates
  <2>2. CASE c \in DOMAIN clearances
    BY <1>6, <1>8, <2>1, <2>2 DEF Inv, Graduates
  <2>3. CASE c = Len(clearances) + 1
    <3>1. req[s].to = "GRADUATION" /\ "status" \notin req[s].overtaken
      BY <1>3, <1>4, <1>8, <2>1, <2>3
    <3> QED
      BY <1>1, <3>1 DEF Inv, RequestsTyped, StatusJudged
  <2> QED
    BY <1>5, <2>2, <2>3
<1>11. MoneyTyped' /\ PapersTyped'
  BY <1>1, <1>5 DEF Inv, MoneyTyped, PapersTyped
<1>12. OnGraduation' /\ OneInForce'
  BY <1>1, <1>6, <1>8 DEF Inv, PapersTyped, OnGraduation, OneInForce, InForce
<1> QED
  BY <1>1, <1>4, <1>8, <1>9, <1>10, <1>11, <1>12 DEF Inv

-----------------------------------------------------------------------------
(* Commits that write a certificate. *)

LEMMA PaperKeeps ==
    ASSUME Inv, NEW s \in Sessions, Finish(s), PapersMove(req[s]), Grown,
           UNCHANGED <<status, voucher, money, clearances>>, PapersTyped', OnGraduation', OneInForce'
    PROVE  Inv'
<1>1. UNCHANGED <<lines, oldDebt, receipts>>
  BY DEF money
<1>2. RequestsTyped' /\ raced' = raced \cup req[s].overtaken
  <2>1. StepsMove(req[s])
    BY DEF Grown, StepsMove, StepMoves
  <2> QED
    BY <2>1, CommitKeeps DEF StatusMoves
<1>3. ASSUME NEW c \in DOMAIN clearances PROVE InOrder(c)'
  <2>1. InOrder(c)
    BY DEF Inv
  <2> QED
    BY <2>1, HandoverLasts, StepsLast DEF InOrder
<1>4. MoneyTyped' /\ Graduates'
  BY <1>1, <1>2 DEF Inv, MoneyTyped, Graduates
<1> QED
  BY <1>2, <1>3, <1>4 DEF Inv

LEMMA PaperIs ==
    ASSUME NEW clearance \in Nat, NEW replaces \in Nat, NEW fee \in Nat
    PROVE  /\ Paper(clearance, replaces, fee) \in Certificate
           /\ Paper(clearance, replaces, fee).clearance = clearance
           /\ Paper(clearance, replaces, fee).replaces = replaces
  BY DEF Paper, Certificate

LEMMA PaperWritten ==
    ASSUME certificates \in Seq(Certificate), NEW k \in DOMAIN certificates, NEW row \in Certificate,
           NEW next, next = [certificates EXCEPT ![k] = row]
    PROVE  /\ next \in Seq(Certificate) /\ Len(next) = Len(certificates)
           /\ DOMAIN next = DOMAIN certificates
           /\ \A j \in DOMAIN certificates : next[j] = IF j = k THEN row ELSE certificates[j]
  BY ExceptSeq, LenProperties

LEMMA PaperAdded ==
    ASSUME NEW base \in Seq(Certificate), NEW new \in Certificate,
           certificates' = Append(base, new), Len(base) = Len(certificates), Inv
    PROVE  /\ certificates' \in Seq(Certificate)
           /\ DOMAIN certificates' = DOMAIN certificates \cup {Len(certificates) + 1}
           /\ \A k \in DOMAIN certificates : certificates'[k] = base[k]
           /\ certificates'[Len(certificates) + 1] = new
<1>1. /\ certificates' \in Seq(Certificate) /\ Len(certificates') = Len(certificates) + 1
      /\ \A k \in 1 .. Len(certificates) : certificates'[k] = base[k]
      /\ certificates'[Len(certificates) + 1] = new
  BY AppendProperties
<1>2. DOMAIN certificates' = 1 .. Len(certificates) + 1
  BY <1>1, LenProperties
<1> QED
  BY <1>1, <1>2, RowsTyped

(***************************************************************************)
(* The original of a course, where there is none unless another was issued *)
(* at the same time.                                                       *)
(***************************************************************************)
LEMMA IssueKeeps ==
    ASSUME Inv, NEW s \in Sessions, WriteIssue(s)
    PROVE  Inv'
<1> DEFINE new == Paper(req[s].on, 0, 0)
<1>1. /\ req[s].op = "issue" /\ certificates' = Append(certificates, new)
      /\ Finish(s) /\ UNCHANGED <<status, voucher, money, clearances>>
  BY DEF WriteIssue, Serving
<1>2. req[s].on \in DOMAIN clearances /\ clearances[req[s].on].case = "GRADUATION"
  BY <1>1 DEF Inv, RequestsTyped, Fits
<1>3. new \in Certificate /\ new.clearance = req[s].on /\ new.replaces = 0 /\ req[s].on # 0
  <2>1. req[s].on \in Nat \ {0}
    BY <1>2, RowsTyped
  <2> QED
    BY <2>1, PaperIs
<1> HIDE DEF new
<1>4. /\ certificates' \in Seq(Certificate)
      /\ DOMAIN certificates' = DOMAIN certificates \cup {Len(certificates) + 1}
      /\ \A k \in DOMAIN certificates : certificates'[k] = certificates[k]
      /\ certificates'[Len(certificates) + 1] = new
  BY <1>1, <1>3, PaperAdded DEF Inv, PapersTyped
<1>5. Grown /\ PapersMove(req[s])
  <2>1. raced \subseteq raced'
    BY <1>1, FinishTells DEF Inv
  <2> QED
    BY <1>1, <1>4, <2>1 DEF Grown, PapersMove, money
<1>6. PapersTyped'
  <2>1. Len(certificates) \in Nat
    BY RowsTyped
  <2> QED
    BY <1>1, <1>2, <1>3, <1>4, <2>1 DEF Inv, PapersTyped
<1>7. OnGraduation'
  BY <1>1, <1>2, <1>3, <1>4 DEF Inv, OnGraduation
<1>8. OneInForce'
  <2>1. SUFFICES ASSUME "certificate" \notin raced' PROVE DOMAIN certificates = {}
    BY <1>4 DEF OneInForce
  <2>2. "certificate" \notin req[s].overtaken
    BY <1>1, <2>1, FinishTells DEF Inv
  <2>3. certificates = <<>>
    BY <1>1, <2>2 DEF Inv, RequestsTyped, PaperJudged, CertificateJudged
  <2> QED
    BY <2>3
<1> QED
  BY <1>1, <1>5, <1>6, <1>7, <1>8, PaperKeeps

(***************************************************************************)
(* A replacement takes the place of the one in force.                      *)
(***************************************************************************)
LEMMA ReplacementKeeps ==
    ASSUME Inv, NEW s \in Sessions, WriteReplacement(s)
    PROVE  Inv'
<1> DEFINE k == req[s].on
           gone == [certificates[k] EXCEPT !.status = "REPLACED"]
           base == [certificates EXCEPT ![k] = gone]
           new == Paper(0, k, req[s].with)
<1>1. /\ req[s].op = "issue_replacement" /\ certificates' = Append(base, new)
      /\ Finish(s) /\ UNCHANGED <<status, voucher, money, clearances>>
  BY DEF WriteReplacement, Serving
<1>2. k \in DOMAIN certificates /\ k \in Nat \ {0} /\ certificates[k] \in Certificate
  BY <1>1, RowsTyped DEF Inv, RequestsTyped, Fits
<1>3. /\ gone \in Certificate /\ gone.status = "REPLACED"
      /\ gone.clearance = certificates[k].clearance /\ gone.replaces = certificates[k].replaces
  BY <1>2 DEF Certificate
<1>4. new \in Certificate /\ new.clearance = 0 /\ new.replaces = k
  <2>1. req[s].with \in Nat
    BY DEF Inv, RequestsTyped, Request
  <2> QED
    BY <1>2, <2>1, PaperIs
<1> HIDE DEF gone, new
<1>5. /\ base \in Seq(Certificate) /\ Len(base) = Len(certificates)
      /\ \A j \in DOMAIN certificates : base[j] = IF j = k THEN gone ELSE certificates[j]
  BY <1>2, <1>3, PaperWritten DEF Inv, PapersTyped
<1> HIDE DEF base
<1>6. /\ certificates' \in Seq(Certificate)
      /\ DOMAIN certificates' = DOMAIN certificates \cup {Len(certificates) + 1}
      /\ \A j \in DOMAIN certificates : certificates'[j] = base[j]
      /\ certificates'[Len(certificates) + 1] = new
  BY <1>1, <1>4, <1>5, PaperAdded
<1>7. \A j \in DOMAIN certificates : /\ certificates'[j].clearance = certificates[j].clearance
                                    /\ certificates'[j].replaces = certificates[j].replaces
  BY <1>3, <1>5, <1>6
<1>8. \A j \in DOMAIN certificates :
         certificates'[j].status = IF j = k THEN "REPLACED" ELSE certificates[j].status
  BY <1>3, <1>5, <1>6
<1>9. Grown
  <2>1. raced \subseteq raced'
    BY <1>1, FinishTells DEF Inv
  <2> QED
    BY <1>1, <1>6, <1>7, <1>8, <2>1 DEF Grown, money
<1>10. PapersTyped'
  <2>1. Len(certificates) \in Nat /\ k \in 1 .. Len(certificates)
    BY <1>2, RowsTyped
  <2>2. \A j \in DOMAIN certificates :
           /\ certificates'[j].clearance \in DOMAIN clearances' \cup {0}
           /\ certificates'[j].replaces \in 0 .. j - 1
           /\ certificates'[j].clearance # 0 <=> certificates'[j].replaces = 0
    BY <1>1, <1>7 DEF Inv, PapersTyped
  <2>3. /\ new.clearance \in DOMAIN clearances' \cup {0}
        /\ new.replaces \in 0 .. (Len(certificates) + 1) - 1
        /\ new.clearance # 0 <=> new.replaces = 0
    BY <1>2, <1>4, <2>1
  <2> QED
    BY <1>6, <2>2, <2>3 DEF PapersTyped
<1>11. OnGraduation'
  BY <1>1, <1>4, <1>6, <1>7 DEF Inv, OnGraduation
<1>12. OneInForce'
  <2>1. SUFFICES ASSUME "certificate" \notin raced'
                 PROVE  \A j \in DOMAIN certificates : certificates'[j].status = "REPLACED"
    BY <1>6 DEF OneInForce, InForce
  <2>2. "certificate" \notin req[s].overtaken /\ "certificate" \notin raced
    BY <1>1, <2>1, FinishTells DEF Inv
  <2>3. InForce(k)
    BY <1>1, <2>2 DEF Inv, RequestsTyped, PaperJudged, CertificateJudged, InForce
  <2>4. \A j \in DOMAIN certificates : InForce(j) => j = k
    BY <1>2, <2>2, <2>3 DEF Inv, OneInForce
  <2> QED
    BY <1>8, <2>4 DEF InForce
<1>13. PapersMove(req[s])
  BY <1>1 DEF PapersMove
<1> QED
  BY <1>1, <1>9, <1>10, <1>11, <1>12, <1>13, PaperKeeps

(***************************************************************************)
(* What is handed over is the original of the clearance that records it.   *)
(***************************************************************************)
LEMMA HandoverKeeps ==
    ASSUME Inv, NEW s \in Sessions, WriteHandover(s)
    PROVE  Inv'
<1> DEFINE c == req[s].on
           k == req[s].with
           row == [clearances[c] EXCEPT !.handed = TRUE]
           given == [certificates[k] EXCEPT !.status = "DELIVERED"]
<1>1. /\ req[s].op = "handover" /\ Finish(s) /\ UNCHANGED <<status, voucher, lines, oldDebt, receipts>>
      /\ clearances' = [clearances EXCEPT ![c] = row]
      /\ certificates' = [certificates EXCEPT ![k] = given]
  BY DEF WriteHandover, Serving, Delivered, money
<1>2. /\ c \in DOMAIN clearances /\ clearances[c] \in Clearance
      /\ k \in DOMAIN certificates /\ certificates[k] \in Certificate
      /\ certificates[k].replaces = 0 /\ certificates[k].clearance = c
  BY <1>1, RowsTyped DEF Inv, RequestsTyped, Fits
<1>3. /\ row \in Clearance /\ row.case = clearances[c].case /\ row.custody = clearances[c].custody
      /\ row.finance = clearances[c].finance /\ row.status = clearances[c].status
  BY <1>2 DEF Clearance
<1>4. row.handed
  BY <1>2 DEF Clearance
<1>5. /\ given \in Certificate /\ given.clearance = certificates[k].clearance
      /\ given.replaces = certificates[k].replaces /\ given.status = "DELIVERED"
  BY <1>2 DEF Certificate
<1> HIDE DEF row, given
<1>6. /\ clearances' \in Seq(Clearance) /\ DOMAIN clearances' = DOMAIN clearances
      /\ \A d \in DOMAIN clearances : clearances'[d] = IF d = c THEN row ELSE clearances[d]
  BY <1>1, <1>2, <1>3, FormWritten
<1>7. /\ certificates' \in Seq(Certificate) /\ DOMAIN certificates' = DOMAIN certificates
      /\ \A j \in DOMAIN certificates : certificates'[j] = IF j = k THEN given ELSE certificates[j]
  BY <1>1, <1>2, <1>5, PaperWritten DEF Inv, PapersTyped
<1>8. \A d \in DOMAIN clearances : /\ clearances'[d].case = clearances[d].case
                                  /\ clearances'[d].custody = clearances[d].custody
                                  /\ clearances'[d].finance = clearances[d].finance
                                  /\ clearances'[d].status = clearances[d].status
  BY <1>3, <1>6
<1>9. /\ \A d \in DOMAIN clearances : clearances[d].handed => clearances'[d].handed
      /\ \A d \in DOMAIN clearances : d # c => clearances'[d] = clearances[d]
  BY <1>4, <1>6
<1>10. \A j \in DOMAIN certificates : /\ certificates'[j].clearance = certificates[j].clearance
                                     /\ certificates'[j].replaces = certificates[j].replaces
                                     /\ certificates'[j].status = IF j = k THEN "DELIVERED"
                                                                  ELSE certificates[j].status
  BY <1>5, <1>7
<1>11. Grown /\ StepsMove(req[s])
  <2>1. ASSUME NEW d \in DOMAIN clearances
        PROVE  /\ clearances'[d].case = clearances[d].case
               /\ clearances[d].custody => clearances'[d].custody
               /\ clearances[d].finance = "done" => clearances'[d].finance = "done"
               /\ clearances[d].handed => clearances'[d].handed
    <3>1. clearances'[d].case = clearances[d].case /\ clearances'[d].finance = clearances[d].finance
      BY <1>8
    <3>2. clearances[d].custody => clearances'[d].custody
      <4>1. clearances'[d].custody = clearances[d].custody
        BY <1>8
      <4> QED
        BY <4>1, Zenon
    <3>3. clearances[d].handed => clearances'[d].handed
      BY <1>9
    <3> QED
      BY <3>1, <3>2, <3>3
  <2>2. \A j \in DOMAIN certificates :
           /\ certificates'[j].clearance = certificates[j].clearance
           /\ certificates'[j].replaces = certificates[j].replaces
           /\ certificates[j].status # "ISSUED" => certificates'[j].status # "ISSUED"
    BY <1>10
  <2>3. raced \subseteq raced'
    BY <1>1, FinishTells DEF Inv
  <2>4. StepsMove(req[s])
    BY <1>8, <2>3 DEF StepsMove, StepMoves
  <2> QED
    BY <1>1, <1>6, <1>7, <2>1, <2>2, <2>3, <2>4 DEF Grown
<1>12. RequestsTyped' /\ raced' = raced \cup req[s].overtaken
  BY <1>1, <1>11, CommitKeeps DEF StatusMoves, PapersMove
<1>13. ASSUME NEW d \in DOMAIN clearances PROVE InOrder(d)'
  <2>1. InOrder(d)
    BY DEF Inv
  <2>2. clearances'[d].status = "COMPLETED" => StepsStand(d)'
    BY <1>8, <1>11, <2>1, StepsLast DEF InOrder
  <2>3. clearances'[d].handed => HandedOver(d)'
    <3>1. CASE d = c
      BY <1>2, <1>7, <1>10, <3>1 DEF HandedOver
    <3>2. CASE d # c
      BY <1>9, <1>11, <2>1, <3>2, HandoverLasts DEF InOrder
    <3> QED
      BY <3>1, <3>2
  <2> QED
    BY <2>2, <2>3 DEF InOrder
<1>14. PapersTyped'
  BY <1>6, <1>7, <1>10 DEF Inv, PapersTyped
<1>15. OnGraduation'
  BY <1>7, <1>8, <1>10 DEF Inv, PapersTyped, OnGraduation
<1>16. Graduates'
  BY <1>1, <1>6, <1>8, <1>12 DEF Inv, Graduates
<1>17. OneInForce'
  <2>1. SUFFICES ASSUME "certificate" \notin raced'
                 PROVE  \A j \in DOMAIN certificates : InForce(j)' => InForce(j)
    BY <1>7, <1>12 DEF Inv, OneInForce, InForce
  <2>2. InForce(k)
    BY <1>1, <1>12, <2>1 DEF Inv, RequestsTyped, PaperJudged, CertificateJudged, InForce
  <2> QED
    BY <1>10, <2>2 DEF InForce
<1>18. MoneyTyped'
  BY <1>1 DEF Inv, MoneyTyped
<1> QED
  BY <1>1, <1>6, <1>12, <1>13, <1>14, <1>15, <1>16, <1>17, <1>18 DEF Inv

-----------------------------------------------------------------------------
(* Requests that begin. *)

Froms == Sweepable \cup FormStatuses \cup {""}

Tos == Statuses \cup Cases \cup {"certified", "done", ""}

New(op, on, with, from, to) ==
    [Idle EXCEPT !.op = op, !.on = on, !.with = with, !.from = from, !.to = to]

LEMMA NewIs ==
    ASSUME NEW op \in Ops, NEW on \in Nat, NEW with \in Nat, NEW from \in Froms, NEW to \in Tos,
           NEW q, q = New(op, on, with, from, to)
    PROVE  /\ q \in Request
           /\ q.op = op /\ q.on = on /\ q.with = with /\ q.to = to
<1> DEFINE none == {}
           ops == Ops \cup {"idle"}
<1>1. q = [op |-> op, on |-> on, with |-> with, from |-> from, to |-> to, overtaken |-> none]
  BY DEF Idle, New
<1>2. Request = [op : ops, on : Nat, with : Nat, from : Froms, to : Tos, overtaken : SUBSET Races]
  BY DEF Request, Froms, Tos
<1>3. op \in ops /\ none \in SUBSET Races
  OBVIOUS
<1> HIDE DEF none, ops
<1>4. q.op = op /\ q.on = on /\ q.with = with /\ q.to = to
  BY <1>1
<1>5. q \in Request
  BY <1>1, <1>2, <1>3
<1> QED
  BY <1>4, <1>5

LEMMA BeginKeeps ==
    ASSUME Inv, NEW s \in Sessions, NEW op \in Ops, NEW on \in Nat, NEW with \in Nat,
           NEW from \in Froms, NEW to \in Tos,
           BeginWith(s, op, on, with, from, to),
           ASSUME NEW q, q.op = op, q.on = on, q.with = with, q.to = to
           PROVE  Fits(q) /\ StatusJudged(q) /\ PaperJudged(q)
    PROVE  Inv'
<1>1. PICK q : q = New(op, on, with, from, to)
  OBVIOUS
<1>2. /\ req' = [req EXCEPT ![s] = q]
      /\ UNCHANGED <<status, voucher, money, papers, raced>>
  BY <1>1 DEF BeginWith, New
<1>3. /\ q \in Request
      /\ q.op = op /\ q.on = on /\ q.with = with /\ q.to = to
  BY <1>1, NewIs
<1>4. Fits(q) /\ StatusJudged(q) /\ PaperJudged(q)
  BY <1>3
<1> QED
  BY <1>2, <1>3, <1>4, SessionKeeps

(***************************************************************************)
(* A request about the status, read from one that is not final.            *)
(***************************************************************************)
LEMMA ReadStatusKeeps ==
    ASSUME Inv, NEW s \in Sessions, status \notin Final, NEW op \in StatusOps,
           NEW from \in Sweepable \cup {""}, NEW to \in Statuses \cup {""}, to = "" => op = "sweep",
           BeginWith(s, op, 0, 0, from, to)
    PROVE  Inv'
<1>1. ASSUME NEW q, q.op = op, q.on = 0, q.with = 0, q.to = to
      PROVE  Fits(q) /\ StatusJudged(q) /\ PaperJudged(q)
  <2>1. q.op \in StatusOps /\ q.op \notin FormOps \cup PaperOps \cup {"open", "approve_void"}
    BY <1>1 DEF StatusOps, FormOps, PaperOps
  <2>2. Fits(q)
    BY <1>1, <2>1 DEF Fits, FormOps, PaperOps
  <2>3. StatusJudged(q)
    BY <2>1 DEF StatusJudged
  <2>4. PaperJudged(q)
    BY <2>1 DEF PaperJudged, CertificateJudged, StepJudged, PaperOps, FormOps
  <2> QED
    BY <2>2, <2>3, <2>4
<1>2. op \in Ops /\ from \in Froms /\ to \in Tos
  BY DEF Ops, Froms, Tos
<1> QED
  BY <1>1, <1>2, BeginKeeps

LEMMA ReadsOfStatusKeep ==
    ASSUME Inv, NEW s \in Sessions,
           \/ ReadApprove(s) \/ ReadCancelRegistration(s) \/ ReadSweep(s)
           \/ \E op \in DOMAIN Exit : ReadLeave(s, op)
    PROVE  Inv'
<1>1. CASE ReadApprove(s)
  <2>1. status \notin Final /\ BeginWith(s, "approve", 0, 0, "", "ACTIVE")
    BY <1>1 DEF ReadApprove, ReadStatus
  <2>2. "ACTIVE" \in Statuses /\ "approve" \in StatusOps
    BY DEF Statuses, Sweepable, StatusOps
  <2> QED
    BY <2>1, <2>2, ReadStatusKeeps
<1>2. CASE ReadCancelRegistration(s)
  <2>1. status \notin Final /\ BeginWith(s, "cancel_registration", 0, 0, "", "CANCELLED")
    BY <1>2 DEF ReadCancelRegistration, ReadStatus
  <2>2. "CANCELLED" \in Statuses /\ "cancel_registration" \in StatusOps
    BY DEF Statuses, Final, StatusOps
  <2> QED
    BY <2>1, <2>2, ReadStatusKeeps
<1>3. CASE ReadSweep(s)
  <2>1. /\ status \in Sweepable /\ status \notin Final /\ "sweep" \in StatusOps
        /\ BeginWith(s, "sweep", 0, 0, status, "")
    BY <1>3 DEF ReadSweep, Sweepable, Final, StatusOps
  <2> QED
    BY <2>1, ReadStatusKeeps
<1>4. CASE \E op \in DOMAIN Exit : ReadLeave(s, op)
  <2>1. PICK op \in DOMAIN Exit : ReadLeave(s, op)
    BY <1>4
  <2>2. PICK to : to = Exit[op]
    OBVIOUS
  <2>3. status \notin Final /\ BeginWith(s, op, 0, 0, "", to)
    BY <2>1, <2>2 DEF ReadLeave, ReadStatus
  <2>4. op \in StatusOps /\ to \in Statuses /\ to # ""
    BY <2>2, ExitIs DEF Statuses, Final, StatusOps
  <2> QED
    BY <2>3, <2>4, ReadStatusKeeps
<1> QED
  BY <1>1, <1>2, <1>3, <1>4

LEMMA ReadApproveVoidKeeps ==
    ASSUME Inv, NEW s \in Sessions, NEW r \in DOMAIN receipts, ReadApproveVoid(s, r)
    PROVE  Inv'
<1>1. PICK to : to = IF Reverts(r) THEN "PENDING_FINANCE" ELSE ""
  OBVIOUS
<1>2. BeginWith(s, "approve_void", r, 0, "", to)
  BY <1>1 DEF ReadApproveVoid
<1>3. to \in {"", "PENDING_FINANCE"} /\ (to # "" => status \notin Final)
  BY <1>1 DEF Reverts, Sweepable, Final
<1>4. ASSUME NEW q, q.op = "approve_void", q.on = r, q.with = 0, q.to = to
      PROVE  Fits(q) /\ StatusJudged(q) /\ PaperJudged(q)
  BY <1>3, <1>4 DEF Fits, StatusJudged, PaperJudged, CertificateJudged, StepJudged, Moving, StatusOps, FormOps
<1>5. r \in Nat
  BY RowsTyped
<1>6. "approve_void" \in Ops /\ to \in Tos /\ "" \in Froms
  BY <1>3 DEF Ops, Tos, Froms, Statuses
<1> QED
  BY <1>2, <1>4, <1>5, <1>6, BeginKeeps

LEMMA CaseIs ==
    /\ DOMAIN CaseForStatus = {"COMPLETED", "WITHDRAWN", "DISMISSED"}
    /\ CaseForStatus["COMPLETED"] = "GRADUATION" /\ CaseForStatus["WITHDRAWN"] = "WITHDRAWAL"
    /\ CaseForStatus["DISMISSED"] = "DISMISSAL"
  BY DEF CaseForStatus

LEMMA ReadOpenKeeps ==
    ASSUME Inv, NEW s \in Sessions, ReadOpen(s)
    PROVE  Inv'
<1>1. PICK to : to = CaseForStatus[status]
  OBVIOUS
<1>2. BeginWith(s, "open", 0, 0, "", to) /\ status \in {"COMPLETED", "WITHDRAWN", "DISMISSED"}
  BY <1>1, CaseIs DEF ReadOpen
<1>3. to \in Cases /\ (to = "GRADUATION" => status = "COMPLETED")
  BY <1>1, <1>2, CaseIs DEF Cases
<1>4. ASSUME NEW q, q.op = "open", q.on = 0, q.with = 0, q.to = to
      PROVE  Fits(q) /\ StatusJudged(q) /\ PaperJudged(q)
  BY <1>3, <1>4 DEF Fits, StatusJudged, PaperJudged, CertificateJudged, StepJudged, Moving, StatusOps, FormOps
<1>5. "open" \in Ops /\ to \in Tos /\ "" \in Froms
  BY <1>3 DEF Ops, Tos, Froms
<1> QED
  BY <1>2, <1>3, <1>4, <1>5, BeginKeeps

LEMMA ReadFormKeeps ==
    ASSUME Inv, NEW s \in Sessions, NEW c \in DOMAIN clearances, NEW op \in FormOps,
           op = "close" => StepsDone(c), ReadForm(s, op, c)
    PROVE  Inv'
<1>1. PICK from : from = clearances[c].status
  OBVIOUS
<1>2. BeginWith(s, op, c, 0, from, "")
  BY <1>1 DEF ReadForm, Begin
<1>3. from \in Froms /\ "" \in Tos /\ c \in Nat /\ op \in Ops
  BY <1>1, RowsTyped DEF Clearance, Ops, Froms, Tos
<1>4. ASSUME NEW q, q.op = op, q.on = c, q.with = 0, q.to = ""
      PROVE  Fits(q) /\ StatusJudged(q) /\ PaperJudged(q)
  <2>1. q.op \in FormOps /\ q.op \notin StatusOps \cup PaperOps \cup {"open", "approve_void"}
    BY <1>4 DEF StatusOps, FormOps, PaperOps
  <2>2. Fits(q)
    BY <1>4, <2>1 DEF Fits, PaperOps, StepsStand
  <2>3. StatusJudged(q) /\ PaperJudged(q)
    BY <1>4, <2>1 DEF StatusJudged, PaperJudged, CertificateJudged, StepJudged, PaperOps, Moving
  <2> QED
    BY <2>2, <2>3
<1> QED
  BY <1>2, <1>3, <1>4, BeginKeeps

LEMMA ReadsOfFormKeep ==
    ASSUME Inv, NEW s \in Sessions, NEW c \in DOMAIN clearances,
           ReadCustody(s, c) \/ ReadCertify(s, c) \/ ReadSecondCertify(s, c) \/ ReadClose(s, c)
              \/ ReadCancel(s, c)
    PROVE  Inv'
<1>1. PICK op \in FormOps : ReadForm(s, op, c) /\ (op = "close" => StepsDone(c))
  BY DEF ReadCustody, ReadCertify, ReadSecondCertify, ReadClose, ReadCancel, ReadBlock, FormOps
<1> QED
  BY <1>1, ReadFormKeeps

(***************************************************************************)
(* Where there is no original there is no certificate: the first replaces  *)
(* none.                                                                   *)
(***************************************************************************)
LEMMA NoOriginalNoPaper ==
    ASSUME Inv, Originals = {}
    PROVE  certificates = <<>>
<1> SUFFICES ASSUME certificates # <<>> PROVE FALSE
  OBVIOUS
<1>1. 1 \in DOMAIN certificates
  <2>1. Len(certificates) \in Nat \ {0}
    BY EmptySeq DEF Inv, PapersTyped
  <2> QED
    BY <2>1, RowsTyped
<1>2. certificates[1].replaces \in 0 .. 1 - 1
  BY <1>1 DEF Inv, PapersTyped
<1>3. certificates[1].replaces = 0
  BY <1>2
<1> QED
  BY <1>1, <1>3 DEF Originals

LEMMA ReadIssueKeeps ==
    ASSUME Inv, NEW s \in Sessions, ReadIssue(s)
    PROVE  Inv'
<1>1. PICK c \in DOMAIN clearances :
         clearances[c].case = "GRADUATION" /\ BeginWith(s, "issue", c, 0, "", "")
  BY DEF ReadIssue, CertificateReady, Live, Begin
<1>2. certificates = <<>>
  BY NoOriginalNoPaper DEF ReadIssue, Issuable
<1>3. ASSUME NEW q, q.op = "issue", q.on = c, q.with = 0, q.to = ""
      PROVE  Fits(q) /\ StatusJudged(q) /\ PaperJudged(q)
  BY <1>1, <1>2, <1>3 DEF Fits, StatusJudged, PaperJudged, CertificateJudged, StepJudged, Moving, StatusOps, FormOps
<1>4. c \in Nat /\ "issue" \in Ops /\ "" \in Froms /\ "" \in Tos
  BY RowsTyped DEF Ops, PaperOps, Froms, Tos
<1> QED
  BY <1>1, <1>3, <1>4, BeginKeeps

LEMMA LeastIsNumber ==
    ASSUME NEW n \in Nat, NEW S \in SUBSET (1 .. n), S # {}
    PROVE  Min(S) \in Nat
<1> DEFINE Below(f) == {g \in S : g < f}
           all == 1 .. n
           heads == {Below(f) : f \in S}
<1>1. IsFiniteSet(all) /\ \A f \in S : f \in Nat
  BY FS_Interval
<1>2. heads \in SUBSET SUBSET all /\ heads # {}
  OBVIOUS
<1>3. PICK f \in S : \A g \in S : Below(g) \subseteq Below(f) => Below(g) = Below(f)
  <2>1. PICK x \in heads : \A y \in heads : y \subseteq x => y = x
    <3> HIDE DEF all, heads
    <3> QED
      BY <1>1, <1>2, SmallestSet
  <2> HIDE DEF Below
  <2> QED
    BY <2>1
<1>4. ASSUME NEW g \in S PROVE f <= g
  <2> SUFFICES ASSUME g < f PROVE FALSE
    BY <1>1
  <2>1. g \in Below(f) /\ g \notin Below(g)
    BY <1>1
  <2>2. ASSUME NEW h \in Below(g) PROVE h \in Below(f)
    BY <1>1, <2>2
  <2> QED
    BY <1>3, <2>1, <2>2
<1>5. \E x \in S : \A y \in S : x =< y
  BY <1>4
<1>6. Min(S) \in S
  BY <1>5 DEF Min
<1> QED
  BY <1>1, <1>6

LEMMA ReadReplacementKeeps ==
    ASSUME Inv, NEW s \in Sessions, NEW k \in DOMAIN certificates, ReadReplacement(s, k)
    PROVE  Inv'
<1>1. PICK fee : fee = Min(CollectedFees)
  OBVIOUS
<1>2. BeginWith(s, "issue_replacement", k, fee, "", "") /\ certificates[k].status # "REPLACED"
  BY <1>1 DEF ReadReplacement
<1>3. fee \in Nat
  <2>1. CollectedFees \in SUBSET (1 .. Len(lines)) /\ CollectedFees # {} /\ Len(lines) \in Nat
    BY RowsTyped DEF CollectedFees, ReadReplacement
  <2> QED
    BY <1>1, <2>1, LeastIsNumber
<1>4. ASSUME NEW q, q.op = "issue_replacement", q.on = k, q.with = fee, q.to = ""
      PROVE  Fits(q) /\ StatusJudged(q) /\ PaperJudged(q)
  BY <1>2, <1>4 DEF Fits, StatusJudged, PaperJudged, CertificateJudged, StepJudged, Moving, StatusOps, FormOps
<1>5. k \in Nat /\ "issue_replacement" \in Ops /\ "" \in Froms /\ "" \in Tos
  BY RowsTyped DEF Ops, PaperOps, Froms, Tos
<1> QED
  BY <1>2, <1>3, <1>4, <1>5, BeginKeeps

LEMMA ReadHandoverKeeps ==
    ASSUME Inv, NEW s \in Sessions, NEW c \in DOMAIN clearances, ReadHandover(s, c)
    PROVE  Inv'
<1>1. PICK k \in DOMAIN certificates :
         /\ certificates[k].replaces = 0 /\ certificates[k].clearance = c
         /\ certificates[k].status = "ISSUED" /\ BeginWith(s, "handover", c, k, "", "")
  BY DEF ReadHandover, Originals
<1>2. ASSUME NEW q, q.op = "handover", q.on = c, q.with = k, q.to = ""
      PROVE  Fits(q) /\ StatusJudged(q) /\ PaperJudged(q)
  BY <1>1, <1>2 DEF Fits, StatusJudged, PaperJudged, CertificateJudged, StepJudged, Moving, StatusOps, FormOps
<1>3. c \in Nat /\ k \in Nat /\ "handover" \in Ops /\ "" \in Froms /\ "" \in Tos
  BY RowsTyped DEF Ops, PaperOps, Froms, Tos
<1> QED
  BY <1>1, <1>2, <1>3, BeginKeeps

(***************************************************************************)
(* A request takes up what the finance step shows now.                     *)
(***************************************************************************)
LEMMA LoadedIs ==
    ASSUME Inv, NEW s \in Sessions, LoadCertify(s)
    PROVE  \E q \in Request :
              /\ req' = [req EXCEPT ![s] = q]
              /\ q.op = req[s].op /\ q.on = req[s].on /\ q.with = req[s].with /\ q.from = req[s].from
              /\ q.overtaken = req[s].overtaken /\ q.op = "certify"
              /\ q.to = IF clearances[q.on].finance = "done" THEN "done" ELSE "certified"
              /\ UNCHANGED <<status, voucher, money, papers, raced>>
<1>1. PICK to : to = IF clearances[req[s].on].finance = "done" THEN "done" ELSE "certified"
  OBVIOUS
<1>2. PICK r \in Request : r = req[s] /\ r.op = "certify"
  BY DEF LoadCertify, Serving, Inv, RequestsTyped
<1>3. PICK q : q = [r EXCEPT !.to = to]
  OBVIOUS
<1>4. q = [op |-> r.op, on |-> r.on, with |-> r.with, from |-> r.from, to |-> to,
           overtaken |-> r.overtaken]
  BY <1>3 DEF Request
<1>5. /\ q.op = r.op /\ q.on = r.on /\ q.with = r.with /\ q.from = r.from /\ q.to = to
      /\ q.overtaken = r.overtaken
  BY <1>4
<1>6. q \in Request
  <2>1. to \in Tos
    BY <1>1 DEF Tos
  <2>2. Request = [op : Ops \cup {"idle"}, on : Nat, with : Nat, from : Froms, to : Tos,
                   overtaken : SUBSET Races]
    BY DEF Request, Froms, Tos
  <2> QED
    BY <1>4, <2>1, <2>2
<1>7. req' = [req EXCEPT ![s] = q] /\ UNCHANGED <<status, voucher, money, papers, raced>>
  BY <1>1, <1>2, <1>3 DEF LoadCertify
<1> QED
  BY <1>1, <1>2, <1>5, <1>6, <1>7

LEMMA LoadKeeps ==
    ASSUME Inv, NEW s \in Sessions, LoadCertify(s)
    PROVE  Inv'
<1>1. PICK q \in Request :
         /\ req' = [req EXCEPT ![s] = q]
         /\ q.op = req[s].op /\ q.on = req[s].on /\ q.op = "certify"
         /\ q.to = IF clearances[q.on].finance = "done" THEN "done" ELSE "certified"
         /\ UNCHANGED <<status, voucher, money, papers, raced>>
  BY LoadedIs
<1>2. Fits(q)
  BY <1>1 DEF Inv, RequestsTyped, Fits, FormOps, StatusOps
<1>3. StatusJudged(q) /\ PaperJudged(q)
  BY <1>1 DEF StatusJudged, PaperJudged, CertificateJudged, StepJudged, Moving, StatusOps
<1> QED
  BY <1>1, <1>2, <1>3, SessionKeeps

-----------------------------------------------------------------------------
(* The invariant. *)

LEMMA FormStepKeeps ==
    ASSUME Inv, NEW s \in Sessions, ClearanceDetailView(s)
    PROVE  Inv'
<1>1. CASE \E c \in DOMAIN clearances :
              \/ ReadCustody(s, c) \/ ReadCertify(s, c) \/ ReadSecondCertify(s, c)
              \/ ReadHandover(s, c) \/ ReadClose(s, c) \/ ReadCancel(s, c)
  BY <1>1, ReadsOfFormKeep, ReadHandoverKeeps
<1>2. CASE \/ WriteCustody(s) \/ WriteCertify(s) \/ WriteSecondCertify(s) \/ WriteBlock(s)
           \/ WriteHandover(s) \/ WriteClose(s) \/ WriteCancel(s)
  BY <1>2, FormOpsKeep, HandoverKeeps
<1> QED
  BY <1>1, <1>2, LoadKeeps DEF ClearanceDetailView

LEMMA SessionStepKeeps ==
    ASSUME Inv, NEW s \in Sessions,
           \/ EnrollmentActionView(s) \/ RunDaily(s) \/ HandleVoid(s) \/ ClearancesView(s)
           \/ ClearanceDetailView(s) \/ CertificatesView(s) \/ Rollback(s)
    PROVE  Inv'
<1>1. CASE EnrollmentActionView(s)
  BY <1>1, ReadsOfStatusKeep, MoveKeeps, CancelRegistrationKeeps DEF EnrollmentActionView
<1>2. CASE RunDaily(s)
  BY <1>2, ReadsOfStatusKeep, WriteSweepKeeps DEF RunDaily
<1>3. CASE HandleVoid(s)
  BY <1>3, ReadApproveVoidKeeps, WriteApproveVoidKeeps DEF HandleVoid
<1>4. CASE ClearancesView(s)
  BY <1>4, ReadOpenKeeps, OpenKeeps DEF ClearancesView
<1>5. CASE CertificatesView(s)
  BY <1>5, ReadIssueKeeps, IssueKeeps, ReadReplacementKeeps, ReplacementKeeps DEF CertificatesView
<1> QED
  BY <1>1, <1>2, <1>3, <1>4, <1>5, FormStepKeeps, RollbackKeeps

LEMMA StutterKeeps ==
    ASSUME Inv, UNCHANGED vars
    PROVE  Inv'
<1>1. /\ Quiet /\ UNCHANGED <<status, voucher, lines, oldDebt, receipts, papers>>
      /\ MoneyTyped' /\ voucher' \in BOOLEAN
  BY DEF vars, Quiet, money, Inv, MoneyTyped
<1> QED
  BY <1>1, MoneyKeeps

LEMMA StepKeeps ==
    ASSUME Inv, [Next]_vars
    PROVE  Inv'
<1>1. CASE \/ TakePayment \/ ChargeExtraFee \/ FindOldDebt \/ PostOldDebt \/ RecordVoucher
           \/ ReturnCredit \/ \E c \in DOMAIN clearances : ReturnCreditAtClearance(c)
           \/ \E r \in DOMAIN receipts : RequestVoid(r) \/ RejectVoid(r)
  <2>1. (\E c \in DOMAIN clearances : ReturnCreditAtClearance(c)) => ReturnCredit
    BY DEF ReturnCreditAtClearance
  <2> QED
    BY <1>1, <2>1, TakePaymentKeeps, ChargesKeep, VoucherKeeps, ReturnKeeps, MarksKeep
<1>2. CASE \E s \in Sessions :
              \/ EnrollmentActionView(s) \/ RunDaily(s) \/ HandleVoid(s) \/ ClearancesView(s)
              \/ ClearanceDetailView(s) \/ CertificatesView(s) \/ Rollback(s)
  BY <1>2, SessionStepKeeps
<1>3. CASE UNCHANGED vars
  BY <1>3, StutterKeeps
<1> QED
  BY <1>1, <1>2, <1>3 DEF Next

LEMMA StartsRight == Init => Inv
<1> SUFFICES ASSUME Init PROVE Inv
  OBVIOUS
<1> DEFINE no == FALSE
           first == [type |-> "TUITION", due |-> Tuition, voided |-> no]
<1>1. first \in Line
  <2>1. no \in BOOLEAN /\ Tuition \in Nat \ {0}
    BY ConstantsAssumption
  <2> HIDE DEF no
  <2> QED
    BY <2>1 DEF Line
<1>2. lines = <<first>>
  BY DEF Init
<1> HIDE DEF first
<1>3. lines \in Seq(Line)
  BY <1>1, <1>2
<1>4. /\ receipts \in Seq(Receipt) /\ clearances \in Seq(Clearance) /\ certificates \in Seq(Certificate)
      /\ DOMAIN receipts = {} /\ DOMAIN clearances = {} /\ DOMAIN certificates = {}
  BY EmptySeq DEF Init
<1>5. MoneyTyped /\ PapersTyped
  BY <1>3, <1>4 DEF Init, MoneyTyped, PapersTyped
<1>6. \A s \in Sessions : req[s] = Idle
  BY DEF Init
<1>7. RequestsTyped
  BY <1>6, IdleIs, IdleFits DEF Init, RequestsTyped
<1>8. status \in Statuses /\ voucher \in BOOLEAN
  BY DEF Init, Statuses
<1> QED
  BY <1>4, <1>5, <1>7, <1>8 DEF Inv, Graduates, OnGraduation, OneInForce

LEMMA Invariant == Spec => []Inv
  BY StartsRight, StepKeeps, PTL DEF Spec

-----------------------------------------------------------------------------
(* Who moves the status. *)

LEMMA MoversMove ==
    ASSUME NEW s \in Sessions,
           \/ WriteApprove(s) \/ WriteLeave(s) \/ WriteCancelRegistration(s) \/ WriteSweep(s)
           \/ WriteApproveVoid(s)
    PROVE  Finish(s) /\ StatusMoves(req[s])
<1>1. CASE WriteApprove(s)
  BY <1>1 DEF WriteApprove, MoveStatus, Serving, StatusMoves, Moving, StatusOps
<1>2. CASE WriteLeave(s)
  BY <1>2, ExitIs DEF WriteLeave, MoveStatus, StatusMoves, Moving, StatusOps
<1>3. CASE WriteCancelRegistration(s)
  BY <1>3 DEF WriteCancelRegistration, MoveStatus, Serving, StatusMoves, Moving, StatusOps
<1>4. CASE WriteSweep(s)
  BY <1>4 DEF WriteSweep, Serving, StatusMoves, Moving, StatusOps
<1>5. CASE WriteApproveVoid(s)
  BY <1>5 DEF WriteApproveVoid, Serving, StatusMoves, Moving
<1> QED
  BY <1>1, <1>2, <1>3, <1>4, <1>5

LEMMA OnlyTheyMove ==
    ASSUME [Next]_vars, status' # status
    PROVE  \E s \in Sessions :
              \/ WriteApprove(s) \/ WriteLeave(s) \/ WriteCancelRegistration(s) \/ WriteSweep(s)
              \/ WriteApproveVoid(s)
<1>1. /\ ~(TakePayment \/ ChargeExtraFee \/ FindOldDebt \/ PostOldDebt \/ RecordVoucher \/ ReturnCredit)
      /\ \A c \in DOMAIN clearances : ~ReturnCreditAtClearance(c)
      /\ \A r \in DOMAIN receipts : ~RequestVoid(r) /\ ~RejectVoid(r)
  BY DEF TakePayment, ChargeExtraFee, FindOldDebt, PostOldDebt, RecordVoucher,
         ReturnCredit, ReturnCreditAtClearance, RequestVoid, RejectVoid, MarkVoid
<1>2. \A s, op, on, with, from, to : ~BeginWith(s, op, on, with, from, to)
  BY DEF BeginWith
<1>3. \A s \in Sessions :
         /\ ~ReadApprove(s) /\ ~ReadCancelRegistration(s) /\ ~ReadSweep(s) /\ ~ReadOpen(s)
         /\ ~ReadIssue(s)
         /\ \A op \in DOMAIN Exit : ~ReadLeave(s, op)
         /\ \A r \in DOMAIN receipts : ~ReadApproveVoid(s, r)
         /\ \A k \in DOMAIN certificates : ~ReadReplacement(s, k)
         /\ \A c : ~ReadHandover(s, c)
         /\ \A op, c : ~ReadForm(s, op, c)
  BY <1>2 DEF ReadApprove, ReadStatus, ReadCancelRegistration, ReadSweep, ReadOpen, ReadIssue, ReadLeave,
              ReadApproveVoid, ReadReplacement, ReadHandover, ReadForm, Begin
<1>4. \A s \in Sessions : \A c :
         /\ ~ReadCustody(s, c) /\ ~ReadCertify(s, c) /\ ~ReadSecondCertify(s, c)
         /\ ~ReadClose(s, c) /\ ~ReadCancel(s, c)
  BY <1>3 DEF ReadCustody, ReadCertify, ReadSecondCertify, ReadClose, ReadCancel, ReadBlock
<1>5. \A s \in Sessions : \A row : ~SaveForm(s, row)
  BY DEF SaveForm
<1>6. \A s \in Sessions :
         /\ ~WriteBlock(s) /\ ~WriteCustody(s) /\ ~WriteCertify(s) /\ ~WriteSecondCertify(s)
         /\ ~WriteClose(s) /\ ~WriteCancel(s)
  BY <1>5 DEF WriteBlock, WriteCustody, WriteCertify, WriteSecondCertify, WriteClose, WriteCancel
<1>7. \A s \in Sessions :
         /\ ~WriteOpen(s) /\ ~WriteIssue(s) /\ ~WriteReplacement(s) /\ ~WriteHandover(s) /\ ~Rollback(s)
         /\ ~LoadCertify(s)
  BY DEF LoadCertify, WriteOpen, WriteIssue, WriteReplacement, WriteHandover, Rollback
<1>8. Next
  BY DEF vars
<1>9. PICK s \in Sessions :
         \/ EnrollmentActionView(s) \/ RunDaily(s) \/ HandleVoid(s) \/ ClearancesView(s)
         \/ ClearanceDetailView(s) \/ CertificatesView(s) \/ Rollback(s)
  BY <1>1, <1>8 DEF Next
<1>10. /\ ~ClearancesView(s) /\ ~CertificatesView(s) /\ ~Rollback(s)
       /\ ~ClearanceDetailView(s)
  BY <1>3, <1>4, <1>6, <1>7 DEF ClearancesView, CertificatesView, ClearanceDetailView
<1> QED
  BY <1>3, <1>9, <1>10 DEF EnrollmentActionView, RunDaily, HandleVoid

-----------------------------------------------------------------------------
(* The money an enrolment stands on. *)

Exited == {"COMPLETED", "WITHDRAWN", "DISMISSED"}

StillDue == \A l \in DOMAIN lines : ~lines[l].voided

(***************************************************************************)
(* The races that may take the money from under a signature or a paper.    *)
(***************************************************************************)
Crossing == {"status", "money", "form"}

HandedBackTwice == \E r \in DOMAIN receipts : receipts[r].returned > 1

Signed ==
    \/ certificates # <<>>
    \/ \E c \in Live : clearances[c].finance # "none" /\ clearances[c].status # "BLOCKED"

(***************************************************************************)
(* What a request found when it was judged is still so, unless another     *)
(* commit has overtaken it: the status, the money an approval stands on    *)
(* and a void leaves, the forms and signatures in a void's way, the money  *)
(* under a signature.                                                      *)
(***************************************************************************)
Intends(q) ==
    /\ q.op = "cancel_registration" => q.to = "CANCELLED"
    /\ q.op = "approve" => q.to = "ACTIVE"
    /\ q.op \in DOMAIN Exit => q.to \in Exited

StatusFound(q) ==
    \/ "status" \in q.overtaken \cup raced
    \/ /\ q.op = "open" => status \in Exited
       /\ q.op = "sweep" => status \in Sweepable
       /\ q.op = "approve_void" /\ q.to # "" => status \in Sweepable

MoneyFound(q) ==
    \/ (q.overtaken \cup raced) \cap {"status", "money"} # {}
    \/ HandedBackTwice
    \/ /\ q.op = "approve" => TotalPaid > 0
       /\ q.op = "approve_void" /\ q.to = "" =>
             /\ q.on \in Issued
             /\ status \in Sweepable => TotalPaid - Worth(q.on) > 0

FormFound(q) ==
    \/ (q.overtaken \cup raced) \cap Crossing # {}
    \/ /\ q.op = "approve_void" => ~VoidBlocked
       /\ q.op \in {"certify", "second_certify", "close", "issue"} => TotalPaid >= Tuition
       /\ q.op = "custody" => q.from = clearances[q.on].status

Grounded(q) == Intends(q) /\ StatusFound(q) /\ MoneyFound(q) /\ FormFound(q)

(***************************************************************************)
(* Lines are voided by a cancellation alone, forms opened after the course *)
(* alone.                                                                  *)
(***************************************************************************)
FollowsStatus ==
    \/ "status" \in raced
    \/ /\ status # "CANCELLED" => StillDue
       /\ clearances # <<>> => status \in Exited

RunsOnMoney ==
    \/ raced \cap {"status", "money"} # {}
    \/ HandedBackTwice
    \/ status \in Sweepable => TotalPaid > 0

SignedOnMoney ==
    \/ raced \cap Crossing # {}
    \/ Signed => TotalPaid >= Tuition

Funded ==
    /\ lines # <<>> /\ lines[1].due = Tuition
    /\ FollowsStatus
    /\ RunsOnMoney
    /\ SignedOnMoney
    /\ \A s \in Sessions : Grounded(req[s])

-----------------------------------------------------------------------------
(* What is due and what is paid. *)

Worths == [r \in DOMAIN receipts |-> Worth(r)]

LEMMA IssuedIs ==
    ASSUME Inv
    PROVE  /\ IsFiniteSet(Issued) /\ Issued \subseteq DOMAIN receipts
           /\ TotalPaid = SumFunctionOnSet(Worths, Issued)
           /\ \A r \in DOMAIN receipts :
                 /\ receipts[r].returned \in Nat
                 /\ Worths[r] = 1 - receipts[r].returned /\ Worth(r) = Worths[r] /\ Worths[r] \in Int
<1>1. IsFiniteSet(DOMAIN receipts)
  BY RowsTyped, FS_Interval
<1>2. Issued \subseteq DOMAIN receipts
  BY DEF Issued
<1>3. IsFiniteSet(Issued)
  BY <1>1, <1>2, FS_Subset
<1>4. \A r \in DOMAIN receipts : receipts[r].returned \in Nat
  BY RowsTyped DEF Receipt
<1>5. \A r \in DOMAIN receipts : Worths[r] = 1 - receipts[r].returned /\ Worth(r) = Worths[r]
  BY DEF Worths, Worth
<1>6. TotalPaid = SumFunctionOnSet(Worths, Issued)
  BY DEF TotalPaid, Worths
<1> QED
  BY <1>2, <1>3, <1>4, <1>5, <1>6

LEMMA PaidIs ==
    ASSUME Inv
    PROVE  TotalPaid \in Int /\ (~HandedBackTwice => TotalPaid \in Nat)
<1>1. TotalPaid \in Int
  BY IssuedIs, SumTyped
<1>2. ASSUME ~HandedBackTwice PROVE TotalPaid \in Nat
  <2>1. ASSUME NEW r \in Issued PROVE Worths[r] \in Nat
    <3>1. r \in DOMAIN receipts /\ receipts[r].returned \in Nat
      BY IssuedIs
    <3>2. receipts[r].returned <= 1
      BY <1>2, <3>1 DEF HandedBackTwice
    <3> QED
      BY <3>1, <3>2, IssuedIs
  <2> QED
    BY <2>1, IssuedIs, SumOfNaturals
<1> QED
  BY <1>1, <1>2

(***************************************************************************)
(* While no line is voided, what is due is the tuition at least.           *)
(***************************************************************************)
LEMMA DueIs ==
    ASSUME Inv
    PROVE  /\ TotalDue \in Int
           /\ lines # <<>> /\ lines[1].due = Tuition /\ StillDue => TotalDue >= Tuition
           /\ Tuition \in Nat \ {0}
<1> DEFINE dues == [l \in DOMAIN lines |-> IF lines[l].voided THEN 0 ELSE lines[l].due]
           all == DOMAIN lines
           rest == all \ {1}
<1>1. TotalDue = SumFunctionOnSet(dues, all)
  BY DEF TotalDue, SumFunction
<1>2. IsFiniteSet(all) /\ IsFiniteSet(rest)
  <2>1. IsFiniteSet(all)
    BY RowsTyped, FS_Interval
  <2>2. rest \in SUBSET all
    OBVIOUS
  <2> HIDE DEF all, rest
  <2> QED
    BY <2>1, <2>2, FS_Subset
<1>3. ASSUME NEW l \in all PROVE dues[l] \in Nat
  <2>1. lines[l] \in Line
    BY RowsTyped
  <2>2. lines[l].due \in Nat
    BY <2>1 DEF Line
  <2> QED
    BY <2>2
<1>4. ASSUME lines # <<>>, lines[1].due = Tuition, StillDue PROVE TotalDue >= Tuition
  <2>1. 1 \in all
    BY <1>4, RowsTyped, EmptySeq DEF Inv, MoneyTyped
  <2>2. dues[1] = Tuition
    BY <1>4, <2>1 DEF StillDue
  <2> HIDE DEF dues
  <2>3. SumFunctionOnSet(dues, all) = dues[1] + SumFunctionOnSet(dues, rest)
    <3> HIDE DEF all
    <3> QED
      BY <1>2, <1>3, <2>1, SumTakeOut
  <2>4. SumFunctionOnSet(dues, rest) \in Nat
    <3>1. \A l \in rest : dues[l] \in Nat
      BY <1>3
    <3> HIDE DEF rest
    <3> QED
      BY <1>2, <3>1, SumOfNaturals
  <2> HIDE DEF all, rest
  <2> QED
    BY <1>1, <2>2, <2>3, <2>4, ConstantsAssumption
<1>5. TotalDue \in Int
  <2> HIDE DEF dues, all
  <2> QED
    BY <1>1, <1>2, <1>3, SumTyped
<1> QED
  BY <1>4, <1>5, ConstantsAssumption

(***************************************************************************)
(* Receipts that look alike next are worth as much next.                   *)
(***************************************************************************)
LEMMA PaidStays ==
    ASSUME Inv, DOMAIN receipts' = DOMAIN receipts,
           \A r \in DOMAIN receipts : receipts'[r].returned = receipts[r].returned,
           Issued' = Issued
    PROVE  TotalPaid' = TotalPaid /\ \A r \in DOMAIN receipts : Worth(r)' = Worth(r)
<1>1. PICK f : f = Worths
  OBVIOUS
<1>2. PICK g : g = Worths'
  OBVIOUS
<1>3. /\ IsFiniteSet(Issued) /\ Issued \subseteq DOMAIN receipts
      /\ TotalPaid = SumFunctionOnSet(f, Issued)
      /\ \A r \in DOMAIN receipts : f[r] = 1 - receipts[r].returned /\ Worth(r) = f[r] /\ f[r] \in Int
  BY <1>1, IssuedIs
<1>4. /\ TotalPaid' = SumFunctionOnSet(g, Issued')
      /\ \A r \in DOMAIN receipts' : g[r] = 1 - receipts'[r].returned
  BY <1>2 DEF TotalPaid, Worths, Worth
<1>5. \A r \in DOMAIN receipts : Worth(r)' = Worth(r)
  BY DEF Worth
<1>6. \A r \in Issued : f[r] \in Int /\ g[r] = f[r]
  BY <1>3, <1>4
<1>7. SumFunctionOnSet(g, Issued) = SumFunctionOnSet(f, Issued)
  BY <1>3, <1>6, SumSame
<1> QED
  BY <1>3, <1>4, <1>5, <1>7

(***************************************************************************)
(* A payment adds its unit.                                                *)
(***************************************************************************)
LEMMA PaidByPayment ==
    ASSUME Inv, TakePayment
    PROVE  /\ TotalPaid' = TotalPaid + 1
           /\ Issued \subseteq Issued' /\ DOMAIN receipts \subseteq DOMAIN receipts'
           /\ \A r \in DOMAIN receipts : receipts'[r] = receipts[r]
<1> DEFINE n == Len(receipts) + 1
<1>1. PICK new : new = [line |-> Allocate, returned |-> 0, void |-> "none"]
  OBVIOUS
<1>2. receipts' = Append(receipts, new) /\ Len(receipts) \in Nat /\ receipts \in Seq(Receipt)
  BY <1>1, RowsTyped DEF TakePayment, Inv, MoneyTyped
<1>3. /\ DOMAIN receipts' = DOMAIN receipts \cup {n} /\ n \notin DOMAIN receipts
      /\ receipts'[n] = new /\ \A r \in DOMAIN receipts : receipts'[r] = receipts[r]
  BY <1>2, RowsTyped
<1>4. Issued' = Issued \cup {n}
  BY <1>1, <1>3 DEF Issued
<1>5. PICK f : f = Worths
  OBVIOUS
<1>6. PICK g : g = Worths'
  OBVIOUS
<1>7. /\ IsFiniteSet(Issued) /\ Issued \subseteq DOMAIN receipts
      /\ TotalPaid = SumFunctionOnSet(f, Issued)
      /\ \A r \in DOMAIN receipts : f[r] = 1 - receipts[r].returned /\ f[r] \in Int
  BY <1>5, IssuedIs
<1>8. /\ TotalPaid' = SumFunctionOnSet(g, Issued')
      /\ \A r \in DOMAIN receipts' : g[r] = 1 - receipts'[r].returned
  BY <1>6 DEF TotalPaid, Worths, Worth
<1>9. g[n] = 1 /\ \A r \in Issued : g[r] = f[r] /\ f[r] \in Int
  BY <1>1, <1>3, <1>7, <1>8
<1>10. n \notin Issued /\ \A r \in Issued \cup {n} : g[r] \in Int
  BY <1>3, <1>7, <1>9
<1> HIDE DEF n
<1>11. SumFunctionOnSet(g, Issued \cup {n}) = g[n] + SumFunctionOnSet(g, Issued)
  BY <1>7, <1>10, SumAddOne
<1>12. SumFunctionOnSet(g, Issued) = SumFunctionOnSet(f, Issued)
  BY <1>7, <1>9, SumSame
<1>13. SumFunctionOnSet(f, Issued) \in Int
  BY <1>7, <1>9, SumTyped
<1> QED
  BY <1>3, <1>4, <1>7, <1>8, <1>9, <1>11, <1>12, <1>13

(***************************************************************************)
(* After a credit return what is paid is what is due.                      *)
(***************************************************************************)
LEMMA PaidAfterReturn ==
    ASSUME Inv, ReturnCredit
    PROVE  TotalPaid' = TotalDue /\ TotalDue' = TotalDue
<1>1. PICK back \in SUBSET Issued :
        /\ Cardinality(back) = -Balance
        /\ DOMAIN receipts' = DOMAIN receipts
        /\ \A r \in DOMAIN receipts :
              /\ receipts'[r].void = receipts[r].void
              /\ receipts'[r].returned = IF r \in back THEN receipts[r].returned + 1
                                         ELSE receipts[r].returned
  BY ReturnedIs
<1>2. PICK f : f = Worths
  OBVIOUS
<1>3. PICK g : g = Worths'
  OBVIOUS
<1>4. /\ IsFiniteSet(Issued) /\ Issued \subseteq DOMAIN receipts
      /\ TotalPaid = SumFunctionOnSet(f, Issued)
      /\ \A r \in DOMAIN receipts : /\ f[r] = 1 - receipts[r].returned /\ f[r] \in Int
                                    /\ receipts[r].returned \in Nat
  BY <1>2, IssuedIs
<1>5. /\ TotalPaid' = SumFunctionOnSet(g, Issued')
      /\ \A r \in DOMAIN receipts' : g[r] = 1 - receipts'[r].returned
  BY <1>3 DEF TotalPaid, Worths, Worth
<1>6. Issued' = Issued
  BY <1>1 DEF Issued
<1>7. \A r \in Issued : f[r] \in Int /\ g[r] = (IF r \in back THEN f[r] - 1 ELSE f[r])
  BY <1>1, <1>4, <1>5
<1>8. SumFunctionOnSet(g, Issued) = SumFunctionOnSet(f, Issued) - Cardinality(back)
  BY <1>4, <1>7, SumLess
<1>9. TotalDue' = TotalDue
  BY DEF ReturnCredit, TotalDue
<1> QED
  BY <1>1, <1>4, <1>5, <1>6, <1>8, <1>9, PaidIs, DueIs DEF Balance

(***************************************************************************)
(* An approved void takes away what its receipt was worth.                 *)
(***************************************************************************)
LEMMA PaidAfterVoid ==
    ASSUME Inv, NEW r \in Issued, receipts' = [receipts EXCEPT ![r].void = "approved"]
    PROVE  TotalPaid' = TotalPaid - Worth(r)
<1>1. PICK f : f = Worths
  OBVIOUS
<1>2. PICK g : g = Worths'
  OBVIOUS
<1>3. /\ IsFiniteSet(Issued) /\ Issued \subseteq DOMAIN receipts
      /\ TotalPaid = SumFunctionOnSet(f, Issued)
      /\ \A p \in DOMAIN receipts : /\ f[p] = 1 - receipts[p].returned /\ f[p] \in Int
                                    /\ Worth(p) = f[p]
  BY <1>1, IssuedIs
<1>4. /\ TotalPaid' = SumFunctionOnSet(g, Issued')
      /\ \A p \in DOMAIN receipts' : g[p] = 1 - receipts'[p].returned
  BY <1>2 DEF TotalPaid, Worths, Worth
<1> DEFINE new == [receipts[r] EXCEPT !.void = "approved"]
           left == Issued \ {r}
<1>5. new.void = "approved" /\ new.returned = receipts[r].returned
  BY <1>3, RowsTyped DEF Receipt
<1>6. receipts' = [receipts EXCEPT ![r] = new]
  OBVIOUS
<1> HIDE DEF new
<1>7. /\ DOMAIN receipts' = DOMAIN receipts
      /\ \A p \in DOMAIN receipts : receipts'[p] = IF p = r THEN new ELSE receipts[p]
  BY <1>6
<1>8. Issued' = left
  BY <1>5, <1>7 DEF Issued
<1>9. \A p \in Issued : f[p] \in Int /\ g[p] = f[p]
  BY <1>3, <1>4, <1>5, <1>7
<1>10. SumFunctionOnSet(f, Issued) = f[r] + SumFunctionOnSet(f, left)
  BY <1>3, <1>9, SumTakeOut
<1>11. IsFiniteSet(left) /\ left \subseteq Issued
  BY <1>3, FS_Subset
<1> HIDE DEF left
<1>12. SumFunctionOnSet(g, left) = SumFunctionOnSet(f, left) /\ SumFunctionOnSet(f, left) \in Int
  BY <1>9, <1>11, SumSame, SumTyped
<1> QED
  BY <1>3, <1>4, <1>8, <1>9, <1>10, <1>12

-----------------------------------------------------------------------------
(* What a request found lasts, or the request is told. *)

LEMMA OutdatesMoney ==
    ASSUME NEW a, NEW b
    PROVE  /\ Moving(a) /\ b.op \in StatusOps \cup {"approve_void", "open"} => "status" \in Outdates(a, b)
           /\ a.op = "approve_void" /\ b.op \in Standing \cup {"approve_void"}
              => "money" \in Outdates(a, b)
           /\ a.op \in Standing /\ b.op = "approve_void" => "money" \in Outdates(a, b)
           /\ a.op \in FormOps /\ b.op \in FormOps /\ b.on = a.on => "form" \in Outdates(a, b)
           /\ a.op \in FormOps \cup {"open"} /\ b.op = "approve_void" => "form" \in Outdates(a, b)
<1>1. Moving(a) /\ b.op \in StatusOps \cup {"approve_void", "open"} => "status" \in Outdates(a, b)
  BY DEF Outdates, Races, Moving
<1>2. a.op = "approve_void" /\ b.op \in Standing \cup {"approve_void"} => "money" \in Outdates(a, b)
  BY DEF Outdates, Races
<1>3. a.op \in Standing /\ b.op = "approve_void" => "money" \in Outdates(a, b)
  BY DEF Outdates, Races
<1>4. a.op \in FormOps /\ b.op \in FormOps /\ b.on = a.on => "form" \in Outdates(a, b)
  BY DEF Outdates, Races
<1>5. a.op \in FormOps \cup {"open"} /\ b.op = "approve_void" => "form" \in Outdates(a, b)
  BY DEF Outdates, Races
<1> QED
  BY <1>1, <1>2, <1>3, <1>4, <1>5

LEMMA SameMoney ==
    ASSUME receipts' = receipts
    PROVE  /\ TotalPaid' = TotalPaid /\ Issued' = Issued /\ HandedBackTwice' = HandedBackTwice
           /\ \A r : Worth(r)' = Worth(r)
  BY DEF TotalPaid, Issued, HandedBackTwice, Worth

(***************************************************************************)
(* What the commit of request a may do, as far as the others care.         *)
(***************************************************************************)
Accounts(a) ==
    /\ StatusMoves(a)
    /\ receipts' = receipts \/ a.op = "approve_void"
    /\ (VoidBlocked' => VoidBlocked) \/ a.op \in Standing \cup FormOps \cup {"open"}
    /\ DOMAIN clearances \subseteq DOMAIN clearances'
    /\ \A c \in DOMAIN clearances :
          clearances'[c].status = clearances[c].status \/ (a.op \in FormOps /\ c = a.on)

LEMMA GroundedLast ==
    ASSUME NEW a, NEW r, NEW q, Told(q, r, a), Fits(r), Grounded(r), Accounts(a), raced \subseteq raced'
    PROVE  Grounded(q)'
<1>1. /\ q.op = r.op /\ q.on = r.on /\ q.with = r.with /\ q.from = r.from /\ q.to = r.to
      /\ q.overtaken = r.overtaken \cup Outdates(a, r)
      /\ r.overtaken \cup raced \cup Outdates(a, r) \subseteq q.overtaken \cup raced'
  BY DEF Told
<1>2. Intends(q)'
  BY <1>1 DEF Grounded, Intends
<1>3. StatusFound(q)'
  <2>1. SUFFICES ASSUME "status" \notin q.overtaken \cup raced', q.op \in {"open", "sweep", "approve_void"}
                 PROVE  StatusFound(q)'
    BY DEF StatusFound
  <2>2. "status" \notin r.overtaken \cup raced /\ "status" \notin Outdates(a, r)
    BY <1>1, <2>1
  <2>3. status' = status
    BY <1>1, <2>1, <2>2, OutdatesMoney DEF StatusOps, Accounts, StatusMoves
  <2> QED
    BY <1>1, <2>2, <2>3 DEF Grounded, StatusFound
<1>4. MoneyFound(q)'
  <2>1. SUFFICES ASSUME (q.overtaken \cup raced') \cap {"status", "money"} = {},
                        ~HandedBackTwice', q.op \in {"approve", "approve_void"}
                 PROVE  MoneyFound(q)'
    BY DEF MoneyFound
  <2>2. (r.overtaken \cup raced) \cap {"status", "money"} = {}
    BY <1>1, <2>1
  <2>3. "status" \notin Outdates(a, r) /\ "money" \notin Outdates(a, r)
    BY <1>1, <2>1
  <2>4. receipts' = receipts
    BY <1>1, <2>1, <2>3, OutdatesMoney DEF Standing, Accounts
  <2>5. status' = status
    BY <1>1, <2>1, <2>3, OutdatesMoney DEF StatusOps, Accounts, StatusMoves
  <2>6. ~HandedBackTwice
    BY <2>1, <2>4, SameMoney
  <2>7. /\ r.op = "approve" => TotalPaid > 0
        /\ r.op = "approve_void" /\ r.to = "" =>
              r.on \in Issued /\ (status \in Sweepable => TotalPaid - Worth(r.on) > 0)
    BY <2>2, <2>6 DEF Grounded, MoneyFound
  <2>8. TotalPaid' = TotalPaid /\ Issued' = Issued /\ \A x : Worth(x)' = Worth(x)
    BY <2>4, SameMoney
  <2>9. q.op = "approve" => TotalPaid' > 0
    BY <1>1, <2>7, <2>8
  <2>10. q.op = "approve_void" /\ q.to = "" => q.on \in Issued'
    BY <1>1, <2>7, <2>8
  <2>11. q.op = "approve_void" /\ q.to = "" /\ status' \in Sweepable
            => TotalPaid' - Worth(q.on)' > 0
    <3>1. SUFFICES ASSUME q.op = "approve_void", q.to = "", status' \in Sweepable
                   PROVE  TotalPaid' - Worth(q.on)' > 0
      OBVIOUS
    <3>2. TotalPaid - Worth(q.on) > 0
      BY <1>1, <2>5, <2>7, <3>1
    <3>3. Worth(q.on)' = Worth(q.on)
      BY <2>8
    <3> QED
      BY <2>8, <3>2, <3>3
  <2> QED
    BY <2>9, <2>10, <2>11 DEF MoneyFound
<1>5. FormFound(q)'
  <2>1. SUFFICES ASSUME (q.overtaken \cup raced') \cap Crossing = {}
                 PROVE  FormFound(q)'
    BY DEF FormFound
  <2>2. /\ (r.overtaken \cup raced) \cap Crossing = {}
        /\ "money" \notin Outdates(a, r) /\ "form" \notin Outdates(a, r)
    BY <1>1, <2>1 DEF Crossing
  <2>3. /\ r.op = "approve_void" => ~VoidBlocked
        /\ r.op \in {"certify", "second_certify", "close", "issue"} => TotalPaid >= Tuition
        /\ r.op = "custody" => r.from = clearances[r.on].status
    BY <2>2 DEF Grounded, FormFound
  <2>4. q.op = "approve_void" => ~VoidBlocked'
    BY <1>1, <2>2, <2>3, OutdatesMoney DEF Accounts
  <2>5. q.op \in {"certify", "second_certify", "close", "issue"} => TotalPaid' >= Tuition
    <3>1. SUFFICES ASSUME q.op \in {"certify", "second_certify", "close", "issue"}
                   PROVE  TotalPaid' >= Tuition
      OBVIOUS
    <3>2. receipts' = receipts
      BY <1>1, <2>2, <3>1, OutdatesMoney DEF Standing, Accounts
    <3> QED
      BY <1>1, <2>3, <3>1, <3>2, SameMoney
  <2>6. q.op = "custody" => q.from = clearances'[q.on].status
    <3>1. SUFFICES ASSUME q.op = "custody" PROVE q.from = clearances'[q.on].status
      OBVIOUS
    <3>2. r.on \in DOMAIN clearances /\ r.op \in FormOps
      BY <1>1, <3>1 DEF Fits, FormOps
    <3>3. clearances'[r.on].status = clearances[r.on].status
      BY <2>2, <3>2, OutdatesMoney DEF Accounts
    <3> QED
      BY <1>1, <2>3, <3>1, <3>3
  <2> QED
    BY <2>4, <2>5, <2>6 DEF FormFound
<1> QED
  BY <1>2, <1>3, <1>4, <1>5 DEF Grounded

LEMMA GroundedNext ==
    ASSUME NEW t, NEW r, r = req'[t], Grounded(r)'
    PROVE  Grounded(req[t])'
<1>1. Intends(req[t])' /\ StatusFound(req[t])'
  BY DEF Grounded, Intends, StatusFound
<1>2. MoneyFound(req[t])'
  BY DEF Grounded, MoneyFound, Worth
<1>3. FormFound(req[t])'
  BY DEF Grounded, FormFound
<1> QED
  BY <1>1, <1>2, <1>3 DEF Grounded

LEMMA IdleGrounded == Grounded(Idle)' /\ Grounded(Idle)
<1>1. Intends(Idle)' /\ StatusFound(Idle)' /\ MoneyFound(Idle)' /\ FormFound(Idle)'
  BY IdleIs DEF Intends, StatusFound, MoneyFound, FormFound, Exit
<1>2. Intends(Idle) /\ StatusFound(Idle) /\ MoneyFound(Idle) /\ FormFound(Idle)
  BY IdleIs DEF Intends, StatusFound, MoneyFound, FormFound, Exit
<1> QED
  BY <1>1, <1>2 DEF Grounded

LEMMA CommitGrounds ==
    ASSUME Inv, Funded, NEW s \in Sessions, Finish(s), Accounts(req[s])
    PROVE  /\ \A t \in Sessions : Grounded(req[t])'
           /\ raced' = raced \cup req[s].overtaken
<1>1. /\ req'[s] = Idle /\ raced' = raced \cup req[s].overtaken
      /\ \A t \in Sessions \ {s} : Told(req'[t], req[t], req[s])
  BY FinishTells DEF Inv
<1>2. ASSUME NEW t \in Sessions PROVE Grounded(req[t])'
  <2>1. CASE t = s
    BY <1>1, <2>1, IdleGrounded, GroundedNext
  <2>2. CASE t # s
    <3>1. PICK a : a = req[s]
      OBVIOUS
    <3>2. PICK r : r = req[t]
      OBVIOUS
    <3>3. PICK q : q = req'[t]
      OBVIOUS
    <3>4. Told(q, r, a) /\ Fits(r) /\ Grounded(r) /\ Accounts(a)
      BY <1>1, <2>2, <3>1, <3>2, <3>3 DEF Inv, RequestsTyped, Funded
    <3>5. Grounded(q)'
      BY <1>1, <3>4, GroundedLast
    <3> QED
      BY <3>3, <3>5, GroundedNext
  <2> QED
    BY <2>1, <2>2
<1> QED
  BY <1>1, <1>2

-----------------------------------------------------------------------------
(* Steps that commit no request. *)

(***************************************************************************)
(* At least as much is paid as before, and no receipt is gone.             *)
(***************************************************************************)
Richer ==
    /\ TotalPaid' \in Int /\ TotalPaid' >= TotalPaid
    /\ Issued \subseteq Issued'
    /\ \A r \in Issued : Worth(r)' = Worth(r)
    /\ HandedBackTwice => HandedBackTwice'

LEMMA SameIsRicher ==
    ASSUME Inv, receipts' = receipts
    PROVE  Richer
<1>1. TotalPaid' = TotalPaid /\ TotalPaid \in Int
  BY PaidIs, SameMoney
<1>2. Issued' = Issued /\ HandedBackTwice' = HandedBackTwice /\ \A r \in Issued : Worth(r)' = Worth(r)
  BY SameMoney
<1> QED
  BY <1>1, <1>2 DEF Richer

LEMMA StillGrounded ==
    ASSUME Inv, NEW q, Grounded(q), Richer, UNCHANGED <<status, clearances, certificates, raced>>
    PROVE  Grounded(q)'
<1>1. Intends(q)' /\ StatusFound(q)'
  BY DEF Grounded, Intends, StatusFound
<1>2. TotalPaid \in Int /\ TotalPaid' \in Int /\ TotalPaid' >= TotalPaid
  BY PaidIs DEF Richer
<1>3. MoneyFound(q)'
  <2>1. SUFFICES ASSUME (q.overtaken \cup raced) \cap {"status", "money"} = {}, ~HandedBackTwice'
                 PROVE  MoneyFound(q)'
    BY DEF MoneyFound
  <2>2. /\ q.op = "approve" => TotalPaid > 0
        /\ q.op = "approve_void" /\ q.to = "" =>
              q.on \in Issued /\ (status \in Sweepable => TotalPaid - Worth(q.on) > 0)
    BY <2>1 DEF Grounded, MoneyFound, Richer
  <2>3. q.op = "approve" => TotalPaid' > 0
    BY <1>2, <2>2
  <2>4. q.op = "approve_void" /\ q.to = "" =>
           q.on \in Issued' /\ (status \in Sweepable => TotalPaid' - Worth(q.on)' > 0)
    <3>1. SUFFICES ASSUME q.op = "approve_void", q.to = ""
                   PROVE  q.on \in Issued' /\ (status \in Sweepable => TotalPaid' - Worth(q.on)' > 0)
      OBVIOUS
    <3>2. q.on \in Issued /\ q.on \in Issued' /\ Worth(q.on)' = Worth(q.on)
      BY <2>2, <3>1 DEF Richer
    <3>3. PICK w \in Int : w = Worth(q.on)
      BY <3>2, IssuedIs
    <3>4. Worth(q.on)' = w
      BY <3>2, <3>3
    <3>5. status \in Sweepable => TotalPaid - w > 0
      BY <2>2, <3>1, <3>3
    <3>6. status \in Sweepable => TotalPaid' - w > 0
      BY <1>2, <3>3, <3>5
    <3> QED
      BY <3>2, <3>4, <3>6
  <2> QED
    BY <2>3, <2>4 DEF MoneyFound
<1>4. FormFound(q)'
  <2>1. VoidBlocked' = VoidBlocked
    BY DEF VoidBlocked, Live
  <2>2. Tuition \in Nat
    BY ConstantsAssumption
  <2>3. FormFound(q)
    BY DEF Grounded
  <2>4. TotalPaid >= Tuition => TotalPaid' >= Tuition
    BY <1>2, <2>2
  <2> QED
    BY <2>1, <2>3, <2>4 DEF FormFound
<1> QED
  BY <1>1, <1>3, <1>4 DEF Grounded

(***************************************************************************)
(* Each session keeps its request or begins one that is grounded.          *)
(***************************************************************************)
LEMMA SteadyFunded ==
    ASSUME Inv, Funded, Richer, UNCHANGED <<status, clearances, certificates, raced>>,
           lines' # <<>>, lines'[1].due = Tuition, StillDue => StillDue',
           \A s \in Sessions : \E q : q = req'[s] /\ Grounded(q)
    PROVE  Funded'
<1>1. ASSUME NEW s \in Sessions PROVE Grounded(req[s])'
  <2>1. PICK q : q = req'[s] /\ Grounded(q)
    OBVIOUS
  <2>2. Grounded(q)'
    BY <2>1, StillGrounded
  <2> QED
    BY <2>1, <2>2, GroundedNext
<1>2. FollowsStatus'
  BY DEF Funded, FollowsStatus
<1>3. TotalPaid \in Int /\ TotalPaid' \in Int /\ TotalPaid' >= TotalPaid
  BY PaidIs DEF Richer
<1>4. RunsOnMoney'
  BY <1>3 DEF Funded, RunsOnMoney, Richer
<1>5. SignedOnMoney'
  <2>1. Signed' = Signed
    BY DEF Signed, Live
  <2> QED
    BY <1>3, <2>1, ConstantsAssumption DEF Funded, SignedOnMoney
<1> QED
  BY <1>1, <1>2, <1>4, <1>5 DEF Funded

LEMMA QuietFunded ==
    ASSUME Inv, Funded, Richer, Quiet, UNCHANGED <<status, papers>>,
           lines' # <<>>, lines'[1].due = Tuition, StillDue => StillDue'
    PROVE  Funded'
<1>1. \A s \in Sessions : \E q : q = req'[s] /\ Grounded(q)
  <2>1. SUFFICES ASSUME NEW s \in Sessions PROVE \E q : q = req'[s] /\ Grounded(q)
    OBVIOUS
  <2>2. PICK q : q = req[s]
    OBVIOUS
  <2>3. Intends(req[s]) /\ StatusFound(req[s]) /\ MoneyFound(req[s]) /\ FormFound(req[s])
    BY DEF Funded, Grounded
  <2>4. Grounded(q)
    BY <2>2, <2>3 DEF Grounded
  <2> QED
    BY <2>2, <2>4 DEF Quiet
<1> QED
  BY <1>1, SteadyFunded DEF Quiet, papers

LEMMA QuietStepsFunded ==
    ASSUME Inv, Funded,
           \/ TakePayment \/ ChargeExtraFee \/ FindOldDebt \/ PostOldDebt \/ RecordVoucher
           \/ \E r \in DOMAIN receipts : RequestVoid(r) \/ RejectVoid(r)
           \/ UNCHANGED vars
    PROVE  Funded'
<1>1. /\ Quiet /\ UNCHANGED <<status, papers>>
  BY DEF TakePayment, ChargeExtraFee, FindOldDebt, PostOldDebt, RecordVoucher, RequestVoid, RejectVoid,
         MarkVoid, Quiet, vars
<1>2. lines # <<>> /\ lines[1].due = Tuition /\ lines \in Seq(Line) /\ DOMAIN lines = 1 .. Len(lines)
      /\ Len(lines) \in Nat /\ Len(lines) # 0
  BY RowsTyped, EmptySeq DEF Funded, Inv, MoneyTyped
<1>3. lines' # <<>> /\ lines'[1].due = Tuition /\ (StillDue => StillDue')
  <2>1. CASE lines' = lines
    BY <1>2, <2>1 DEF StillDue
  <2>2. CASE ChargeExtraFee \/ PostOldDebt
    <3>1. PICK new : lines' = Append(lines, new) /\ new.voided = FALSE
      BY <2>2 DEF ChargeExtraFee, PostOldDebt, NewLine
    <3>2. /\ DOMAIN lines' = 1 .. Len(lines) + 1
          /\ \A l \in DOMAIN lines : lines'[l] = lines[l]
          /\ lines'[Len(lines) + 1] = new
      BY <1>2, <3>1
    <3>3. 1 \in DOMAIN lines /\ 1 \in DOMAIN lines'
      BY <1>2, <3>2
    <3>4. StillDue => StillDue'
      BY <1>2, <3>1, <3>2 DEF StillDue
    <3> QED
      BY <1>2, <3>2, <3>3, <3>4
  <2> QED
    BY <2>1, <2>2 DEF TakePayment, FindOldDebt, RecordVoucher, RequestVoid, RejectVoid, MarkVoid, vars, money
<1>4. Richer
  <2>1. CASE receipts' = receipts
    BY <2>1, SameIsRicher
  <2>2. CASE TakePayment
    <3>1. /\ TotalPaid' = TotalPaid + 1 /\ TotalPaid \in Int
          /\ Issued \subseteq Issued' /\ DOMAIN receipts \subseteq DOMAIN receipts'
          /\ \A r \in DOMAIN receipts : receipts'[r] = receipts[r]
      BY <2>2, PaidByPayment, PaidIs
    <3>2. \A r \in Issued : Worth(r)' = Worth(r)
      BY <3>1 DEF Issued, Worth
    <3>3. HandedBackTwice => HandedBackTwice'
      BY <3>1 DEF HandedBackTwice
    <3>4. TotalPaid' \in Int /\ TotalPaid' >= TotalPaid
      BY <3>1
    <3> QED
      BY <3>1, <3>2, <3>3, <3>4 DEF Richer
  <2>3. CASE \E r \in DOMAIN receipts : RequestVoid(r) \/ RejectVoid(r)
    <3>1. PICK r \in DOMAIN receipts, mark \in {"none", "pending"} :
            receipts[r].void # "approved" /\ receipts' = [receipts EXCEPT ![r].void = mark]
      BY <2>3 DEF RequestVoid, RejectVoid, MarkVoid
    <3> DEFINE new == [receipts[r] EXCEPT !.void = mark]
    <3>2. receipts[r] \in Receipt
      BY RowsTyped
    <3>3. new.void = mark /\ new.returned = receipts[r].returned
      BY <3>2 DEF Receipt
    <3>4. receipts' = [receipts EXCEPT ![r] = new]
      BY <3>1
    <3> HIDE DEF new
    <3>5. /\ DOMAIN receipts' = DOMAIN receipts
          /\ \A p \in DOMAIN receipts : receipts'[p] = IF p = r THEN new ELSE receipts[p]
      BY <3>4
    <3>6. \A p \in DOMAIN receipts : /\ receipts'[p].returned = receipts[p].returned
                                     /\ receipts'[p].void = "approved" <=> receipts[p].void = "approved"
      BY <3>1, <3>3, <3>5
    <3>7. Issued' = Issued
      BY <3>5, <3>6 DEF Issued
    <3>8. TotalPaid' = TotalPaid /\ \A p \in DOMAIN receipts : Worth(p)' = Worth(p)
      BY <3>5, <3>6, <3>7, PaidStays
    <3>9. HandedBackTwice => HandedBackTwice'
      BY <3>5, <3>6 DEF HandedBackTwice
    <3>10. TotalPaid \in Int /\ Issued \subseteq DOMAIN receipts
      BY PaidIs, IssuedIs
    <3> QED
      BY <3>7, <3>8, <3>9, <3>10 DEF Richer
  <2> QED
    BY <2>1, <2>2, <2>3 DEF ChargeExtraFee, FindOldDebt, PostOldDebt, RecordVoucher, vars, money
<1> QED
  BY <1>1, <1>3, <1>4, QuietFunded

(***************************************************************************)
(* The course is owed for while it runs and while papers are out on it.    *)
(***************************************************************************)
LEMMA Owing ==
    ASSUME Inv, Funded, "status" \notin raced, status \notin Final \/ clearances # <<>>
    PROVE  StillDue /\ TotalDue \in Int /\ TotalDue >= Tuition /\ TotalDue > 0
<1>1. StillDue
  BY DEF Funded, FollowsStatus, Final, Exited
<1>2. PICK due : due = TotalDue
  OBVIOUS
<1>3. due \in Int /\ due >= Tuition /\ Tuition \in Nat \ {0}
  BY <1>1, <1>2, DueIs DEF Funded
<1>4. due > 0
  BY <1>3
<1> QED
  BY <1>1, <1>2, <1>3, <1>4

LEMMA PapersOnForms ==
    ASSUME Inv, certificates # <<>>
    PROVE  clearances # <<>>
<1>1. 1 \in DOMAIN certificates
  BY RowsTyped, EmptySeq DEF Inv, PapersTyped
<1>2. certificates[1].replaces = 0
  BY <1>1 DEF Inv, PapersTyped
<1>3. certificates[1].clearance \in DOMAIN clearances \cup {0} /\ certificates[1].clearance # 0
  BY <1>1, <1>2 DEF Inv, PapersTyped
<1>4. DOMAIN clearances # {}
  BY <1>3
<1> QED
  BY <1>4, EmptySeq DEF Inv

LEMMA SignedOnForms ==
    ASSUME Inv, Signed
    PROVE  clearances # <<>>
<1>1. (\E c \in DOMAIN clearances : TRUE) => clearances # <<>>
  OBVIOUS
<1> QED
  BY <1>1, PapersOnForms DEF Signed, Live

(***************************************************************************)
(* A credit return leaves the price paid.                                  *)
(***************************************************************************)
LEMMA ReturnFunded ==
    ASSUME Inv, Funded, ReturnCredit
    PROVE  Funded'
<1>1. UNCHANGED <<status, lines, clearances, certificates, raced>>
  BY DEF ReturnCredit, papers
<1>2. TotalPaid' = TotalDue
  BY PaidAfterReturn
<1>3. "status" \notin raced /\ (status \notin Final \/ clearances # <<>>)
      => TotalPaid' \in Int /\ TotalPaid' >= Tuition /\ TotalPaid' > 0
  <2>1. SUFFICES ASSUME "status" \notin raced, status \notin Final \/ clearances # <<>>
                 PROVE  TotalPaid' \in Int /\ TotalPaid' >= Tuition /\ TotalPaid' > 0
    OBVIOUS
  <2>2. TotalDue \in Int /\ TotalDue >= Tuition /\ TotalDue > 0
    BY <2>1, Owing
  <2> QED
    BY <1>2, <2>2
<1>4. FollowsStatus' /\ lines' # <<>> /\ lines'[1].due = Tuition
  BY <1>1 DEF Funded, FollowsStatus, StillDue
<1>5. RunsOnMoney'
  BY <1>1, <1>3 DEF RunsOnMoney, Sweepable, Final
<1>6. SignedOnMoney'
  <2>1. Signed' = Signed
    BY <1>1 DEF Signed, Live
  <2> QED
    BY <1>1, <1>3, <2>1, SignedOnForms DEF SignedOnMoney, Crossing
<1>7. ASSUME NEW s \in Sessions PROVE Grounded(req[s])'
  <2>1. PICK r : r = req[s]
    OBVIOUS
  <2>2. PICK q : q = req'[s]
    OBVIOUS
  <2>3. /\ q.op = r.op /\ q.on = r.on /\ q.with = r.with /\ q.from = r.from /\ q.to = r.to
        /\ r.overtaken \subseteq q.overtaken
        /\ r.op = "approve_void" => "money" \in q.overtaken
    BY <2>1, <2>2, ReturnTells DEF Inv
  <2>4. Fits(r) /\ StatusJudged(r) /\ Grounded(r)
    BY <2>1 DEF Inv, RequestsTyped, Funded
  <2>5. Intends(q)' /\ StatusFound(q)'
    BY <1>1, <2>3, <2>4 DEF Grounded, Intends, StatusFound
  <2>6. MoneyFound(q)'
    <3>1. CASE q.op = "approve_void"
      BY <2>3, <3>1 DEF MoneyFound
    <3>2. CASE q.op = "approve"
      <4>1. SUFFICES ASSUME "status" \notin q.overtaken \cup raced
                     PROVE  TotalPaid' > 0
        BY <1>1, <3>2 DEF MoneyFound
      <4>2. status \notin Final
        BY <2>3, <2>4, <3>2, <4>1 DEF StatusJudged, Moving, StatusOps
      <4> QED
        BY <1>3, <4>1, <4>2
    <3> QED
      BY <3>1, <3>2 DEF MoneyFound
  <2>7. FormFound(q)'
    <3>1. SUFFICES ASSUME (q.overtaken \cup raced') \cap Crossing = {}
                   PROVE  FormFound(q)'
      BY DEF FormFound
    <3>2. /\ (r.overtaken \cup raced) \cap Crossing = {} /\ "status" \notin raced
          /\ q.op # "approve_void"
      BY <1>1, <2>3, <3>1 DEF Crossing
    <3>3. ASSUME q.op \in {"certify", "second_certify", "close", "issue"} PROVE TotalPaid' >= Tuition
      <4>1. r.on \in DOMAIN clearances
        BY <2>3, <2>4, <3>3 DEF Fits, FormOps
      <4>2. clearances # <<>>
        BY <4>1
      <4> QED
        BY <1>3, <3>2, <4>2
    <3>4. q.op = "custody" => q.from = clearances'[q.on].status
      BY <1>1, <2>3, <2>4, <3>2 DEF Grounded, FormFound
    <3> QED
      BY <3>2, <3>3, <3>4 DEF FormFound
  <2>8. Grounded(q)'
    BY <2>5, <2>6, <2>7 DEF Grounded
  <2> QED
    BY <2>2, <2>8, GroundedNext
<1> QED
  BY <1>4, <1>5, <1>6, <1>7 DEF Funded

-----------------------------------------------------------------------------
(* Requests that begin are grounded. *)

LEMMA BeginFunded ==
    ASSUME Inv, Funded, NEW s \in Sessions, NEW op, NEW on, NEW with, NEW from, NEW to,
           BeginWith(s, op, on, with, from, to),
           ASSUME NEW q, q.op = op, q.on = on, q.with = with, q.from = from, q.to = to
           PROVE  Grounded(q)
    PROVE  Funded'
<1>1. PICK q : q = New(op, on, with, from, to)
  OBVIOUS
<1>2. q.op = op /\ q.on = on /\ q.with = with /\ q.from = from /\ q.to = to
  BY <1>1 DEF New, Idle
<1>3. Grounded(q)
  BY <1>2
<1>4. req' = [req EXCEPT ![s] = q] /\ UNCHANGED <<status, voucher, money, papers, raced>>
  BY <1>1 DEF BeginWith, New
<1>5. ASSUME NEW t \in Sessions PROVE \E n : n = req'[t] /\ Grounded(n)
  <2>1. CASE t = s
    <3>1. req'[t] = q
      BY <1>4, <2>1 DEF Inv, RequestsTyped
    <3> QED
      BY <1>3, <3>1
  <2>2. CASE t # s
    <3>1. req'[t] = req[t]
      BY <1>4, <2>2 DEF Inv, RequestsTyped
    <3>2. PICK n : n = req[t]
      OBVIOUS
    <3>3. Grounded(n)
      BY <3>2 DEF Funded
    <3> QED
      BY <3>1, <3>2, <3>3
  <2> QED
    BY <2>1, <2>2
<1>6. Richer /\ lines' = lines
  BY <1>4, SameIsRicher DEF money
<1> QED
  BY <1>4, <1>5, <1>6, SteadyFunded DEF papers, Funded, StillDue

LEMMA RollbackFunded ==
    ASSUME Inv, Funded, NEW s \in Sessions, Rollback(s)
    PROVE  Funded'
<1>1. req' = [req EXCEPT ![s] = Idle] /\ UNCHANGED <<status, voucher, money, papers, raced>>
  BY DEF Rollback
<1>2. ASSUME NEW t \in Sessions PROVE \E n : n = req'[t] /\ Grounded(n)
  <2>1. req'[t] = IF t = s THEN Idle ELSE req[t]
    BY <1>1 DEF Inv, RequestsTyped
  <2>2. PICK n : n = req'[t]
    OBVIOUS
  <2>3. CASE t = s
    <3>1. n = Idle
      BY <2>1, <2>2, <2>3
    <3> QED
      BY <2>2, <3>1, IdleGrounded
  <2>4. CASE t # s
    BY <2>1, <2>2, <2>4 DEF Funded
  <2> QED
    BY <2>3, <2>4
<1>3. Richer /\ lines' = lines
  BY <1>1, SameIsRicher DEF money
<1> QED
  BY <1>1, <1>2, <1>3, SteadyFunded DEF papers, Funded, StillDue

LEMMA ReadApproveFunded ==
    ASSUME Inv, Funded, NEW s \in Sessions, ReadApprove(s)
    PROVE  Funded'
<1>1. status \notin Final /\ BeginWith(s, "approve", 0, 0, "", "ACTIVE")
  BY DEF ReadApprove, ReadStatus
<1>2. "status" \in raced \/ HandedBackTwice \/ TotalPaid > 0
  <2>1. SUFFICES ASSUME "status" \notin raced, ~HandedBackTwice PROVE TotalPaid > 0
    OBVIOUS
  <2>2. TotalDue \in Int /\ TotalDue > 0
    BY <1>1, <2>1, Owing
  <2>3. TotalPaid \in Nat
    BY <2>1, PaidIs
  <2> QED
    BY <2>2, <2>3 DEF ReadApprove, RequireFirstPayment, Balance
<1>3. ASSUME NEW q, q.op = "approve", q.on = 0, q.with = 0, q.from = "", q.to = "ACTIVE"
      PROVE  Grounded(q)
  <2>1. Intends(q) /\ StatusFound(q) /\ FormFound(q)
    BY <1>3, ExitIs DEF Intends, StatusFound, FormFound
  <2>2. MoneyFound(q)
    BY <1>2, <1>3 DEF MoneyFound
  <2> QED
    BY <2>1, <2>2 DEF Grounded
<1> QED
  BY <1>1, <1>3, BeginFunded

(***************************************************************************)
(* Requests that stand on no money.                                        *)
(***************************************************************************)
LEMMA ReadsFreely ==
    ASSUME Inv, Funded, NEW s \in Sessions,
           \/ ReadCancelRegistration(s) \/ ReadSweep(s) \/ ReadOpen(s)
           \/ \E op \in DOMAIN Exit : ReadLeave(s, op)
           \/ \E k \in DOMAIN certificates : ReadReplacement(s, k)
           \/ \E c \in DOMAIN clearances : ReadHandover(s, c)
    PROVE  Funded'
<1> DEFINE Freely(op, to) ==
              /\ op \notin {"approve", "approve_void", "custody", "certify", "second_certify", "close",
                            "issue"}
              /\ op = "cancel_registration" => to = "CANCELLED"
              /\ op \in DOMAIN Exit => to \in Exited
              /\ op = "open" => status \in Exited
              /\ op = "sweep" => status \in Sweepable
<1>1. ASSUME NEW op, NEW on, NEW with, NEW from, NEW to, BeginWith(s, op, on, with, from, to),
             Freely(op, to)
      PROVE  Funded'
  <2>1. ASSUME NEW q, q.op = op, q.on = on, q.with = with, q.from = from, q.to = to
        PROVE  Grounded(q)
    BY <1>1, <2>1 DEF Grounded, Intends, StatusFound, MoneyFound, FormFound
  <2> QED
    BY <1>1, <2>1, BeginFunded
<1>2. CASE ReadCancelRegistration(s)
  <2>1. BeginWith(s, "cancel_registration", 0, 0, "", "CANCELLED")
    BY <1>2 DEF ReadCancelRegistration, ReadStatus
  <2>2. Freely("cancel_registration", "CANCELLED")
    BY ExitIs
  <2> QED
    BY <1>1, <2>1, <2>2
<1>3. CASE ReadSweep(s)
  <2>1. PICK from : from = status
    OBVIOUS
  <2>2. BeginWith(s, "sweep", 0, 0, from, "") /\ Freely("sweep", "")
    BY <1>3, <2>1, ExitIs DEF ReadSweep
  <2> QED
    BY <1>1, <2>2
<1>4. CASE ReadOpen(s)
  <2>1. PICK to : to = CaseForStatus[status]
    OBVIOUS
  <2>2. BeginWith(s, "open", 0, 0, "", to) /\ status \in Exited
    BY <1>4, <2>1, CaseIs DEF ReadOpen, Exited
  <2>3. Freely("open", to)
    BY <2>2, ExitIs
  <2> QED
    BY <1>1, <2>2, <2>3
<1>5. CASE \E op \in DOMAIN Exit : ReadLeave(s, op)
  <2>1. PICK op \in DOMAIN Exit : ReadLeave(s, op)
    BY <1>5
  <2>2. PICK to : to = Exit[op]
    OBVIOUS
  <2>3. BeginWith(s, op, 0, 0, "", to) /\ to \in Exited
    BY <2>1, <2>2, ExitIs DEF ReadLeave, ReadStatus, Exited
  <2>4. Freely(op, to)
    BY <2>3, ExitIs
  <2> QED
    BY <1>1, <2>3, <2>4
<1>6. CASE \E k \in DOMAIN certificates : ReadReplacement(s, k)
  <2>1. PICK k, fee : BeginWith(s, "issue_replacement", k, fee, "", "")
    BY <1>6 DEF ReadReplacement
  <2>2. Freely("issue_replacement", "")
    BY ExitIs
  <2> QED
    BY <1>1, <2>1, <2>2
<1>7. CASE \E c \in DOMAIN clearances : ReadHandover(s, c)
  <2>1. PICK c, k : BeginWith(s, "handover", c, k, "", "")
    BY <1>7 DEF ReadHandover
  <2>2. Freely("handover", "")
    BY ExitIs
  <2> QED
    BY <1>1, <2>1, <2>2
<1> QED
  BY <1>2, <1>3, <1>4, <1>5, <1>6, <1>7

LEMMA ReadApproveVoidFunded ==
    ASSUME Inv, Funded, NEW s \in Sessions, NEW r \in DOMAIN receipts, ReadApproveVoid(s, r)
    PROVE  Funded'
<1>1. PICK to : to = IF Reverts(r) THEN "PENDING_FINANCE" ELSE ""
  OBVIOUS
<1>2. BeginWith(s, "approve_void", r, 0, "", to) /\ ~VoidBlocked /\ r \in Issued
  BY <1>1 DEF ReadApproveVoid, Issued
<1>3. to # "" => status \in Sweepable
  BY <1>1 DEF Reverts
<1>4. "status" \in raced \/ (to = "" /\ status \in Sweepable => TotalPaid - Worth(r) > 0)
  <2>1. SUFFICES ASSUME "status" \notin raced, to = "", status \in Sweepable
                 PROVE  TotalPaid - Worth(r) > 0
    OBVIOUS
  <2>2. TotalDue \in Int /\ TotalDue > 0
    BY <2>1, Owing DEF Sweepable, Final
  <2>3. ~Reverts(r)
    BY <1>1, <2>1
  <2>4. ~(TotalPaid - Worth(r) <= 0)
    BY <2>1, <2>2, <2>3 DEF Reverts
  <2>5. PICK p, w : p = TotalPaid /\ w = Worth(r)
    OBVIOUS
  <2>6. p \in Int /\ w \in Int
    BY <2>5, PaidIs, IssuedIs
  <2>7. p - w > 0
    BY <2>4, <2>5, <2>6
  <2> QED
    BY <2>5, <2>7
<1>5. ASSUME NEW q, q.op = "approve_void", q.on = r, q.with = 0, q.from = "", q.to = to
      PROVE  Grounded(q)
  <2>1. Intends(q)
    BY <1>5, ExitIs DEF Intends
  <2>2. StatusFound(q) /\ FormFound(q)
    BY <1>2, <1>3, <1>5 DEF StatusFound, FormFound
  <2>3. MoneyFound(q)
    BY <1>2, <1>4, <1>5 DEF MoneyFound
  <2> QED
    BY <2>1, <2>2, <2>3 DEF Grounded
<1> QED
  BY <1>2, <1>5, BeginFunded

(***************************************************************************)
(* An account that is settled has the price paid, once papers are out.     *)
(***************************************************************************)
LEMMA Settled ==
    ASSUME Inv, Funded, raced \cap Crossing = {}, clearances # <<>>, Balance = 0
    PROVE  TotalPaid >= Tuition
<1>1. TotalDue \in Int /\ TotalDue >= Tuition
  BY Owing DEF Crossing
<1> QED
  BY <1>1, PaidIs DEF Balance

LEMMA ReadsOfPapersFunded ==
    ASSUME Inv, Funded, NEW s \in Sessions,
           \/ ReadIssue(s)
           \/ \E c \in DOMAIN clearances :
                 ReadCustody(s, c) \/ ReadCertify(s, c) \/ ReadSecondCertify(s, c) \/ ReadClose(s, c)
                    \/ ReadCancel(s, c)
    PROVE  Funded'
<1>1. ASSUME NEW c \in DOMAIN clearances, NEW op \in FormOps \cup {"issue"}, NEW from,
             BeginWith(s, op, c, 0, from, ""),
             op \in {"certify", "second_certify", "close", "issue"} => Balance = 0,
             op = "custody" => from = clearances[c].status
      PROVE  Funded'
  <2>1. clearances # <<>>
    OBVIOUS
  <2>2. \/ raced \cap Crossing # {}
        \/ (op \in {"certify", "second_certify", "close", "issue"} => TotalPaid >= Tuition)
    BY <1>1, <2>1, Settled
  <2>3. ASSUME NEW q, q.op = op, q.on = c, q.with = 0, q.from = from, q.to = ""
        PROVE  Grounded(q)
    <3>1. q.op \in FormOps \cup {"issue"}
      BY <2>3
    <3>2. Intends(q) /\ StatusFound(q) /\ MoneyFound(q)
      BY <3>1, ExitIs DEF Intends, StatusFound, MoneyFound, FormOps
    <3>3. FormFound(q)
      BY <1>1, <2>2, <2>3 DEF FormFound, FormOps
    <3> QED
      BY <3>2, <3>3 DEF Grounded
  <2> QED
    BY <1>1, <2>3, BeginFunded
<1>2. CASE ReadIssue(s)
  <2>1. PICK c \in DOMAIN clearances : BeginWith(s, "issue", c, 0, "", "") /\ Balance = 0
    BY <1>2 DEF ReadIssue, Live, Begin
  <2> QED
    BY <1>1, <2>1
<1>3. CASE \E c \in DOMAIN clearances :
              ReadCustody(s, c) \/ ReadCertify(s, c) \/ ReadSecondCertify(s, c) \/ ReadClose(s, c)
                 \/ ReadCancel(s, c)
  <2>1. PICK c \in DOMAIN clearances, op \in FormOps :
           /\ ReadForm(s, op, c)
           /\ op \in {"certify", "second_certify", "close"} => Balance = 0
    BY <1>3 DEF ReadCustody, ReadCertify, ReadSecondCertify, ReadClose, ReadCancel, ReadBlock,
                Certifiable, FormOps
  <2>2. op # "issue"
    BY DEF FormOps
  <2>3. PICK from : from = clearances[c].status
    OBVIOUS
  <2>4. BeginWith(s, op, c, 0, from, "")
    BY <2>1, <2>3 DEF ReadForm, Begin
  <2> QED
    BY <1>1, <2>1, <2>2, <2>3, <2>4
<1> QED
  BY <1>2, <1>3

LEMMA LoadFunded ==
    ASSUME Inv, Funded, NEW s \in Sessions, LoadCertify(s)
    PROVE  Funded'
<1>1. PICK q \in Request :
         /\ req' = [req EXCEPT ![s] = q]
         /\ q.op = req[s].op /\ q.on = req[s].on /\ q.from = req[s].from
         /\ q.overtaken = req[s].overtaken /\ q.op = "certify"
         /\ UNCHANGED <<status, voucher, money, papers, raced>>
  BY LoadedIs
<1>2. Grounded(q)
  <2>1. PICK r : r = req[s]
    OBVIOUS
  <2>2. FormFound(r)
    BY <2>1 DEF Funded, Grounded
  <2>3. FormFound(q)
    BY <1>1, <2>1, <2>2 DEF FormFound
  <2>4. Intends(q) /\ StatusFound(q) /\ MoneyFound(q)
    BY <1>1, ExitIs DEF Intends, StatusFound, MoneyFound
  <2> QED
    BY <2>3, <2>4 DEF Grounded
<1>3. ASSUME NEW t \in Sessions PROVE \E n : n = req'[t] /\ Grounded(n)
  <2>1. req'[t] = IF t = s THEN q ELSE req[t]
    BY <1>1 DEF Inv, RequestsTyped
  <2>2. PICK n : n = req'[t]
    OBVIOUS
  <2>3. CASE t = s
    <3>1. n = q
      BY <2>1, <2>2, <2>3
    <3> QED
      BY <1>2, <2>2, <3>1
  <2>4. CASE t # s
    BY <2>1, <2>2, <2>4 DEF Funded
  <2> QED
    BY <2>3, <2>4
<1>4. Richer /\ lines' = lines
  BY <1>1, SameIsRicher DEF money
<1> QED
  BY <1>1, <1>3, <1>4, SteadyFunded DEF papers, Funded, StillDue

-----------------------------------------------------------------------------
(* Commits leave the enrolment funded. *)

(***************************************************************************)
(* What the request that commits was judged by, where nobody overtook it.  *)
(***************************************************************************)
LEMMA Served ==
    ASSUME Inv, Funded, NEW s \in Sessions, NEW q, q = req[s]
    PROVE  Fits(q) /\ StatusJudged(q) /\ Intends(q) /\ StatusFound(q) /\ MoneyFound(q) /\ FormFound(q)
  BY DEF Inv, RequestsTyped, Funded, Grounded

(***************************************************************************)
(* The status moves; money and papers stay as they are.                    *)
(***************************************************************************)
LEMMA MovedFunded ==
    ASSUME Inv, Funded, UNCHANGED <<receipts, clearances, certificates>>,
           \A s \in Sessions : Grounded(req[s])', raced \subseteq raced',
           "status" \notin raced' => StillDue /\ clearances = <<>>,
           lines' # <<>>, lines'[1].due = Tuition, status' # "CANCELLED" => lines' = lines,
           status' \notin Sweepable \/ raced' \cap {"status", "money"} # {} \/ HandedBackTwice
              \/ TotalPaid > 0
    PROVE  Funded'
<1>1. TotalPaid' = TotalPaid /\ HandedBackTwice' = HandedBackTwice
  BY SameMoney
<1>2. FollowsStatus'
  BY DEF FollowsStatus, StillDue
<1>3. RunsOnMoney'
  BY <1>1 DEF RunsOnMoney
<1>4. SignedOnMoney'
  <2>1. Signed' = Signed
    BY DEF Signed, Live
  <2> QED
    BY <1>1, <2>1 DEF Funded, SignedOnMoney
<1> QED
  BY <1>2, <1>3, <1>4 DEF Funded

LEMMA MovesFunded ==
    ASSUME Inv, Funded, NEW s \in Sessions,
           WriteApprove(s) \/ WriteLeave(s) \/ WriteCancelRegistration(s) \/ WriteSweep(s)
    PROVE  Funded'
<1>1. PICK q : q = req[s]
  OBVIOUS
<1>2. Finish(s) /\ StatusMoves(q) /\ UNCHANGED <<receipts, clearances, certificates>>
  BY <1>1, MoversMove DEF WriteApprove, WriteLeave, WriteCancelRegistration, MoveStatus, WriteSweep,
                          money, papers
<1>3. Fits(q) /\ StatusJudged(q) /\ Intends(q) /\ StatusFound(q) /\ MoneyFound(q)
  BY <1>1, Served
<1>4. Accounts(req[s])
  <2>1. VoidBlocked' = VoidBlocked
    BY <1>2 DEF VoidBlocked, Live
  <2> QED
    BY <1>1, <1>2, <2>1 DEF Accounts
<1>5. (\A t \in Sessions : Grounded(req[t])') /\ raced' = raced \cup q.overtaken
  BY <1>1, <1>2, <1>4, CommitGrounds
<1>6. Moving(q)
  BY <1>1, ExitIs DEF WriteApprove, WriteLeave, WriteCancelRegistration, WriteSweep, Serving, Moving,
                      StatusOps
<1>7. "status" \notin raced' => "status" \notin raced /\ status \notin Final /\ StillDue /\ clearances = <<>>
  <2>1. SUFFICES ASSUME "status" \notin raced'
                 PROVE  "status" \notin raced /\ status \notin Final /\ StillDue /\ clearances = <<>>
    OBVIOUS
  <2>2. "status" \notin raced /\ status \notin Final
    BY <1>3, <1>5, <1>6, <2>1 DEF StatusJudged
  <2> QED
    BY <2>2 DEF Funded, FollowsStatus, Exited, Final
<1>8. CASE WriteCancelRegistration(s)
  <2>1. /\ lines' = [l \in DOMAIN lines |-> [lines[l] EXCEPT !.voided = TRUE]]
        /\ status' = "CANCELLED"
    BY <1>1, <1>3, <1>8 DEF WriteCancelRegistration, MoveStatus, Serving, Intends
  <2>2. 1 \in DOMAIN lines /\ lines[1].due = Tuition /\ lines[1] \in Line
    BY RowsTyped, EmptySeq DEF Funded, Inv, MoneyTyped
  <2> DEFINE new(l) == [lines[l] EXCEPT !.voided = TRUE]
  <2>3. new(1).due = Tuition
    BY <2>2 DEF Line
  <2>4. lines' = [l \in DOMAIN lines |-> new(l)]
    BY <2>1
  <2> HIDE DEF new
  <2>5. 1 \in DOMAIN lines' /\ lines'[1] = new(1)
    BY <2>2, <2>4
  <2>6. lines' # <<>> /\ lines'[1].due = Tuition
    BY <2>3, <2>5
  <2> QED
    BY <1>2, <1>5, <1>7, <2>1, <2>6, MovedFunded DEF Sweepable
<1>9. CASE WriteApprove(s)
  <2>1. q.op = "approve" /\ status' = q.to /\ lines' = lines
    BY <1>1, <1>9 DEF WriteApprove, MoveStatus, Serving
  <2>2. status' = "ACTIVE"
    BY <1>3, <2>1 DEF Intends
  <2>3. raced' \cap {"status", "money"} = {} /\ ~HandedBackTwice => TotalPaid > 0
    BY <1>3, <1>5, <2>1 DEF MoneyFound
  <2> QED
    BY <1>2, <1>5, <1>7, <2>1, <2>2, <2>3, MovedFunded DEF Funded, StillDue
<1>10. CASE WriteLeave(s)
  <2>1. q.op \in DOMAIN Exit /\ status' = q.to /\ lines' = lines
    BY <1>1, <1>10 DEF WriteLeave, MoveStatus
  <2>2. status' \in Exited
    BY <1>3, <2>1 DEF Intends
  <2> QED
    BY <1>2, <1>5, <1>7, <2>1, <2>2, MovedFunded DEF Funded, StillDue, Exited, Sweepable
<1>11. CASE WriteSweep(s)
  <2>1. q.op = "sweep" /\ status' \in Sweepable /\ lines' = lines
    BY <1>1, <1>11 DEF WriteSweep, Serving, Sweepable, money
  <2>2. raced' \cap {"status", "money"} = {} /\ ~HandedBackTwice => TotalPaid > 0
    BY <1>3, <1>5, <2>1 DEF StatusFound, Funded, RunsOnMoney
  <2> QED
    BY <1>2, <1>5, <1>7, <2>1, <2>2, MovedFunded DEF Funded, StillDue, Sweepable
<1> QED
  BY <1>8, <1>9, <1>10, <1>11

LEMMA WriteApproveVoidFunded ==
    ASSUME Inv, Funded, NEW s \in Sessions, WriteApproveVoid(s)
    PROVE  Funded'
<1>1. PICK q : q = req[s]
  OBVIOUS
<1>2. /\ q.op = "approve_void" /\ status' = IF q.to = "" THEN status ELSE q.to
      /\ receipts' = [receipts EXCEPT ![q.on].void = "approved"]
      /\ Finish(s) /\ UNCHANGED <<lines, clearances, certificates>>
  BY <1>1 DEF WriteApproveVoid, Serving, papers
<1>3. Fits(q) /\ StatusJudged(q) /\ StatusFound(q) /\ MoneyFound(q) /\ FormFound(q)
  BY <1>1, Served
<1>4. q.on \in DOMAIN receipts /\ q.to \in {"", "PENDING_FINANCE"}
  BY <1>2, <1>3 DEF Fits
<1>5. Accounts(req[s])
  <2>1. VoidBlocked' = VoidBlocked
    BY <1>2 DEF VoidBlocked, Live
  <2>2. StatusMoves(req[s])
    BY MoversMove
  <2> QED
    BY <1>1, <1>2, <2>1, <2>2 DEF Accounts
<1>6. (\A t \in Sessions : Grounded(req[t])') /\ raced' = raced \cup q.overtaken
  BY <1>1, <1>2, <1>5, CommitGrounds
<1>7. lines' # <<>> /\ lines'[1].due = Tuition
  BY <1>2 DEF Funded
<1>8. FollowsStatus'
  <2>1. SUFFICES ASSUME "status" \notin raced'
                 PROVE  /\ status' # "CANCELLED" => StillDue'
                        /\ clearances' # <<>> => status' \in Exited
    BY DEF FollowsStatus
  <2>2. /\ status # "CANCELLED" => StillDue
        /\ clearances # <<>> => status \in Exited
        /\ q.to # "" => status \in Sweepable
    BY <1>2, <1>3, <1>6, <2>1 DEF Funded, FollowsStatus, StatusFound
  <2>3. CASE q.to = ""
    BY <1>2, <2>2, <2>3 DEF StillDue
  <2>4. CASE q.to # ""
    BY <1>2, <2>2, <2>4 DEF StillDue, Sweepable, Exited
  <2> QED
    BY <2>3, <2>4
<1>9. RunsOnMoney'
  <2>1. SUFFICES ASSUME raced' \cap {"status", "money"} = {}, ~HandedBackTwice', status' \in Sweepable
                 PROVE  TotalPaid' > 0
    BY DEF RunsOnMoney
  <2>2. q.to = "" /\ status' = status
    BY <1>2, <1>4, <2>1 DEF Sweepable
  <2>3. ~HandedBackTwice
    <3> DEFINE new == [receipts[q.on] EXCEPT !.void = "approved"]
    <3>1. receipts[q.on] \in Receipt
      BY <1>4, RowsTyped
    <3>2. new.returned = receipts[q.on].returned
      BY <3>1 DEF Receipt
    <3>3. receipts' = [receipts EXCEPT ![q.on] = new]
      BY <1>2
    <3> HIDE DEF new
    <3>4. /\ DOMAIN receipts' = DOMAIN receipts
          /\ \A r \in DOMAIN receipts : receipts'[r] = IF r = q.on THEN new ELSE receipts[r]
      BY <3>3
    <3>5. \A r \in DOMAIN receipts : receipts'[r].returned = receipts[r].returned
      BY <3>2, <3>4
    <3> QED
      BY <2>1, <3>4, <3>5 DEF HandedBackTwice
  <2>4. q.on \in Issued /\ TotalPaid - Worth(q.on) > 0
    BY <1>2, <1>3, <1>6, <2>1, <2>2, <2>3 DEF MoneyFound
  <2> QED
    BY <1>2, <2>4, PaidAfterVoid
<1>10. SignedOnMoney'
  <2>1. SUFFICES ASSUME raced' \cap Crossing = {} PROVE ~Signed'
    BY DEF SignedOnMoney
  <2>2. ~VoidBlocked
    BY <1>2, <1>3, <1>6, <2>1 DEF FormFound
  <2> QED
    BY <1>2, <2>2 DEF VoidBlocked, Signed, Live
<1> QED
  BY <1>6, <1>7, <1>8, <1>9, <1>10 DEF Funded

(***************************************************************************)
(* A clearance or a certificate is written; status and money stay.         *)
(***************************************************************************)
LEMMA PapersFunded ==
    ASSUME Inv, Funded, NEW s \in Sessions, Finish(s), Accounts(req[s]),
           UNCHANGED <<status, lines, receipts>>,
           clearances # <<>> \/ "status" \in raced' \/ status \in Exited \/ clearances' = <<>>,
           raced' \cap Crossing = {} /\ Signed' => Signed \/ TotalPaid >= Tuition
    PROVE  Funded'
<1>1. (\A t \in Sessions : Grounded(req[t])') /\ raced' = raced \cup req[s].overtaken
  BY CommitGrounds
<1>2. TotalPaid' = TotalPaid /\ HandedBackTwice' = HandedBackTwice
  BY SameMoney
<1>3. FollowsStatus'
  BY <1>1 DEF Funded, FollowsStatus, StillDue
<1>4. RunsOnMoney'
  BY <1>1, <1>2 DEF Funded, RunsOnMoney
<1>5. SignedOnMoney'
  BY <1>1, <1>2 DEF Funded, SignedOnMoney
<1> QED
  BY <1>1, <1>3, <1>4, <1>5 DEF Funded

LEMMA WriteOpenFunded ==
    ASSUME Inv, Funded, NEW s \in Sessions, WriteOpen(s)
    PROVE  Funded'
<1>1. PICK q : q = req[s]
  OBVIOUS
<1>2. q.op = "open" /\ Finish(s) /\ UNCHANGED <<status, lines, receipts, certificates>>
  BY <1>1 DEF WriteOpen, Serving, money
<1>3. PICK new : /\ clearances' = Append(clearances, new)
                 /\ new.finance = "none" /\ new.status = "OPEN"
  BY DEF WriteOpen
<1>4. /\ DOMAIN clearances' = DOMAIN clearances \cup {Len(clearances) + 1}
      /\ clearances'[Len(clearances) + 1] = new
      /\ \A c \in DOMAIN clearances : clearances'[c] = clearances[c]
  BY <1>3, RowsTyped DEF Inv
<1>5. Accounts(req[s])
  BY <1>1, <1>2, <1>4 DEF Accounts, StatusMoves
<1>6. raced' = raced \cup q.overtaken
  BY <1>1, <1>2, <1>5, CommitGrounds
<1>7. "status" \in raced' \/ status \in Exited
  BY <1>1, <1>2, <1>6, Served DEF StatusFound
<1>8. Signed' => Signed
  <2>1. SUFFICES ASSUME NEW c \in DOMAIN clearances', clearances'[c].status # "CANCELLED",
                        clearances'[c].finance # "none", clearances'[c].status # "BLOCKED"
                 PROVE  Signed
    BY <1>2 DEF Signed, Live
  <2>2. c \in DOMAIN clearances /\ clearances'[c] = clearances[c]
    BY <1>3, <1>4, <2>1
  <2> QED
    BY <2>1, <2>2 DEF Signed, Live
<1> QED
  BY <1>2, <1>5, <1>7, <1>8, PapersFunded

(***************************************************************************)
(* The row saved leaves the form signed only if it was, or the price is    *)
(* paid.                                                                   *)
(***************************************************************************)
LEMMA FormFunded ==
    ASSUME Inv, Funded, NEW s \in Sessions, NEW row, NEW c, c = req[s].on, c \in DOMAIN clearances,
           req[s].op \in FormOps, SaveForm(s, row),
           raced' \cap Crossing = {} /\ row.finance # "none" /\ row.status \notin {"BLOCKED", "CANCELLED"}
           => \/ clearances[c].finance # "none" /\ clearances[c].status \notin {"BLOCKED", "CANCELLED"}
              \/ TotalPaid >= Tuition
    PROVE  Funded'
<1>1. /\ clearances' = [clearances EXCEPT ![c] = row] /\ Finish(s)
      /\ UNCHANGED <<status, lines, receipts, certificates>>
  BY DEF SaveForm, money
<1>2. /\ DOMAIN clearances' = DOMAIN clearances
      /\ \A d \in DOMAIN clearances : clearances'[d] = IF d = c THEN row ELSE clearances[d]
  BY <1>1
<1>3. Accounts(req[s])
  BY <1>1, <1>2 DEF Accounts, StatusMoves
<1>4. raced' \cap Crossing = {} /\ Signed' => Signed \/ TotalPaid >= Tuition
  <2>1. SUFFICES ASSUME raced' \cap Crossing = {}, ~(TotalPaid >= Tuition), NEW d \in DOMAIN clearances,
                        clearances'[d].status \notin {"BLOCKED", "CANCELLED"},
                        clearances'[d].finance # "none"
                 PROVE  Signed
    BY <1>1, <1>2 DEF Signed, Live
  <2>2. clearances[d].finance # "none" /\ clearances[d].status \notin {"BLOCKED", "CANCELLED"}
    BY <1>2, <2>1
  <2> QED
    BY <2>2 DEF Signed, Live
<1>5. clearances # <<>>
  OBVIOUS
<1> QED
  BY <1>1, <1>3, <1>4, <1>5, PapersFunded

LEMMA FormOpsFunded ==
    ASSUME Inv, Funded, NEW s \in Sessions,
           WriteBlock(s) \/ WriteCustody(s) \/ WriteCertify(s) \/ WriteSecondCertify(s)
              \/ WriteClose(s) \/ WriteCancel(s)
    PROVE  Funded'
<1>1. PICK q : q = req[s]
  OBVIOUS
<1>2. PICK c : c = q.on
  OBVIOUS
<1>3. q.op \in FormOps /\ Finish(s)
  BY <1>1 DEF WriteBlock, WriteCustody, WriteCertify, WriteSecondCertify, WriteClose, WriteCancel,
              Serving, FormOps, SaveForm
<1>4. c \in DOMAIN clearances /\ FormFound(q)
  BY <1>1, <1>2, <1>3, Served DEF Fits
<1>5. raced' = raced \cup q.overtaken
  BY <1>1, <1>3 DEF Finish
<1> DEFINE old == clearances[c]
<1>6. old \in Clearance
  BY <1>4, RowsTyped
<1>7. ASSUME q.op \in {"certify", "second_certify", "close"} 
      PROVE  raced' \cap Crossing = {} => TotalPaid >= Tuition
  BY <1>4, <1>5, <1>7 DEF FormFound
<1> DEFINE signed(row) == row.finance # "none" /\ row.status \notin {"BLOCKED", "CANCELLED"}
<1>8. ASSUME NEW row, SaveForm(s, row),
             ~signed(row) \/ signed(old) \/ raced' \cap Crossing # {} \/ TotalPaid >= Tuition
      PROVE  Funded'
  BY <1>1, <1>2, <1>3, <1>4, <1>8, FormFunded
<1>9. CASE WriteBlock(s)
  <2> DEFINE row == [old EXCEPT !.status = "BLOCKED"]
  <2>1. SaveForm(s, row)
    BY <1>1, <1>2, <1>9 DEF WriteBlock
  <2>2. row.status = "BLOCKED"
    BY <1>6 DEF Clearance
  <2> HIDE DEF row
  <2> QED
    BY <1>8, <2>1, <2>2
<1>10. CASE WriteCancel(s)
  <2> DEFINE row == [old EXCEPT !.status = "CANCELLED"]
  <2>1. SaveForm(s, row)
    BY <1>1, <1>2, <1>10 DEF WriteCancel
  <2>2. row.status = "CANCELLED"
    BY <1>6 DEF Clearance
  <2> HIDE DEF row
  <2> QED
    BY <1>8, <2>1, <2>2
<1>11. CASE WriteCustody(s)
  <2> DEFINE to == IF q.from = "OPEN" THEN "IN_PROGRESS" ELSE old.status
             row == [old EXCEPT !.custody = TRUE, !.status = to]
  <2>1. SaveForm(s, row) /\ q.op = "custody"
    BY <1>1, <1>2, <1>11 DEF WriteCustody, Moved, Serving
  <2>2. \/ raced' \cap Crossing # {}
        \/ (to \notin {"BLOCKED", "CANCELLED"} => old.status \notin {"BLOCKED", "CANCELLED"})
    BY <1>2, <1>4, <1>5, <2>1 DEF FormFound
  <2> HIDE DEF to
  <2>3. row.status = to /\ row.finance = old.finance
    BY <1>6 DEF Clearance
  <2> HIDE DEF row
  <2> QED
    BY <1>8, <2>1, <2>2, <2>3
<1>12. CASE WriteCertify(s) \/ WriteSecondCertify(s) \/ WriteClose(s)
  <2>1. q.op \in {"certify", "second_certify", "close"}
    BY <1>1, <1>12 DEF WriteCertify, WriteSecondCertify, WriteClose, Serving
  <2>2. PICK row : SaveForm(s, row)
    BY <1>12 DEF WriteCertify, WriteSecondCertify, WriteClose
  <2> QED
    BY <1>7, <1>8, <2>1, <2>2
<1> QED
  BY <1>9, <1>10, <1>11, <1>12

LEMMA WriteIssueFunded ==
    ASSUME Inv, Funded, NEW s \in Sessions, WriteIssue(s)
    PROVE  Funded'
<1>1. PICK q : q = req[s]
  OBVIOUS
<1>2. q.op = "issue" /\ Finish(s) /\ UNCHANGED <<status, lines, receipts, clearances>>
  BY <1>1 DEF WriteIssue, Serving, money
<1>3. q.on \in DOMAIN clearances /\ FormFound(q)
  BY <1>1, <1>2, Served DEF Fits
<1>4. Accounts(req[s])
  BY <1>1, <1>2 DEF Accounts, StatusMoves, Standing
<1>5. raced' \cap Crossing = {} => TotalPaid >= Tuition
  BY <1>1, <1>2, <1>3 DEF FormFound, Finish
<1>6. clearances # <<>>
  BY <1>3
<1> QED
  BY <1>2, <1>4, <1>5, <1>6, PapersFunded

LEMMA WriteReplacementFunded ==
    ASSUME Inv, Funded, NEW s \in Sessions, WriteReplacement(s)
    PROVE  Funded'
<1>1. PICK q : q = req[s]
  OBVIOUS
<1>2. q.op = "issue_replacement" /\ Finish(s) /\ UNCHANGED <<status, lines, receipts, clearances>>
  BY <1>1 DEF WriteReplacement, Serving, money
<1>3. Accounts(req[s])
  BY <1>1, <1>2 DEF Accounts, StatusMoves, Standing
<1>4. q.on \in DOMAIN certificates
  BY <1>1, <1>2, Served DEF Fits
<1>5. clearances # <<>> /\ Signed
  <2>1. certificates # <<>>
    BY <1>4
  <2> QED
    BY <2>1, PapersOnForms DEF Signed
<1> QED
  BY <1>2, <1>3, <1>5, PapersFunded

LEMMA WriteHandoverFunded ==
    ASSUME Inv, Funded, NEW s \in Sessions, WriteHandover(s)
    PROVE  Funded'
<1>1. PICK q : q = req[s]
  OBVIOUS
<1>2. /\ q.op = "handover" /\ Finish(s) /\ UNCHANGED <<status, lines, receipts>>
      /\ clearances' = [clearances EXCEPT ![q.on].handed = TRUE]
  BY <1>1 DEF WriteHandover, Serving, money
<1>3. q.on \in DOMAIN clearances /\ q.with \in DOMAIN certificates
  BY <1>1, <1>2, Served DEF Fits
<1> DEFINE new == [clearances[q.on] EXCEPT !.handed = TRUE]
<1>4. clearances[q.on] \in Clearance
  BY <1>3, RowsTyped
<1>5. new.status = clearances[q.on].status /\ new.finance = clearances[q.on].finance
  BY <1>4 DEF Clearance
<1>6. clearances' = [clearances EXCEPT ![q.on] = new]
  BY <1>2
<1> HIDE DEF new
<1>7. /\ DOMAIN clearances' = DOMAIN clearances
      /\ \A c \in DOMAIN clearances : clearances'[c] = IF c = q.on THEN new ELSE clearances[c]
  BY <1>6
<1>8. \A c \in DOMAIN clearances : /\ clearances'[c].status = clearances[c].status
                                   /\ clearances'[c].finance = clearances[c].finance
  BY <1>5, <1>7
<1>9. Live' = Live
  BY <1>7, <1>8 DEF Live
<1>10. certificates # <<>> /\ clearances # <<>>
  BY <1>3
<1>11. VoidBlocked /\ Signed
  BY <1>10 DEF VoidBlocked, Signed
<1>12. Accounts(req[s])
  BY <1>1, <1>2, <1>7, <1>8, <1>11 DEF Accounts, StatusMoves
<1> QED
  BY <1>2, <1>10, <1>11, <1>12, PapersFunded

LEMMA StepFunded ==
    ASSUME Inv, Funded, [Next]_vars
    PROVE  Funded'
<1>1. CASE \/ TakePayment \/ ChargeExtraFee \/ FindOldDebt \/ PostOldDebt \/ RecordVoucher
           \/ ReturnCredit \/ \E c \in DOMAIN clearances : ReturnCreditAtClearance(c)
           \/ \E r \in DOMAIN receipts : RequestVoid(r) \/ RejectVoid(r)
  <2>1. (\E c \in DOMAIN clearances : ReturnCreditAtClearance(c)) => ReturnCredit
    BY DEF ReturnCreditAtClearance
  <2> QED
    BY <1>1, <2>1, QuietStepsFunded, ReturnFunded
<1>2. ASSUME NEW s \in Sessions,
             \/ EnrollmentActionView(s) \/ RunDaily(s) \/ HandleVoid(s) \/ ClearancesView(s)
             \/ ClearanceDetailView(s) \/ CertificatesView(s) \/ Rollback(s)
      PROVE  Funded'
  <2>1. CASE EnrollmentActionView(s)
    BY <2>1, ReadApproveFunded, ReadsFreely, MovesFunded DEF EnrollmentActionView
  <2>2. CASE RunDaily(s)
    BY <2>2, ReadsFreely, MovesFunded DEF RunDaily
  <2>3. CASE HandleVoid(s)
    BY <2>3, ReadApproveVoidFunded, WriteApproveVoidFunded DEF HandleVoid
  <2>4. CASE ClearancesView(s)
    BY <2>4, ReadsFreely, WriteOpenFunded DEF ClearancesView
  <2>5. CASE ClearanceDetailView(s)
    <3>1. CASE \E c \in DOMAIN clearances :
                  \/ ReadCustody(s, c) \/ ReadCertify(s, c) \/ ReadSecondCertify(s, c)
                  \/ ReadHandover(s, c) \/ ReadClose(s, c) \/ ReadCancel(s, c)
      BY <3>1, ReadsOfPapersFunded, ReadsFreely
    <3>2. CASE \/ WriteCustody(s) \/ WriteCertify(s) \/ WriteSecondCertify(s) \/ WriteBlock(s)
               \/ WriteHandover(s) \/ WriteClose(s) \/ WriteCancel(s)
      BY <3>2, FormOpsFunded, WriteHandoverFunded
    <3> QED
      BY <2>5, <3>1, <3>2, LoadFunded DEF ClearanceDetailView
  <2>6. CASE CertificatesView(s)
    BY <2>6, ReadsOfPapersFunded, WriteIssueFunded, ReadsFreely, WriteReplacementFunded
       DEF CertificatesView
  <2> QED
    BY <1>2, <2>1, <2>2, <2>3, <2>4, <2>5, <2>6, RollbackFunded
<1>3. CASE UNCHANGED vars
  BY <1>3, QuietStepsFunded
<1> QED
  BY <1>1, <1>2, <1>3 DEF Next

LEMMA StartsFunded == Init => Funded
<1> SUFFICES ASSUME Init PROVE Funded
  OBVIOUS
<1>1. PICK first : lines = <<first>> /\ first.due = Tuition /\ first.voided = FALSE
  BY DEF Init
<1>2. lines # <<>> /\ lines[1].due = Tuition /\ StillDue
  BY <1>1 DEF StillDue
<1>3. FollowsStatus /\ RunsOnMoney
  BY <1>2 DEF Init, FollowsStatus, RunsOnMoney, Sweepable
<1>4. SignedOnMoney
  BY DEF Init, SignedOnMoney, Signed, Live
<1>5. ASSUME NEW s \in Sessions PROVE Grounded(req[s])
  <2>1. req[s] = Idle
    BY DEF Init
  <2> QED
    BY <2>1, IdleIs DEF Grounded, Intends, StatusFound, MoneyFound, FormFound, Exit
<1> QED
  BY <1>2, <1>3, <1>4, <1>5 DEF Funded

LEMMA FundedAlways == Spec => [](Inv /\ Funded)
<1>1. Init => Inv /\ Funded
  BY StartsRight, StartsFunded
<1>2. Inv /\ Funded /\ [Next]_vars => (Inv /\ Funded)'
  BY StepKeeps, StepFunded
<1> QED
  BY <1>1, <1>2, PTL DEF Spec

-----------------------------------------------------------------------------
(* The theorems. *)

(***************************************************************************)
(* Every variable keeps its type: a receipt lies on a line there is, a     *)
(* certificate was issued on a clearance or replaces an earlier one.       *)
(***************************************************************************)
THEOREM TypeCorrect == Spec => []TypeOK
<1>1. Inv => TypeOK
  BY DEF Inv, TypeOK, MoneyTyped, PapersTyped, RequestsTyped
<1> QED
  BY <1>1, Invariant, PTL

LEMMA OneAtMost ==
    ASSUME NEW S, \A j, k \in S : j = k
    PROVE  Cardinality(S) <= 1
<1>1. CASE S = {}
  BY <1>1, FS_EmptySet
<1>2. CASE S # {}
  <2>1. PICK j : S = {j}
    BY <1>2
  <2> QED
    BY <2>1, FS_Singleton
<1> QED
  BY <1>1, <1>2

(***************************************************************************)
(* The papers tell what happened (open_clearance, close_clearance,         *)
(* issue_certificate, issue_replacement): a certificate means a completed  *)
(* course, unless a status was written over another; one is in force,      *)
(* unless two requests wrote certificates at one time; and a completed     *)
(* clearance went through its steps, unless a first signature was saved    *)
(* over the second.                                                        *)
(***************************************************************************)
THEOREM PapersAreTrue == Spec => []PapersTellTruth
<1>1. ASSUME Inv PROVE PapersTellTruth
  <2>1. CertificateMeansCompleted
    <3>1. SUFFICES ASSUME certificates # <<>>, "status" \notin raced PROVE status = "COMPLETED"
      BY DEF CertificateMeansCompleted
    <3>2. PICK k \in Originals : TRUE
      BY <1>1, <3>1, NoOriginalNoPaper
    <3>3. PICK c \in DOMAIN clearances : clearances[c].case = "GRADUATION"
      BY <1>1, <3>2 DEF Originals, Inv, PapersTyped, OnGraduation
    <3> QED
      BY <1>1, <3>1, <3>3 DEF Inv, Graduates
  <2>2. CompletedInOrder
    <3>1. SUFFICES ASSUME "step" \notin raced,
                          NEW c \in DOMAIN clearances, clearances[c].status = "COMPLETED"
                   PROVE  /\ clearances[c].custody /\ clearances[c].finance = "done"
                          /\ clearances[c].case = "GRADUATION" =>
                                \E k \in Originals : /\ certificates[k].clearance = c
                                                     /\ certificates[k].status # "ISSUED"
      BY DEF CompletedInOrder
    <3>2. InOrder(c) /\ StepsDone(c)
      BY <1>1, <3>1 DEF Inv, InOrder, StepsStand
    <3>3. clearances[c].case = "GRADUATION" => HandedOver(c)
      BY <3>2 DEF InOrder, StepsDone
    <3> QED
      BY <3>2, <3>3 DEF StepsDone, HandedOver, Originals
  <2>3. OneCertificateInForce
    BY <1>1, OneAtMost DEF OneCertificateInForce, Inv, OneInForce, InForce
  <2> QED
    BY <2>1, <2>2, <2>3 DEF PapersTellTruth
<1> QED
  BY <1>1, Invariant, PTL

(***************************************************************************)
(* Whoever takes the course, is certified for it or signed off stands on   *)
(* money that stays (require_first_payment, void_consequences,             *)
(* certify_finance_step, issue_certificate): through voids, credit returns *)
(* and cancelled clearances the price stays paid, unless a void and what   *)
(* stands on its money, one status and another, or two requests of one     *)
(* form were written over one another; and whoever takes the course has    *)
(* paid, unless statuses or voids crossed so or one payment was handed     *)
(* back twice.                                                             *)
(***************************************************************************)
THEOREM MoneyStands == Spec => []StandsOnMoney
<1>1. ASSUME Inv, Funded PROVE StandsOnMoney
  <2>1. ActiveOnMoney
    BY <1>1 DEF ActiveOnMoney, Funded, RunsOnMoney, HandedBackTwice
  <2>2. CertifiedMoneyStands
    BY <1>1 DEF CertifiedMoneyStands, Funded, SignedOnMoney, Signed, Crossing
  <2> QED
    BY <2>1, <2>2 DEF StandsOnMoney
<1> QED
  BY <1>1, FundedAlways, PTL

(***************************************************************************)
(* Nothing leaves a final status (WORKFLOWS 1.2) but a request that read   *)
(* the enrolment before it became final and is saved after.                *)
(***************************************************************************)
THEOREM FinalStays == Spec => FinalStaysFinal
<1> DEFINE Stays == status' # status /\ status \in Final
                    => \E s \in Sessions : Outdated(s, "status") /\ req'[s] = Idle
<1>1. ASSUME Inv, NEW s \in Sessions, Finish(s), StatusMoves(req[s]) PROVE Stays
  <2>1. SUFFICES ASSUME status' # status, status \in Final
                 PROVE  Outdated(s, "status") /\ req'[s] = Idle
    OBVIOUS
  <2>2. Moving(req[s])
    BY <1>1, <2>1 DEF StatusMoves
  <2>3. Outdated(s, "status")
    BY <1>1, <2>1, <2>2 DEF Inv, RequestsTyped, StatusJudged, Outdated
  <2> QED
    BY <1>1, <2>3, FinishTells DEF Inv
<1>2. ASSUME Inv, [Next]_vars PROVE Stays
  <2>1. CASE UNCHANGED status
    BY <2>1
  <2>2. CASE ~UNCHANGED status
    <3>1. \E s \in Sessions :
             \/ WriteApprove(s) \/ WriteLeave(s) \/ WriteCancelRegistration(s) \/ WriteSweep(s)
             \/ WriteApproveVoid(s)
      BY <1>2, <2>2, OnlyTheyMove
    <3>2. PICK s \in Sessions : Finish(s) /\ StatusMoves(req[s])
      BY <3>1, MoversMove
    <3> QED
      BY <1>1, <1>2, <3>2
  <2> QED
    BY <2>1, <2>2
<1> QED
  BY <1>2, Invariant, PTL DEF Spec, FinalStaysFinal
=============================================================================
