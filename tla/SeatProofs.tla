----------------------------- MODULE SeatProofs -----------------------------
(***************************************************************************)
(* Theorems about the seats people have in courses: how a cohort fills     *)
(* (Cohort), for every set of participants, deadlines and sessions and any *)
(* number of days, cohorts, files and enrolments, and how a person is      *)
(* moved from one to another (Transfer), for every set of cohorts, prices  *)
(* and desks and any number of rows.                                       *)
(***************************************************************************)
EXTENDS Cohort, Transfer, Sums, FiniteSetTheorems, SequenceTheorems, TLAPS

-----------------------------------------------------------------------------
(* Cohort. *)

(***************************************************************************)
(* An approval of the cohort whose deadline day is not past.               *)
(***************************************************************************)
OnTime(c, day) == \E f \in ApprovedFiles(c) : day <= files[f].deadline

(***************************************************************************)
(* No file of the cohort has been decided over another decision.           *)
(***************************************************************************)
Firm(c) == FilesOf(c) \cap redecided = {}

(***************************************************************************)
(* What a request is about is there, and what it brings fits.  Only one    *)
(* that is about a status is ever overtaken, and one about a file that has *)
(* been decided has been overtaken too.                                    *)
(***************************************************************************)
Fits(q) ==
    /\ q.op # "idle" => q.cohort \in DOMAIN cohorts
    /\ q.op \in FileOps => q.on \in DOMAIN files /\ files[q.on].cohort = q.cohort
    /\ q.op = "approve" => q.value \in Deadlines
    /\ q.op = "reject" => q.value = 0
    /\ q.op = "enrol" => (q.on = 0 /\ q.saved = 0) \/ q.on \in DOMAIN enrolments
    /\ q.op = "upload" => /\ q.on \in DOMAIN enrolments /\ enrolments[q.on].cohort = q.cohort
                          /\ enrolments[q.on].approved /\ q.value \in Days
    /\ q.overtaken => q.op \in StatusOps
    /\ q.crossed => q.op \in FileOps /\ q.overtaken

(***************************************************************************)
(* What a request was judged by is still so: the status of the cohort      *)
(* unless it has been overtaken, that of the file unless it has been       *)
(* crossed, an approval unless a file was decided twice.                   *)
(***************************************************************************)
StatusJudged(q) ==
    /\ q.op \in {"edit", "send"} => cohorts[q.cohort] = q.status
    /\ q.op = "start" => Startable(q.cohort)
    /\ q.op = "complete" => cohorts[q.cohort] = "RUNNING"
    /\ q.op = "cancel" => Cancellable(q.cohort)

FileJudged(q) ==
    /\ q.op = "send" => files[q.on].status = "DRAFT"
    /\ q.op \in {"approve", "reject"} => Decidable(q.on)

SeatJudged(q) ==
    /\ q.op = "enrol" => CohortIsApproved(q.cohort)
    /\ q.op = "upload" => \/ q.override \/ enrolments[q.on].opened = "deferral"
                          \/ OnTime(q.cohort, q.value)

Judged(q) ==
    /\ q.overtaken \/ StatusJudged(q)
    /\ q.crossed \/ FileJudged(q)
    /\ Firm(q.cohort) => SeatJudged(q)

FilesTyped ==
    /\ files \in Seq(File)
    /\ \A f \in DOMAIN files : /\ files[f].deadline # 0 <=> files[f].status = "APPROVED"
                              /\ files[f].cohort \in DOMAIN cohorts

SeatsTyped ==
    /\ enrolments \in Seq(Enrollment)
    /\ \A e \in DOMAIN enrolments : /\ enrolments[e].uploaded # 0 => enrolments[e].approved
                                   /\ enrolments[e].cohort \in DOMAIN cohorts

(***************************************************************************)
(* Who decides a file over another decision rewrites the cohort's status.  *)
(***************************************************************************)
Marked ==
    /\ rewritten \subseteq DOMAIN cohorts
    /\ redecided \subseteq DOMAIN files
    /\ \A f \in redecided : files[f].cohort \in rewritten

RequestsTyped ==
    /\ req \in [Sessions -> Request]
    /\ Marked
    /\ \A s \in Sessions : Fits(req[s])

Typed ==
    /\ today \in Days
    /\ cohorts \in Seq(CohortStatuses)
    /\ FilesTyped
    /\ SeatsTyped
    /\ RequestsTyped

(***************************************************************************)
(* The seat of row e stands on an approval, and its name arrived in time   *)
(* or by override.                                                         *)
(***************************************************************************)
SeatStands(e) ==
    \/ ~Firm(e.cohort)
    \/ e.opened = "deferral"
    \/ /\ CohortIsApproved(e.cohort)
       /\ e.uploaded = 0 \/ e.override \/ OnTime(e.cohort, e.uploaded)

(***************************************************************************)
(* The status of a cohort has its file.                                    *)
(***************************************************************************)
HasFile(c, status) == \E f \in FilesOf(c) : files[f].status = status

StatusBacked(c) ==
    /\ cohorts[c] \in {"RUNNING", "COMPLETED"} => CohortIsApproved(c)
    /\ cohorts[c] = "PENDING_MOHE" => HasFile(c, "SUBMITTED")
    /\ cohorts[c] = "MOHE_REJECTED" => HasFile(c, "REJECTED")

StatusStands(c) == c \in rewritten \/ StatusBacked(c)

Inv ==
    /\ Typed
    /\ \A e \in DOMAIN enrolments : SeatStands(enrolments[e])
    /\ \A c \in DOMAIN cohorts : StatusStands(c)
    /\ \A s \in Sessions : Judged(req[s])

-----------------------------------------------------------------------------
(* What no step undoes. *)

(***************************************************************************)
(* No row goes, none changes its cohort, no approval of a seat is undone.  *)
(***************************************************************************)
Grown ==
    /\ DOMAIN cohorts \subseteq DOMAIN cohorts'
    /\ DOMAIN files \subseteq DOMAIN files'
    /\ \A f \in DOMAIN files : files'[f].cohort = files[f].cohort
    /\ DOMAIN enrolments \subseteq DOMAIN enrolments'
    /\ \A e \in DOMAIN enrolments :
          /\ enrolments'[e].cohort = enrolments[e].cohort
          /\ enrolments'[e].opened = enrolments[e].opened
          /\ enrolments[e].approved => enrolments'[e].approved

(***************************************************************************)
(* What was rewritten or redecided stays noted.                            *)
(***************************************************************************)
Noted == rewritten \subseteq rewritten' /\ redecided \subseteq redecided'

(***************************************************************************)
(* What the ministry decided stays as it was, but for files decided over   *)
(* another decision.                                                       *)
(***************************************************************************)
Held ==
    \A f \in DOMAIN files \ redecided' :
        files[f].status \in {"APPROVED", "REJECTED"}
        => files'[f].status = files[f].status /\ files'[f].deadline = files[f].deadline

LEMMA GrownFits ==
    ASSUME Grown, NEW q, Fits(q)
    PROVE  Fits(q)'
  BY DEF Grown, Fits, FileOps

LEMMA FirmLast ==
    ASSUME Grown, Noted, NEW c, Firm(c)'
    PROVE  Firm(c)
<1>1. FilesOf(c) \subseteq FilesOf(c)'
  BY DEF Grown, FilesOf
<1> QED
  BY <1>1 DEF Noted, Firm

LEMMA ApprovalsLast ==
    ASSUME Grown, Noted, Held, NEW c, Firm(c)'
    PROVE  /\ CohortIsApproved(c) => CohortIsApproved(c)'
           /\ HasFile(c, "REJECTED") => HasFile(c, "REJECTED")'
           /\ \A day : OnTime(c, day) => OnTime(c, day)'
<1>1. FilesOf(c) \subseteq FilesOf(c)' /\ FilesOf(c) \subseteq DOMAIN files \ redecided'
  BY DEF Grown, FilesOf, Firm
<1>2. \A f \in ApprovedFiles(c) : f \in ApprovedFiles(c)' /\ files'[f].deadline = files[f].deadline
  BY <1>1 DEF Held, ApprovedFiles
<1>3. \A f \in FilesOf(c) : files[f].status = "REJECTED" => f \in FilesOf(c)' /\ files'[f].status = "REJECTED"
  BY <1>1 DEF Held
<1> QED
  BY <1>2, <1>3 DEF CohortIsApproved, HasFile, OnTime

LEMMA SeatsLast ==
    ASSUME Grown, Noted, Held, NEW e, SeatStands(e)
    PROVE  SeatStands(e)'
<1>1. CASE Firm(e.cohort)'
  BY <1>1, FirmLast, ApprovalsLast DEF SeatStands
<1>2. CASE ~Firm(e.cohort)'
  BY <1>2 DEF SeatStands
<1> QED
  BY <1>1, <1>2

(***************************************************************************)
(* A request is judged as before while the status of its cohort and of its *)
(* file stay, and the approvals.                                           *)
(***************************************************************************)
Still(f) == files'[f].status = files[f].status

Unmoved(c) ==
    /\ cohorts'[c] = cohorts[c]
    /\ \A f \in DOMAIN files : files[f].cohort = c => Still(f)

LEMMA UnmovedLast ==
    ASSUME Grown, NEW c, Unmoved(c)
    PROVE  /\ CohortIsApproved(c) => CohortIsApproved(c)'
           /\ \A status : HasFile(c, status) => HasFile(c, status)'
<1>1. \A f \in FilesOf(c) : f \in FilesOf(c)' /\ files'[f].status = files[f].status
  BY DEF Grown, FilesOf, Unmoved, Still
<1> QED
  BY <1>1 DEF CohortIsApproved, ApprovedFiles, HasFile

LEMMA JudgedLast ==
    ASSUME Grown, Noted, Held, NEW q, Fits(q), Judged(q),
           q.op \in StatusOps /\ ~q.overtaken => Unmoved(q.cohort),
           q.op \in FileOps /\ ~q.crossed => Still(q.on)
    PROVE  Judged(q)'
<1>1. q.overtaken \/ StatusJudged(q)'
  <2> SUFFICES ASSUME ~q.overtaken, q.op \in StatusOps PROVE StatusJudged(q)'
    BY DEF StatusJudged, StatusOps, FileOps
  <2>1. cohorts'[q.cohort] = cohorts[q.cohort]
    BY DEF Unmoved
  <2>2. q.op = "start" => Startable(q.cohort)'
    BY <2>1, UnmovedLast DEF Judged, StatusJudged, Startable
  <2> QED
    BY <2>1, <2>2 DEF Judged, StatusJudged, Cancellable
<1>2. q.crossed \/ FileJudged(q)'
  BY DEF Judged, FileJudged, Decidable, Still, FileOps
<1>3. Firm(q.cohort)' => SeatJudged(q)'
  <2> SUFFICES ASSUME Firm(q.cohort)' PROVE SeatJudged(q)'
    OBVIOUS
  <2>1. SeatJudged(q)
    BY FirmLast DEF Judged
  <2>2. q.op = "upload" => enrolments'[q.on].opened = enrolments[q.on].opened
    BY DEF Fits, Grown
  <2> QED
    BY <2>1, <2>2, ApprovalsLast DEF SeatJudged
<1> QED
  BY <1>1, <1>2, <1>3 DEF Judged

-----------------------------------------------------------------------------
(* Requests. *)

LEMMA IdleFits == /\ Idle \in Request /\ Fits(Idle) /\ Judged(Idle) /\ Fits(Idle)' /\ Judged(Idle)'
                  /\ Idle.op = "idle" /\ Idle.on = 0 /\ Idle.value = 0 /\ Idle.saved = 0
                  /\ ~Idle.override /\ ~Idle.overtaken /\ ~Idle.crossed
<1> DEFINE first == CHOOSE p \in Participants : TRUE
<1>1. first \in Participants
  BY ConstantsAssumption
<1>2. Idle = [op |-> "idle", on |-> 0, cohort |-> 0, status |-> "PLANNED", participant |-> first,
              value |-> 0, saved |-> 0, override |-> FALSE, overtaken |-> FALSE, crossed |-> FALSE]
  BY DEF Idle
<1> HIDE DEF first
<1>3. Idle \in Request
  BY <1>1, <1>2 DEF Request, CohortStatuses
<1>4. /\ Idle.op = "idle" /\ Idle.on = 0 /\ Idle.value = 0 /\ Idle.saved = 0
      /\ ~Idle.override /\ ~Idle.overtaken /\ ~Idle.crossed
  BY <1>2
<1>5. PICK idle : idle = Idle
  OBVIOUS
<1>6. Fits(idle) /\ Judged(idle) /\ Fits(idle)' /\ Judged(idle)'
  BY <1>4, <1>5 DEF Fits, Judged, StatusJudged, FileJudged, SeatJudged, FileOps
<1> QED
  BY <1>3, <1>4, <1>5, <1>6
     DEF Fits, Judged, StatusJudged, FileJudged, SeatJudged, Startable, Cancellable, Decidable, Firm, Idle

(***************************************************************************)
(* q is r, unless it is told that it has been overtaken or crossed.        *)
(***************************************************************************)
Told(q, r, overtaken, crossed) ==
    /\ q \in Request
    /\ q.op = r.op /\ q.on = r.on /\ q.cohort = r.cohort /\ q.value = r.value /\ q.saved = r.saved
    /\ q.status = r.status /\ q.override = r.override
    /\ q.overtaken <=> (r.overtaken \/ overtaken)
    /\ q.crossed <=> (r.crossed \/ crossed)

LEMMA Telling ==
    ASSUME NEW r \in Request, NEW o \in BOOLEAN, NEW x \in BOOLEAN, NEW q,
           q = [r EXCEPT !.overtaken = @ \/ o, !.crossed = @ \/ x]
    PROVE  Told(q, r, o, x)
<1>1. r.overtaken \in BOOLEAN /\ r.crossed \in BOOLEAN
  BY DEF Request
<1>2. PICK late \in BOOLEAN : late = (r.overtaken \/ o)
  OBVIOUS
<1>3. PICK over \in BOOLEAN : over = (r.crossed \/ x)
  OBVIOUS
<1> DEFINE told == [r EXCEPT !.overtaken = late]
<1>4. q = [told EXCEPT !.crossed = over]
  BY <1>2, <1>3
<1>5. /\ told \in Request
      /\ told.op = r.op /\ told.on = r.on /\ told.cohort = r.cohort /\ told.value = r.value
      /\ told.saved = r.saved /\ told.status = r.status
  BY DEF Request
<1>6. told.override = r.override /\ told.overtaken = late
  BY DEF Request
<1> HIDE DEF told
<1>7. /\ q \in Request
      /\ q.op = r.op /\ q.on = r.on /\ q.cohort = r.cohort /\ q.value = r.value
      /\ q.saved = r.saved /\ q.status = r.status
  BY <1>4, <1>5 DEF Request
<1>8. q.override = told.override /\ q.overtaken = told.overtaken /\ q.crossed = over
  BY <1>4, <1>5 DEF Request
<1>9. q.override = r.override
  BY <1>6, <1>8
<1>10. q.overtaken <=> (r.overtaken \/ o)
  BY <1>2, <1>6, <1>8
<1>11. q.crossed <=> (r.crossed \/ x)
  BY <1>3, <1>8
<1> QED
  BY <1>7, <1>9, <1>10, <1>11 DEF Told

LEMMA CommitTells ==
    ASSUME req \in [Sessions -> Request], NEW s \in Sessions, NEW next, Committed(s, next)
    PROVE  /\ req' = [t \in Sessions |-> req'[t]]
           /\ Noted
           /\ req[s].overtaken => req[s].cohort \in rewritten'
           /\ req[s].crossed => req[s].on \in redecided'
           /\ rewritten' \ rewritten \subseteq {c \in {req[s].cohort} : req[s].overtaken}
           /\ redecided' \ redecided \subseteq {f \in {req[s].on} : req[s].crossed}
           /\ req'[s] = next
           /\ \A t \in Sessions \ {s} :
                 Told(req'[t], req[t], Outdates(req[s], req[t]), Crosses(req[s], req[t]))
<1>1. req' = [t \in Sessions |->
                IF t = s THEN next
                ELSE [req[t] EXCEPT !.overtaken = @ \/ Outdates(req[s], req[t]),
                                    !.crossed = @ \/ Crosses(req[s], req[t])]]
  BY DEF Committed
<1>2. ASSUME NEW t \in Sessions, t # s
      PROVE  Told(req'[t], req[t], Outdates(req[s], req[t]), Crosses(req[s], req[t]))
  <2>1. PICK r \in Request : r = req[t]
    OBVIOUS
  <2> DEFINE o == Outdates(req[s], r)
             x == Crosses(req[s], r)
  <2>2. o \in BOOLEAN /\ x \in BOOLEAN
    BY DEF Outdates, Crosses
  <2>3. req'[t] = [r EXCEPT !.overtaken = @ \/ o, !.crossed = @ \/ x]
    BY <1>1, <1>2, <2>1
  <2> HIDE DEF o, x
  <2>4. Told(req'[t], r, o, x)
    BY <2>2, <2>3, Telling
  <2> QED
    BY <2>1, <2>4 DEF o, x
<1>3. req'[s] = next
  BY <1>1
<1>4. /\ Noted
      /\ req[s].overtaken => req[s].cohort \in rewritten'
      /\ req[s].crossed => req[s].on \in redecided'
      /\ rewritten' \ rewritten \subseteq {c \in {req[s].cohort} : req[s].overtaken}
      /\ redecided' \ redecided \subseteq {f \in {req[s].on} : req[s].crossed}
  BY DEF Committed, Noted
<1> QED
  BY <1>1, <1>2, <1>3, <1>4

(***************************************************************************)
(* The requests in flight survive a commit that moves nothing but the      *)
(* cohort of a request about its status, and the file of one about a file. *)
(***************************************************************************)
LEMMA CommitKeeps ==
    ASSUME Inv, NEW s \in Sessions, NEW next \in Request, Committed(s, next), Grown,
           Fits(next)', Judged(next)', Held,
           ASSUME NEW c \in DOMAIN cohorts, ~(req[s].op \in StatusOps /\ c = req[s].cohort)
           PROVE  Unmoved(c),
           ASSUME NEW f \in DOMAIN files, ~(req[s].op \in FileOps /\ f = req[s].on)
           PROVE  Still(f)
    PROVE  RequestsTyped' /\ \A t \in Sessions : Judged(req[t])'
<1>1. /\ req' = [t \in Sessions |-> req'[t]]
      /\ Noted
      /\ req[s].overtaken => req[s].cohort \in rewritten'
      /\ rewritten' \ rewritten \subseteq {c \in {req[s].cohort} : req[s].overtaken}
      /\ redecided' \ redecided \subseteq {f \in {req[s].on} : req[s].crossed}
      /\ req'[s] = next
      /\ \A t \in Sessions \ {s} :
            Told(req'[t], req[t], Outdates(req[s], req[t]), Crosses(req[s], req[t]))
  BY CommitTells DEF Inv, Typed, RequestsTyped
<1>2. PICK p \in Request : p = req[s]
  BY DEF Inv, Typed, RequestsTyped
<1>3. Fits(p)
  BY <1>2 DEF Inv, Typed, RequestsTyped
<1>4. ASSUME NEW t \in Sessions PROVE req'[t] \in Request /\ Fits(req[t])' /\ Judged(req[t])'
  <2>1. PICK q : q = req'[t]
    OBVIOUS
  <2>2. q \in Request /\ Fits(q)' /\ Judged(q)'
    <3>1. CASE t = s
      BY <1>1, <2>1, <3>1
         DEF Fits, Judged, StatusJudged, FileJudged, SeatJudged, Startable, Cancellable, Decidable
    <3>2. CASE t # s
      <4>1. PICK r \in Request : r = req[t]
        BY DEF Inv, Typed, RequestsTyped
      <4>2. Told(q, r, Outdates(p, r), Crosses(p, r))
        BY <1>1, <1>2, <2>1, <3>2, <4>1
      <4>3. Fits(r) /\ Judged(r)
        BY <4>1 DEF Inv, Typed, RequestsTyped
      <4>4. Crosses(p, r) => Outdates(p, r) /\ r.op \in FileOps
        BY <1>3, <4>3 DEF Crosses, Outdates, Fits, StatusOps
      <4>5. Outdates(p, r) => r.op \in StatusOps
        BY DEF Outdates
      <4>6. Fits(q)
        BY <4>2, <4>3, <4>4, <4>5 DEF Told, Fits
      <4>7. Judged(q)
        BY <4>2, <4>3 DEF Told, Judged, StatusJudged, FileJudged, SeatJudged
      <4>8. q.op \in StatusOps /\ ~q.overtaken => Unmoved(q.cohort)
        <5> SUFFICES ASSUME q.op \in StatusOps, ~q.overtaken PROVE Unmoved(q.cohort)
          OBVIOUS
        <5>1. q.cohort \in DOMAIN cohorts
          BY <4>6 DEF Fits, StatusOps, FileOps
        <5>2. ~(p.op \in StatusOps /\ q.cohort = p.cohort)
          BY <4>2 DEF Told, Outdates
        <5> QED
          BY <1>2, <5>1, <5>2
      <4>9. q.op \in FileOps /\ ~q.crossed => Still(q.on)
        <5> SUFFICES ASSUME q.op \in FileOps, ~q.crossed PROVE Still(q.on)
          OBVIOUS
        <5>1. q.on \in DOMAIN files
          BY <4>6 DEF Fits
        <5>2. ~(p.op \in FileOps /\ q.on = p.on)
          BY <4>2 DEF Told, Crosses
        <5> QED
          BY <1>2, <5>1, <5>2
      <4> QED
        BY <1>1, <4>2, <4>6, <4>7, <4>8, <4>9, GrownFits, JudgedLast DEF Told
    <3> QED
      BY <3>1, <3>2
  <2> QED
    BY <2>1, <2>2 DEF Fits, Judged, StatusJudged, FileJudged, SeatJudged, Startable, Cancellable, Decidable
<1>5. req' \in [Sessions -> Request]
  BY <1>1, <1>4
<1>6. Marked'
  <2>1. \A c \in rewritten' : c \in DOMAIN cohorts
    BY <1>1, <1>2, <1>3 DEF Inv, Typed, RequestsTyped, Marked, Fits, StatusOps, FileOps
  <2>2. \A f \in redecided' : f \in DOMAIN files /\ files[f].cohort \in rewritten'
    BY <1>1, <1>2, <1>3 DEF Inv, Typed, RequestsTyped, Marked, Fits, Noted
  <2> QED
    BY <2>1, <2>2 DEF Grown, Marked
<1> QED
  BY <1>4, <1>5, <1>6 DEF RequestsTyped

(***************************************************************************)
(* What is noted stays typed while no row goes.                            *)
(***************************************************************************)
LEMMA MarkedLasts ==
    ASSUME Marked, Grown, UNCHANGED <<rewritten, redecided>>
    PROVE  Marked' /\ Noted
  BY DEF Marked, Grown, Noted

(***************************************************************************)
(* A request outlives a step that moves none of the rows it was judged by. *)
(***************************************************************************)
LEMMA QuietJudged ==
    ASSUME Grown, Noted, Held, \A c \in DOMAIN cohorts : Unmoved(c), FilesTyped,
           NEW r, Fits(r), Judged(r)
    PROVE  Fits(r)' /\ Judged(r)'
<1>1. r.op \in StatusOps => r.cohort \in DOMAIN cohorts
  BY DEF Fits, StatusOps, FileOps
<1>2. r.op \in FileOps => Still(r.on)
  BY DEF Fits, FilesTyped, Unmoved
<1> QED
  BY <1>1, <1>2, GrownFits, JudgedLast

(***************************************************************************)
(* The same of a step outside the requests, that moves none of the rows    *)
(* they were judged by.                                                    *)
(***************************************************************************)
LEMMA QuietKeeps ==
    ASSUME Inv, Quiet, Grown, Held, \A c \in DOMAIN cohorts : Unmoved(c)
    PROVE  Noted /\ RequestsTyped' /\ \A t \in Sessions : Judged(req[t])'
<1>1. UNCHANGED <<req, rewritten, redecided>>
  BY DEF Quiet
<1>2. Marked' /\ Noted
  BY <1>1, MarkedLasts DEF Inv, Typed, RequestsTyped
<1>3. ASSUME NEW t \in Sessions PROVE Fits(req[t])' /\ Judged(req[t])'
  <2>1. PICK r \in Request : r = req[t]
    BY DEF Inv, Typed, RequestsTyped
  <2>2. Fits(r)' /\ Judged(r)'
    BY <1>2, <2>1, QuietJudged DEF Inv, Typed, RequestsTyped
  <2> QED
    BY <1>1, <2>1, <2>2
       DEF Fits, Judged, StatusJudged, FileJudged, SeatJudged, Startable, Cancellable, Decidable
<1> QED
  BY <1>1, <1>2, <1>3 DEF Inv, Typed, RequestsTyped

(***************************************************************************)
(* A request begins with what it has just read, or ends; no row changes.   *)
(***************************************************************************)
LEMMA SessionKeeps ==
    ASSUME Inv, NEW s \in Sessions, NEW q \in Request, Fits(q), Judged(q),
           req' = [req EXCEPT ![s] = q],
           UNCHANGED <<today, cohorts, files, enrolments, rewritten, redecided>>
    PROVE  Inv'
<1>1. req \in [Sessions -> Request]
  BY DEF Inv, Typed, RequestsTyped
<1>2. \A t \in Sessions : req'[t] = IF t = s THEN q ELSE req[t]
  BY <1>1
<1>3. req' \in [Sessions -> Request]
  BY <1>1
<1>4. ASSUME NEW t \in Sessions PROVE Fits(req[t])' /\ Judged(req[t])'
  <2>1. PICK r : r = req'[t]
    OBVIOUS
  <2>2. Fits(r) /\ Judged(r)
    BY <1>2, <2>1 DEF Inv, Typed, RequestsTyped
  <2>3. Fits(r)' /\ Judged(r)'
    BY <2>2 DEF Fits, Judged, StatusJudged, FileJudged, SeatJudged, Startable, Cancellable, Decidable,
                CohortIsApproved, ApprovedFiles, FilesOf, OnTime, Firm
  <2> QED
    BY <2>1, <2>3
       DEF Fits, Judged, StatusJudged, FileJudged, SeatJudged, Startable, Cancellable, Decidable
<1>5. Typed'
  BY <1>3, <1>4 DEF Inv, Typed, RequestsTyped, FilesTyped, SeatsTyped, Marked
<1> QED
  BY <1>4, <1>5 DEF Inv, SeatStands, StatusStands, StatusBacked, HasFile, CohortIsApproved,
                    ApprovedFiles, FilesOf, OnTime, Firm

LEMMA RollbackKeeps ==
    ASSUME Inv, NEW s \in Sessions, Rollback(s)
    PROVE  Inv'
  BY SessionKeeps, IdleFits DEF Rollback

-----------------------------------------------------------------------------
(* Rows. *)

LEMMA StatusWritten ==
    ASSUME cohorts \in Seq(CohortStatuses), NEW c \in DOMAIN cohorts, NEW new \in CohortStatuses,
           cohorts' = [cohorts EXCEPT ![c] = new]
    PROVE  /\ cohorts' \in Seq(CohortStatuses) /\ DOMAIN cohorts' = DOMAIN cohorts
           /\ \A d \in DOMAIN cohorts : cohorts'[d] = IF d = c THEN new ELSE cohorts[d]
  BY ExceptSeq, LenProperties

LEMMA FileWritten ==
    ASSUME files \in Seq(File), NEW f \in DOMAIN files, NEW new \in File,
           files' = [files EXCEPT ![f] = new]
    PROVE  /\ files' \in Seq(File) /\ DOMAIN files' = DOMAIN files
           /\ \A g \in DOMAIN files : files'[g] = IF g = f THEN new ELSE files[g]
  BY ExceptSeq, LenProperties

LEMMA SeatWritten ==
    ASSUME enrolments \in Seq(Enrollment), NEW e \in DOMAIN enrolments, NEW new \in Enrollment,
           enrolments' = [enrolments EXCEPT ![e] = new]
    PROVE  /\ enrolments' \in Seq(Enrollment) /\ DOMAIN enrolments' = DOMAIN enrolments
           /\ \A d \in DOMAIN enrolments : enrolments'[d] = IF d = e THEN new ELSE enrolments[d]
  BY ExceptSeq, LenProperties

LEMMA RowsTyped ==
    ASSUME Typed
    PROVE  /\ DOMAIN cohorts = 1 .. Len(cohorts) /\ Len(cohorts) \in Nat
           /\ \A c \in DOMAIN cohorts : c \in Nat \ {0} /\ cohorts[c] \in CohortStatuses
           /\ DOMAIN files = 1 .. Len(files) /\ Len(files) \in Nat
           /\ \A f \in DOMAIN files : f \in Nat \ {0}
           /\ \A f \in DOMAIN files : files[f] \in File
           /\ \A f \in DOMAIN files : files[f].deadline \in Nat
           /\ \A f \in DOMAIN files : files[f].status = "APPROVED" => files[f].deadline \in Deadlines
           /\ DOMAIN enrolments = 1 .. Len(enrolments) /\ Len(enrolments) \in Nat
           /\ \A e \in DOMAIN enrolments : e \in Nat \ {0} /\ enrolments[e] \in Enrollment
<1>1. \A d \in Deadlines : d \in Nat
  BY ConstantsAssumption
<1>2. /\ DOMAIN cohorts = 1 .. Len(cohorts) /\ Len(cohorts) \in Nat
      /\ \A c \in DOMAIN cohorts : c \in Nat \ {0} /\ cohorts[c] \in CohortStatuses
  BY LenProperties DEF Typed
<1>3. /\ DOMAIN files = 1 .. Len(files) /\ Len(files) \in Nat
      /\ \A f \in DOMAIN files : f \in Nat \ {0} /\ files[f] \in File
  BY LenProperties DEF Typed, FilesTyped
<1>4. \A f \in DOMAIN files : files[f].deadline \in Deadlines \cup {0}
  BY <1>3 DEF File
<1>5. /\ DOMAIN enrolments = 1 .. Len(enrolments) /\ Len(enrolments) \in Nat
      /\ \A e \in DOMAIN enrolments : e \in Nat \ {0} /\ enrolments[e] \in Enrollment
  BY LenProperties DEF Typed, SeatsTyped
<1>6. \A f \in DOMAIN files : files[f].status = "APPROVED" => files[f].deadline # 0
  BY DEF Typed, FilesTyped
<1> QED
  BY <1>1, <1>2, <1>3, <1>4, <1>5, <1>6

(***************************************************************************)
(* A status stands while neither it nor its file is moved.                 *)
(***************************************************************************)
LEMMA StatusLast ==
    ASSUME Grown, Noted, NEW c \in DOMAIN cohorts, Unmoved(c), StatusStands(c)
    PROVE  StatusStands(c)'
<1>1. cohorts'[c] = cohorts[c]
  BY DEF Unmoved
<1>2. /\ CohortIsApproved(c) => CohortIsApproved(c)'
      /\ HasFile(c, "SUBMITTED") => HasFile(c, "SUBMITTED")'
      /\ HasFile(c, "REJECTED") => HasFile(c, "REJECTED")'
  BY UnmovedLast
<1> QED
  BY <1>1, <1>2 DEF StatusStands, StatusBacked, Noted

-----------------------------------------------------------------------------
(* Commits that move the status of a cohort. *)

(***************************************************************************)
(* A request that has not been overtaken is judged as it was when read.    *)
(***************************************************************************)
LEMMA StatusFresh ==
    ASSUME Inv, NEW s \in Sessions, Committed(s, Idle), req[s].cohort \notin rewritten'
    PROVE  /\ StatusJudged(req[s]) /\ FileJudged(req[s]) /\ req[s].cohort \notin rewritten
<1>1. ~req[s].overtaken /\ req[s].cohort \notin rewritten
  BY CommitTells DEF Inv, Typed, RequestsTyped, Noted
<1>2. ~req[s].crossed
  BY <1>1 DEF Inv, Typed, RequestsTyped, Fits
<1> QED
  BY <1>1, <1>2 DEF Inv, Judged

LEMMA StatusKeeps ==
    ASSUME Inv, NEW s \in Sessions, NEW new \in CohortStatuses, Finish(s),
           req[s].op \in StatusOps \ FileOps,
           cohorts' = [cohorts EXCEPT ![req[s].cohort] = new],
           UNCHANGED <<today, files, enrolments>>,
           req[s].cohort \notin rewritten'
           => \/ new = cohorts[req[s].cohort]
              \/ /\ new \notin {"PENDING_MOHE", "MOHE_REJECTED"}
                 /\ new \in {"RUNNING", "COMPLETED"} => CohortIsApproved(req[s].cohort)
    PROVE  Inv'
<1>1. PICK c \in DOMAIN cohorts : c = req[s].cohort
  BY DEF Inv, Typed, RequestsTyped, Fits, StatusOps
<1>2. /\ cohorts' \in Seq(CohortStatuses) /\ DOMAIN cohorts' = DOMAIN cohorts
      /\ \A d \in DOMAIN cohorts : cohorts'[d] = IF d = c THEN new ELSE cohorts[d]
  BY <1>1, StatusWritten DEF Inv, Typed
<1>3. Grown /\ Held /\ \A d \in DOMAIN cohorts \ {c} : Unmoved(d)
  BY <1>2 DEF Grown, Held, Unmoved, Still
<1>4. Committed(s, Idle)
  BY DEF Finish
<1>5. Noted
  BY <1>4, CommitTells DEF Inv, Typed, RequestsTyped
<1>6. RequestsTyped' /\ \A t \in Sessions : Judged(req[t])'
  <2>1. \A f \in DOMAIN files : Still(f)
    BY DEF Still
  <2> QED
    BY <1>1, <1>3, <1>4, <2>1, IdleFits, CommitKeeps
<1>7. Typed'
  BY <1>2, <1>6 DEF Inv, Typed, FilesTyped, SeatsTyped
<1>8. ASSUME NEW d \in DOMAIN cohorts PROVE StatusStands(d)'
  <2>1. StatusStands(d)
    BY DEF Inv
  <2>2. CASE d # c
    BY <1>3, <1>5, <2>1, <2>2, StatusLast
  <2>3. CASE d = c /\ c \notin rewritten'
    <3>1. StatusBacked(c)
      BY <1>5, <2>1, <2>3 DEF StatusStands, Noted
    <3> QED
      BY <1>1, <1>2, <2>3, <3>1 DEF StatusStands, StatusBacked, HasFile, CohortIsApproved, ApprovedFiles, FilesOf
  <2>4. CASE d = c /\ c \in rewritten'
    BY <2>4 DEF StatusStands
  <2> QED
    BY <2>2, <2>3, <2>4
<1>9. ASSUME NEW e \in DOMAIN enrolments PROVE SeatStands(enrolments[e])'
  <2>1. PICK x : x = enrolments[e]
    OBVIOUS
  <2>2. SeatStands(x)'
    BY <1>3, <1>5, <2>1, SeatsLast DEF Inv
  <2> QED
    BY <2>1, <2>2 DEF SeatStands
<1> QED
  BY <1>2, <1>6, <1>7, <1>8, <1>9 DEF Inv

LEMMA EditKeeps ==
    ASSUME Inv, NEW s \in Sessions, WriteEdit(s)
    PROVE  Inv'
<1>1. /\ req[s].op = "edit" /\ Finish(s) /\ UNCHANGED <<today, files, enrolments>>
      /\ cohorts' = [cohorts EXCEPT ![req[s].cohort] = req[s].status]
  BY DEF WriteEdit, Serving
<1>2. req[s].status \in CohortStatuses
  BY DEF Inv, Typed, RequestsTyped, Request
<1>3. req[s].cohort \notin rewritten' => req[s].status = cohorts[req[s].cohort]
  BY <1>1, StatusFresh DEF Finish, StatusJudged
<1> QED
  BY <1>1, <1>2, <1>3, StatusKeeps DEF StatusOps, FileOps

LEMMA OutcomeIs ==
    /\ DOMAIN Outcome = {"start", "complete", "cancel"}
    /\ Outcome["start"] = "RUNNING" /\ Outcome["complete"] = "COMPLETED"
    /\ Outcome["cancel"] = "CANCELLED_LOW_ENROLLMENT"
  BY DEF Outcome

(***************************************************************************)
(* Only what is approved starts, and only what runs completes.             *)
(***************************************************************************)
LEMMA WriteStatusKeeps ==
    ASSUME Inv, NEW s \in Sessions, WriteStatus(s)
    PROVE  Inv'
<1> DEFINE new == Outcome[req[s].op]
<1>1. /\ req[s].op \in {"start", "complete", "cancel"} /\ Finish(s) /\ UNCHANGED <<today, files, enrolments>>
      /\ cohorts' = [cohorts EXCEPT ![req[s].cohort] = new]
  BY OutcomeIs DEF WriteStatus
<1>2. new \in {"RUNNING", "COMPLETED", "CANCELLED_LOW_ENROLLMENT"}
  BY <1>1, OutcomeIs
<1>3. ASSUME req[s].cohort \notin rewritten', new # "CANCELLED_LOW_ENROLLMENT"
      PROVE  CohortIsApproved(req[s].cohort)
  <2>1. StatusJudged(req[s]) /\ req[s].cohort \notin rewritten
    BY <1>1, <1>3, StatusFresh DEF Finish
  <2>2. Fits(req[s])
    BY DEF Inv, Typed, RequestsTyped
  <2>3. CASE req[s].op = "start"
    BY <2>1, <2>3 DEF StatusJudged, Startable
  <2>4. CASE req[s].op = "complete"
    BY <2>1, <2>2, <2>4 DEF Inv, StatusJudged, Fits, StatusStands, StatusBacked
  <2> QED
    BY <1>1, <1>3, <2>3, <2>4, OutcomeIs
<1> HIDE DEF new
<1>4. new \in CohortStatuses
  BY <1>2 DEF CohortStatuses
<1>5. req[s].cohort \notin rewritten'
      => /\ new \notin {"PENDING_MOHE", "MOHE_REJECTED"}
         /\ new \in {"RUNNING", "COMPLETED"} => CohortIsApproved(req[s].cohort)
  BY <1>2, <1>3
<1> QED
  BY <1>1, <1>4, <1>5, StatusKeeps DEF StatusOps, FileOps

(***************************************************************************)
(* A step of the ministry's file: the file is saved, and its cohort takes  *)
(* the status that goes with it.                                           *)
(***************************************************************************)
LEMMA FileKeeps ==
    ASSUME Inv, NEW s \in Sessions, NEW new \in File, NEW status \in CohortStatuses, Finish(s),
           req[s].op \in FileOps,
           files' = [files EXCEPT ![req[s].on] = new],
           cohorts' = [cohorts EXCEPT ![req[s].cohort] = status],
           UNCHANGED <<today, enrolments>>,
           new.cohort = req[s].cohort,
           new.deadline # 0 <=> new.status = "APPROVED",
           req[s].on \notin redecided' => files[req[s].on].status \notin {"APPROVED", "REJECTED"},
           req[s].cohort \notin rewritten'
           => /\ files[req[s].on].status \notin {"APPROVED", "REJECTED"}
              /\ files[req[s].on].status = "SUBMITTED" => status # "PENDING_MOHE"
              /\ \/ status = cohorts[req[s].cohort]
                 \/ status \in {"PLANNED", "CANCELLED_LOW_ENROLLMENT"}
                 \/ status = "PENDING_MOHE" /\ new.status = "SUBMITTED"
                 \/ status = "MOHE_REJECTED" /\ new.status = "REJECTED"
    PROVE  Inv'
<1>1. PICK c \in DOMAIN cohorts : c = req[s].cohort
  BY DEF Inv, Typed, RequestsTyped, Fits, FileOps
<1>2. PICK f \in DOMAIN files : f = req[s].on /\ files[f].cohort = c
  BY <1>1 DEF Inv, Typed, RequestsTyped, Fits
<1>3. /\ cohorts' \in Seq(CohortStatuses) /\ DOMAIN cohorts' = DOMAIN cohorts
      /\ \A d \in DOMAIN cohorts : cohorts'[d] = IF d = c THEN status ELSE cohorts[d]
  BY <1>1, StatusWritten DEF Inv, Typed
<1>4. /\ files' \in Seq(File) /\ DOMAIN files' = DOMAIN files
      /\ \A g \in DOMAIN files : files'[g] = IF g = f THEN new ELSE files[g]
  BY <1>2, FileWritten DEF Inv, Typed, FilesTyped
<1>5. Grown /\ (\A d \in DOMAIN cohorts \ {c} : Unmoved(d)) /\ (\A g \in DOMAIN files \ {f} : Still(g))
  BY <1>1, <1>2, <1>3, <1>4 DEF Grown, Unmoved, Still
<1>6. Held
  BY <1>2, <1>4 DEF Held
<1>7. Committed(s, Idle)
  BY DEF Finish
<1>8. Noted
  BY <1>7, CommitTells DEF Inv, Typed, RequestsTyped
<1>9. RequestsTyped' /\ \A t \in Sessions : Judged(req[t])'
  <2>1. req[s].op \in StatusOps
    BY DEF StatusOps
  <2> QED
    BY <1>1, <1>2, <1>5, <1>6, <1>7, <2>1, IdleFits, CommitKeeps
<1>10. Typed'
  <2>1. FilesTyped'
    BY <1>1, <1>2, <1>3, <1>4 DEF Inv, Typed, FilesTyped
  <2> QED
    BY <1>3, <1>9, <2>1 DEF Inv, Typed, SeatsTyped
<1>11. ASSUME NEW d \in DOMAIN cohorts PROVE StatusStands(d)'
  <2>1. StatusStands(d)
    BY DEF Inv
  <2>2. CASE d # c
    BY <1>5, <1>8, <2>1, <2>2, StatusLast
  <2>3. CASE d = c /\ c \notin rewritten'
    <3>1. HasFile(c, new.status)'
      BY <1>1, <1>2, <1>4 DEF HasFile, FilesOf
    <3>2. \A was : HasFile(c, was) /\ files[f].status # was => HasFile(c, was)'
      BY <1>2, <1>4 DEF HasFile, FilesOf
    <3>3. /\ CohortIsApproved(c) /\ files[f].status # "APPROVED" => CohortIsApproved(c)'
          /\ HasFile(c, "REJECTED") /\ files[f].status # "REJECTED" => HasFile(c, "REJECTED")'
      BY <3>2 DEF CohortIsApproved, ApprovedFiles, HasFile
    <3>4. cohorts'[c] = status
      BY <1>3
    <3>5. StatusBacked(c)
      BY <1>8, <2>1, <2>3 DEF StatusStands, Noted
    <3> QED
      BY <1>1, <1>2, <2>3, <3>1, <3>2, <3>3, <3>4, <3>5 DEF StatusStands, StatusBacked
  <2>4. CASE d = c /\ c \in rewritten'
    BY <2>4 DEF StatusStands
  <2> QED
    BY <2>2, <2>3, <2>4
<1>12. ASSUME NEW e \in DOMAIN enrolments PROVE SeatStands(enrolments[e])'
  <2>1. PICK x : x = enrolments[e]
    OBVIOUS
  <2>2. SeatStands(x)'
    BY <1>5, <1>6, <1>8, <2>1, SeatsLast DEF Inv
  <2> QED
    BY <2>1, <2>2 DEF SeatStands
<1> QED
  BY <1>3, <1>9, <1>10, <1>11, <1>12 DEF Inv

(***************************************************************************)
(* A file that is not decided over another decision is as it was judged.   *)
(***************************************************************************)
LEMMA FileFresh ==
    ASSUME Inv, NEW s \in Sessions, Committed(s, Idle), req[s].on \notin redecided'
    PROVE  FileJudged(req[s])
<1>1. ~req[s].crossed
  BY CommitTells DEF Inv, Typed, RequestsTyped
<1> QED
  BY <1>1 DEF Inv, Judged

LEMMA SendKeeps ==
    ASSUME Inv, NEW s \in Sessions, WriteSend(s)
    PROVE  Inv'
<1> DEFINE f == req[s].on
           c == req[s].cohort
           sent == [files[f] EXCEPT !.status = "SUBMITTED"]
           new == [sent EXCEPT !.deadline = 0]
           status == IF req[s].status = "PLANNED" THEN "PENDING_MOHE" ELSE cohorts[c]
<1>1. /\ req[s].op = "send" /\ Finish(s) /\ UNCHANGED <<today, enrolments>>
      /\ files' = [files EXCEPT ![f] = new]
      /\ cohorts' = IF req[s].status = "PLANNED"
                    THEN [cohorts EXCEPT ![c] = "PENDING_MOHE"] ELSE cohorts
  BY DEF WriteSend, Serving
<1>2. /\ c \in DOMAIN cohorts /\ f \in DOMAIN files /\ files[f].cohort = c
      /\ files[f] \in File /\ cohorts[c] \in CohortStatuses
  <2>1. Fits(req[s]) /\ Typed
    BY DEF Inv, Typed, RequestsTyped
  <2>2. c \in DOMAIN cohorts /\ f \in DOMAIN files /\ files[f].cohort = c
    BY <1>1, <2>1 DEF Fits, FileOps
  <2>3. \A d \in DOMAIN cohorts : cohorts[d] \in CohortStatuses
    BY <2>1, RowsTyped
  <2>4. \A g \in DOMAIN files : files[g] \in File
    BY <2>1, RowsTyped
  <2> QED
    BY <2>2, <2>3, <2>4
<1>3. /\ c \notin rewritten' => cohorts[c] = req[s].status /\ files[f].status = "DRAFT"
      /\ f \notin redecided' => files[f].status = "DRAFT"
  BY <1>1, StatusFresh, FileFresh DEF Finish, StatusJudged, FileJudged
<1>4. cohorts' = [cohorts EXCEPT ![c] = status]
  <2>1. cohorts = [cohorts EXCEPT ![c] = cohorts[c]]
    <3>1. cohorts \in [1 .. Len(cohorts) -> CohortStatuses]
      BY LenProperties DEF Inv, Typed
    <3> HIDE DEF c
    <3> QED
      BY <1>2, <3>1
  <2> QED
    BY <1>1, <2>1
<1>5. status \in CohortStatuses
  BY <1>2 DEF CohortStatuses
<1>6. \/ status = cohorts[c] \/ status = "PENDING_MOHE"
  OBVIOUS
<1>7. sent \in File /\ sent.status = "SUBMITTED" /\ sent.cohort = c
  BY <1>2 DEF File, FileStatuses
<1> HIDE DEF sent, status
<1>8. new \in File /\ new.status = "SUBMITTED" /\ new.cohort = c /\ new.deadline = 0
  BY <1>7 DEF File
<1> HIDE DEF new
<1> QED
  BY <1>1, <1>3, <1>4, <1>5, <1>6, <1>8, FileKeeps DEF FileOps

LEMMA DecisionIs ==
    /\ DOMAIN AfterDecision = {"approve", "reject"}
    /\ AfterDecision["approve"] = "PLANNED" /\ AfterDecision["reject"] = "MOHE_REJECTED"
  BY DEF AfterDecision

LEMMA DecisionKeeps ==
    ASSUME Inv, NEW s \in Sessions, WriteDecision(s)
    PROVE  Inv'
<1> DEFINE f == req[s].on
           c == req[s].cohort
           outcome == IF req[s].op = "approve" THEN "APPROVED" ELSE "REJECTED"
           decided == [files[f] EXCEPT !.status = outcome]
           new == [decided EXCEPT !.deadline = req[s].value]
           status == AfterDecision[req[s].op]
<1>1. /\ req[s].op \in {"approve", "reject"} /\ Finish(s) /\ UNCHANGED <<today, enrolments>>
      /\ files' = [files EXCEPT ![f] = new]
      /\ cohorts' = [cohorts EXCEPT ![c] = status]
  BY DecisionIs DEF WriteDecision
<1>2. /\ c \in DOMAIN cohorts /\ f \in DOMAIN files /\ files[f].cohort = c
      /\ files[f] \in File
      /\ req[s].op = "approve" => req[s].value \in Deadlines
      /\ req[s].op = "reject" => req[s].value = 0
  <2>1. Fits(req[s]) /\ Typed
    BY DEF Inv, Typed, RequestsTyped
  <2>2. /\ c \in DOMAIN cohorts /\ f \in DOMAIN files /\ files[f].cohort = c
        /\ req[s].op = "approve" => req[s].value \in Deadlines
        /\ req[s].op = "reject" => req[s].value = 0
    BY <1>1, <2>1 DEF Fits, FileOps
  <2>3. \A d \in DOMAIN cohorts : cohorts[d] \in CohortStatuses
    BY <2>1, RowsTyped
  <2>4. \A g \in DOMAIN files : files[g] \in File
    BY <2>1, RowsTyped
  <2> QED
    BY <2>2, <2>3, <2>4
<1>3. /\ c \notin rewritten' => files[f].status = "SUBMITTED"
      /\ f \notin redecided' => files[f].status = "SUBMITTED"
  BY <1>1, StatusFresh, FileFresh DEF Finish, FileJudged, Decidable
<1>4. /\ status \in CohortStatuses
      /\ status = "PLANNED" \/ (status = "MOHE_REJECTED" /\ outcome = "REJECTED")
  BY <1>1, DecisionIs DEF CohortStatuses
<1>5. /\ outcome \in FileStatuses /\ req[s].value \in Deadlines \cup {0}
      /\ req[s].value # 0 <=> outcome = "APPROVED"
  BY <1>1, <1>2, ConstantsAssumption DEF FileStatuses
<1> HIDE DEF outcome, status
<1>6. decided \in File /\ decided.status = outcome /\ decided.cohort = c
  BY <1>2, <1>5 DEF File
<1> HIDE DEF decided
<1>7. new \in File /\ new.status = outcome /\ new.cohort = c /\ new.deadline = req[s].value
  BY <1>5, <1>6 DEF File
<1> HIDE DEF new
<1>8. status # "PENDING_MOHE"
  BY <1>4
<1> QED
  BY <1>1, <1>3, <1>4, <1>5, <1>7, <1>8, FileKeeps DEF FileOps

-----------------------------------------------------------------------------
(* Commits that prepare a file. *)

(***************************************************************************)
(* A file that is prepared, or gets its documents, moves no decision.      *)
(***************************************************************************)
LEMMA FilesKeep ==
    ASSUME Inv, Grown, Noted, UNCHANGED <<today, cohorts, enrolments>>, FilesTyped',
           RequestsTyped' /\ \A t \in Sessions : Judged(req[t])',
           \A f \in DOMAIN files : /\ files'[f].status = files[f].status
                                   /\ files'[f].deadline = files[f].deadline
    PROVE  Inv'
<1>1. Held /\ \A c \in DOMAIN cohorts : Unmoved(c)
  BY DEF Held, Unmoved, Still
<1>2. Typed'
  BY DEF Inv, Typed, SeatsTyped
<1>3. ASSUME NEW e \in DOMAIN enrolments PROVE SeatStands(enrolments[e])'
  <2>1. PICK x : x = enrolments[e]
    OBVIOUS
  <2>2. SeatStands(x)'
    BY <1>1, <2>1, SeatsLast DEF Inv
  <2> QED
    BY <2>1, <2>2 DEF SeatStands
<1>4. ASSUME NEW c \in DOMAIN cohorts PROVE StatusStands(c)'
  BY <1>1, StatusLast DEF Inv
<1> QED
  BY <1>2, <1>3, <1>4 DEF Inv

LEMMA FileAppended ==
    ASSUME Typed, NEW c \in DOMAIN cohorts, AppendFile(c), UNCHANGED <<cohorts, enrolments>>
    PROVE  /\ FilesTyped' /\ Grown
           /\ \A f \in DOMAIN files : /\ files'[f].status = files[f].status
                                      /\ files'[f].deadline = files[f].deadline
<1> DEFINE new == [cohort |-> c, status |-> "DRAFT", documents |-> FALSE, deadline |-> 0]
<1>1. files \in Seq(File) /\ c \in Nat \ {0}
  BY RowsTyped DEF Typed, FilesTyped
<1>2. new \in File /\ new.cohort = c /\ new.status = "DRAFT" /\ new.deadline = 0
  BY <1>1 DEF File, FileStatuses
<1>3. files' = Append(files, new)
  BY DEF AppendFile
<1> HIDE DEF new
<1>4. /\ files' \in Seq(File) /\ DOMAIN files \subseteq DOMAIN files'
      /\ \A f \in DOMAIN files : files'[f] = files[f]
      /\ \A f \in DOMAIN files' \ DOMAIN files : files'[f] = new
  BY <1>1, <1>2, <1>3, AppendProperties, LenProperties
<1> QED
  BY <1>2, <1>4 DEF Typed, FilesTyped, Grown

LEMMA DraftKeeps ==
    ASSUME Inv, NEW s \in Sessions, WriteDraft(s)
    PROVE  Inv'
<1>1. /\ req[s].op = "draft" /\ AppendFile(req[s].cohort) /\ Committed(s, Idle)
      /\ UNCHANGED <<today, cohorts, enrolments>>
  BY DEF WriteDraft, Serving, Finish
<1>2. PICK c \in DOMAIN cohorts : c = req[s].cohort
  BY <1>1 DEF Inv, Typed, RequestsTyped, Fits
<1>3. /\ FilesTyped' /\ Grown
      /\ \A f \in DOMAIN files : /\ files'[f].status = files[f].status
                                 /\ files'[f].deadline = files[f].deadline
  BY <1>1, <1>2, FileAppended DEF Inv
<1>4. Held /\ \A d \in DOMAIN cohorts : Unmoved(d)
  BY <1>1, <1>3 DEF Held, Unmoved, Still
<1>5. RequestsTyped' /\ \A t \in Sessions : Judged(req[t])'
  BY <1>1, <1>3, <1>4, IdleFits, CommitKeeps DEF Still
<1>6. Noted
  BY <1>1, CommitTells DEF Inv, Typed, RequestsTyped
<1> QED
  BY <1>1, <1>3, <1>5, <1>6, FilesKeep

LEMMA ResubmitKeeps ==
    ASSUME Inv, NEW f \in DOMAIN files, Resubmit(f)
    PROVE  Inv'
<1>1. /\ AppendFile(files[f].cohort) /\ Quiet /\ UNCHANGED <<today, cohorts, enrolments>>
  BY DEF Resubmit
<1>2. PICK c \in DOMAIN cohorts : c = files[f].cohort
  BY DEF Inv, Typed, FilesTyped
<1>3. /\ FilesTyped' /\ Grown
      /\ \A g \in DOMAIN files : /\ files'[g].status = files[g].status
                                 /\ files'[g].deadline = files[g].deadline
  BY <1>1, <1>2, FileAppended DEF Inv
<1>4. Held /\ \A d \in DOMAIN cohorts : Unmoved(d)
  BY <1>1, <1>3 DEF Held, Unmoved, Still
<1>5. Noted /\ RequestsTyped' /\ \A t \in Sessions : Judged(req[t])'
  BY <1>1, <1>3, <1>4, QuietKeeps
<1> QED
  BY <1>1, <1>3, <1>5, FilesKeep

LEMMA AttachKeeps ==
    ASSUME Inv, NEW f \in DOMAIN files, Attach(f)
    PROVE  Inv'
<1> DEFINE new == [files[f] EXCEPT !.documents = TRUE]
<1>1. files' = [files EXCEPT ![f] = new] /\ Quiet /\ UNCHANGED <<today, cohorts, enrolments>>
  BY DEF Attach
<1>2. files[f] \in File
  BY RowsTyped DEF Inv
<1>3. /\ new \in File /\ new.cohort = files[f].cohort /\ new.status = files[f].status
      /\ new.deadline = files[f].deadline
  BY <1>2 DEF File
<1> HIDE DEF new
<1>4. /\ files' \in Seq(File) /\ DOMAIN files' = DOMAIN files
      /\ \A g \in DOMAIN files : /\ files'[g].status = files[g].status
                                 /\ files'[g].cohort = files[g].cohort
                                 /\ files'[g].deadline = files[g].deadline
  BY <1>1, <1>3, FileWritten DEF Inv, Typed, FilesTyped
<1>5. FilesTyped' /\ Grown
  BY <1>1, <1>4 DEF Inv, Typed, FilesTyped, Grown
<1>6. Held /\ \A d \in DOMAIN cohorts : Unmoved(d)
  BY <1>1, <1>4 DEF Held, Unmoved, Still
<1>7. Noted /\ RequestsTyped' /\ \A t \in Sessions : Judged(req[t])'
  BY <1>1, <1>5, <1>6, QuietKeeps
<1> QED
  BY <1>1, <1>4, <1>5, <1>7, FilesKeep

LEMMA OpenKeeps ==
    ASSUME Inv, OpenCohort
    PROVE  /\ Inv'
           /\ \A c \in DOMAIN cohorts : cohorts'[c] = cohorts[c]
<1> DEFINE new == "PLANNED"
<1>1. cohorts' = Append(cohorts, new) /\ Quiet /\ UNCHANGED <<today, files, enrolments>>
  BY DEF OpenCohort
<1>2. new \in CohortStatuses /\ cohorts \in Seq(CohortStatuses)
  BY DEF CohortStatuses, Inv, Typed
<1> HIDE DEF new
<1>3. /\ cohorts' \in Seq(CohortStatuses) /\ DOMAIN cohorts \subseteq DOMAIN cohorts'
      /\ \A c \in DOMAIN cohorts : cohorts'[c] = cohorts[c]
      /\ \A c \in DOMAIN cohorts' \ DOMAIN cohorts : cohorts'[c] = new
  BY <1>1, <1>2, AppendProperties, LenProperties
<1>4. Grown /\ Held /\ \A d \in DOMAIN cohorts : Unmoved(d)
  BY <1>1, <1>3 DEF Grown, Held, Unmoved, Still
<1>5. Noted /\ RequestsTyped' /\ \A t \in Sessions : Judged(req[t])'
  BY <1>1, <1>4, QuietKeeps
<1>6. Typed'
  BY <1>1, <1>3, <1>5 DEF Inv, Typed, FilesTyped, SeatsTyped
<1>7. ASSUME NEW c \in DOMAIN cohorts' PROVE StatusStands(c)'
  <2>1. CASE c \in DOMAIN cohorts
    BY <1>4, <1>5, <2>1, StatusLast DEF Inv
  <2>2. CASE c \notin DOMAIN cohorts
    <3>1. cohorts'[c] = "PLANNED"
      BY <1>3, <1>7, <2>2 DEF new
    <3> QED
      BY <3>1 DEF StatusStands, StatusBacked
  <2> QED
    BY <2>1, <2>2
<1>8. ASSUME NEW e \in DOMAIN enrolments PROVE SeatStands(enrolments[e])'
  <2>1. PICK x : x = enrolments[e]
    OBVIOUS
  <2>2. SeatStands(x)'
    BY <1>4, <1>5, <2>1, SeatsLast DEF Inv
  <2> QED
    BY <1>1, <2>1, <2>2 DEF SeatStands
<1> QED
  BY <1>1, <1>3, <1>5, <1>6, <1>7, <1>8 DEF Inv

-----------------------------------------------------------------------------
(* Seats. *)

(***************************************************************************)
(* Of a seat that is saved the cohort, the way it was opened and its name  *)
(* with the ministry stay, or the name has just arrived.                   *)
(***************************************************************************)
LEMMA SeatsKeep ==
    ASSUME Inv, Grown, Noted, UNCHANGED <<today, cohorts, files>>, SeatsTyped',
           RequestsTyped' /\ \A t \in Sessions : Judged(req[t])',
           \A e \in DOMAIN enrolments' : SeatStands(enrolments'[e])
    PROVE  Inv'
<1>1. Held /\ \A c \in DOMAIN cohorts : Unmoved(c)
  BY DEF Held, Unmoved, Still
<1>2. Typed'
  BY DEF Inv, Typed, FilesTyped
<1>3. ASSUME NEW c \in DOMAIN cohorts PROVE StatusStands(c)'
  BY <1>1, StatusLast DEF Inv
<1>4. ASSUME NEW e \in DOMAIN enrolments' PROVE SeatStands(enrolments[e])'
  <2>1. PICK x : x = enrolments'[e]
    OBVIOUS
  <2>2. SeatStands(x)'
    BY <1>1, <2>1, SeatsLast
  <2> QED
    BY <2>1, <2>2 DEF SeatStands
<1> QED
  BY <1>2, <1>3, <1>4 DEF Inv

LEMMA SeatSaved ==
    ASSUME Typed, UNCHANGED <<cohorts, files>>, NEW e \in DOMAIN enrolments, NEW new \in Enrollment,
           enrolments' = [enrolments EXCEPT ![e] = new],
           new.cohort = enrolments[e].cohort, new.opened = enrolments[e].opened,
           enrolments[e].approved => new.approved, new.uploaded # 0 => new.approved
    PROVE  /\ SeatsTyped' /\ Grown /\ DOMAIN enrolments' = DOMAIN enrolments
           /\ \A d \in DOMAIN enrolments : enrolments'[d] = IF d = e THEN new ELSE enrolments[d]
<1>1. /\ enrolments' \in Seq(Enrollment) /\ DOMAIN enrolments' = DOMAIN enrolments
      /\ \A d \in DOMAIN enrolments : enrolments'[d] = IF d = e THEN new ELSE enrolments[d]
  BY SeatWritten DEF Typed, SeatsTyped
<1>2. SeatsTyped'
  BY <1>1 DEF Typed, SeatsTyped
<1>3. Grown
  BY <1>1 DEF Grown
<1> QED
  BY <1>1, <1>2, <1>3

LEMMA SeatAdded ==
    ASSUME Typed, UNCHANGED <<cohorts, files>>, NEW base \in Seq(Enrollment), NEW new \in Enrollment,
           enrolments' = Append(base, new), new.uploaded = 0, new.cohort \in DOMAIN cohorts,
           DOMAIN base = DOMAIN enrolments,
           \A e \in DOMAIN enrolments : /\ base[e].cohort = enrolments[e].cohort
                                       /\ base[e].opened = enrolments[e].opened
                                       /\ base[e].uploaded = enrolments[e].uploaded
                                       /\ base[e].approved = enrolments[e].approved
    PROVE  /\ SeatsTyped' /\ Grown
           /\ DOMAIN enrolments' = DOMAIN enrolments \cup {Len(enrolments) + 1}
           /\ \A e \in DOMAIN enrolments : enrolments'[e] = base[e]
           /\ enrolments'[Len(enrolments) + 1] = new
<1>1. /\ enrolments' \in Seq(Enrollment) /\ DOMAIN enrolments' = DOMAIN base \cup {Len(base) + 1}
      /\ \A e \in DOMAIN base : enrolments'[e] = base[e]
      /\ enrolments'[Len(base) + 1] = new
  BY AppendProperties, LenProperties
<1>2. Len(base) = Len(enrolments)
  BY LenProperties DEF Typed, SeatsTyped
<1>3. SeatsTyped'
  BY <1>1, <1>2, SMTT(30) DEF Typed, SeatsTyped
<1>4. Grown
  BY <1>1, <1>2 DEF Grown
<1> QED
  BY <1>1, <1>2, <1>3, <1>4

(***************************************************************************)
(* A request goes on to its next transaction, after one that moves none of *)
(* the rows the others were judged by.                                     *)
(***************************************************************************)
LEMMA AdvanceKeeps ==
    ASSUME Inv, NEW s \in Sessions, NEW q \in Request, Fits(q)', Judged(q)',
           req' = [req EXCEPT ![s] = q], UNCHANGED <<rewritten, redecided>>,
           Grown, Held, \A c \in DOMAIN cohorts : Unmoved(c)
    PROVE  Noted /\ RequestsTyped' /\ \A t \in Sessions : Judged(req[t])'
<1>1. req \in [Sessions -> Request]
  BY DEF Inv, Typed, RequestsTyped
<1>2. \A t \in Sessions : req'[t] = IF t = s THEN q ELSE req[t]
  BY <1>1
<1>3. Marked' /\ Noted
  BY MarkedLasts DEF Inv, Typed, RequestsTyped
<1>4. ASSUME NEW t \in Sessions PROVE Fits(req[t])' /\ Judged(req[t])'
  <2>1. PICK r : r = req'[t]
    OBVIOUS
  <2>2. Fits(r)' /\ Judged(r)'
    <3>1. CASE t = s
      BY <1>2, <2>1, <3>1
         DEF Fits, Judged, StatusJudged, FileJudged, SeatJudged, Startable, Cancellable, Decidable
    <3>2. CASE t # s
      BY <1>2, <1>3, <2>1, <3>2, QuietJudged DEF Inv, Typed, RequestsTyped
    <3> QED
      BY <3>1, <3>2
  <2> QED
    BY <2>1, <2>2
       DEF Fits, Judged, StatusJudged, FileJudged, SeatJudged, Startable, Cancellable, Decidable
<1>5. req' \in [Sessions -> Request]
  BY <1>1
<1> QED
  BY <1>3, <1>4, <1>5 DEF RequestsTyped

LEMMA SeatIs ==
    ASSUME NEW p \in Participants, NEW c \in Nat \ {0}, NEW status \in Statuses,
           NEW opened \in {"enrolment", "deferral"}
    PROVE  /\ Seat(p, c, status, opened) \in Enrollment /\ Seat(p, c, status, opened).cohort = c
           /\ Seat(p, c, status, opened).opened = opened /\ Seat(p, c, status, opened).uploaded = 0
<1> DEFINE none == {}
           no == FALSE
<1>1. Seat(p, c, status, opened) = [participant |-> p, cohort |-> c, status |-> status,
                                    approved |-> no, uploaded |-> 0, override |-> no,
                                    lines |-> none, opened |-> opened]
  BY DEF Seat
<1>2. none \in SUBSET Lines /\ no \in BOOLEAN
  OBVIOUS
<1> HIDE DEF none, no
<1> QED
  BY <1>1, <1>2 DEF Enrollment

(***************************************************************************)
(* The gate was open when the request was read, and no commit shuts it.    *)
(***************************************************************************)
LEMMA EnrolKeeps ==
    ASSUME Inv, NEW s \in Sessions, WriteEnrol(s)
    PROVE  Inv'
<1> DEFINE new == Seat(req[s].participant, req[s].cohort, "PENDING_FINANCE", "enrolment")
           n == Len(enrolments) + 1
           nextreq == [req[s] EXCEPT !.on = n]
<1>1. /\ req[s].op = "enrol" /\ enrolments' = Append(enrolments, new) /\ Committed(s, nextreq)
      /\ UNCHANGED <<today, cohorts, files>>
  BY DEF WriteEnrol, Serving
<1>2. /\ req[s] \in Request /\ Fits(req[s]) /\ ~req[s].overtaken /\ ~req[s].crossed
      /\ req[s].cohort \in DOMAIN cohorts /\ Typed
  BY <1>1 DEF Inv, Typed, RequestsTyped, Fits, StatusOps, FileOps
<1>3. Noted /\ (Firm(req[s].cohort) => CohortIsApproved(req[s].cohort))
  BY <1>1, CommitTells DEF Inv, Typed, RequestsTyped, Judged, SeatJudged
<1>4. new \in Enrollment /\ new.cohort = req[s].cohort /\ new.opened = "enrolment" /\ new.uploaded = 0
  <2>1. req[s].participant \in Participants /\ req[s].cohort \in Nat \ {0}
    BY <1>2, RowsTyped DEF Request
  <2> QED
    BY <2>1, SeatIs DEF Statuses
<1> HIDE DEF new
<1>5. /\ SeatsTyped' /\ Grown
      /\ DOMAIN enrolments' = DOMAIN enrolments \cup {n}
      /\ \A e \in DOMAIN enrolments : enrolments'[e] = enrolments[e]
      /\ enrolments'[n] = new
  BY <1>1, <1>2, <1>4, SeatAdded DEF Typed, SeatsTyped
<1>6. \A e \in DOMAIN enrolments' : SeatStands(enrolments'[e])
  <2>1. SeatStands(new)
    BY <1>3, <1>4 DEF SeatStands
  <2> QED
    BY <1>5, <2>1 DEF Inv
<1>7. Held /\ \A d \in DOMAIN cohorts : Unmoved(d)
  BY <1>1 DEF Held, Unmoved, Still
<1>8. /\ nextreq \in Request /\ nextreq.op = "enrol" /\ nextreq.cohort = req[s].cohort /\ nextreq.on = n
      /\ ~nextreq.overtaken /\ ~nextreq.crossed
  <2>1. n \in Nat
    BY <1>2, RowsTyped
  <2> HIDE DEF n
  <2>2. nextreq \in Request /\ nextreq.op = "enrol" /\ nextreq.cohort = req[s].cohort /\ nextreq.on = n
    BY <1>1, <1>2, <2>1 DEF Request
  <2>3. nextreq.overtaken = req[s].overtaken /\ nextreq.crossed = req[s].crossed
    BY <1>2 DEF Request
  <2> QED
    BY <1>2, <2>2, <2>3
<1>9. PICK q \in Request : q = nextreq
  BY <1>8
<1> HIDE DEF n, nextreq
<1>10. Fits(q)'
  BY <1>1, <1>2, <1>5, <1>8, <1>9 DEF Fits, FileOps
<1>11. Judged(q)'
  <2>1. Firm(q.cohort)' => CohortIsApproved(q.cohort)'
    BY <1>3, <1>5, <1>7, <1>8, <1>9, FirmLast, ApprovalsLast
  <2> QED
    BY <1>8, <1>9, <2>1 DEF Judged, StatusJudged, FileJudged, SeatJudged
<1>12. RequestsTyped' /\ \A t \in Sessions : Judged(req[t])'
  BY <1>1, <1>5, <1>7, <1>9, <1>10, <1>11, CommitKeeps DEF Still
<1> QED
  BY <1>1, <1>3, <1>5, <1>6, <1>12, SeatsKeep

(***************************************************************************)
(* A charge line is raised on a seat.                                      *)
(***************************************************************************)
LEMMA LineSaved ==
    ASSUME Typed, NEW e \in DOMAIN enrolments, NEW line \in Lines, UNCHANGED <<cohorts, files>>,
           enrolments' = [enrolments EXCEPT ![e].lines = @ \cup {line}]
    PROVE  /\ SeatsTyped' /\ Grown /\ DOMAIN enrolments' = DOMAIN enrolments
           /\ \A d \in DOMAIN enrolments : SeatStands(enrolments[d]) => SeatStands(enrolments'[d])
<1> DEFINE raised == enrolments[e].lines \cup {line}
           new == [enrolments[e] EXCEPT !.lines = raised]
<1>1. enrolments[e] \in Enrollment
  BY RowsTyped
<1>2. raised \in SUBSET Lines
  BY <1>1 DEF Enrollment
<1>3. enrolments' = [enrolments EXCEPT ![e] = new]
  OBVIOUS
<1> HIDE DEF raised
<1>4. /\ new \in Enrollment /\ new.cohort = enrolments[e].cohort /\ new.opened = enrolments[e].opened
      /\ new.uploaded = enrolments[e].uploaded
  BY <1>1, <1>2 DEF Enrollment
<1>5. new.approved = enrolments[e].approved /\ new.override = enrolments[e].override
  BY <1>1 DEF Enrollment
<1> HIDE DEF new
<1>6. enrolments[e].uploaded # 0 => enrolments[e].approved
  BY DEF Typed, SeatsTyped
<1>7. /\ SeatsTyped' /\ Grown /\ DOMAIN enrolments' = DOMAIN enrolments
      /\ \A d \in DOMAIN enrolments : enrolments'[d] = IF d = e THEN new ELSE enrolments[d]
  BY <1>3, <1>4, <1>5, <1>6, SeatSaved
<1>8. SeatStands(enrolments[e]) => SeatStands(new)
  BY <1>4, <1>5 DEF SeatStands
<1> QED
  BY <1>7, <1>8

LEMMA RegistrationKeeps ==
    ASSUME Inv, NEW s \in Sessions, RaiseRegistration(s)
    PROVE  Inv'
<1>1. /\ req[s].op = "enrol" /\ req[s].on # 0
      /\ enrolments' = [enrolments EXCEPT ![req[s].on].lines = @ \cup {"REGISTRATION"}]
      /\ req' = [req EXCEPT ![s].saved = 1] /\ UNCHANGED <<today, cohorts, files, rewritten, redecided>>
  BY DEF RaiseRegistration, Serving
<1>2. /\ req[s] \in Request /\ Fits(req[s]) /\ Typed /\ ~req[s].overtaken /\ ~req[s].crossed
      /\ Firm(req[s].cohort) => CohortIsApproved(req[s].cohort)
  BY <1>1 DEF Inv, Typed, RequestsTyped, Fits, StatusOps, FileOps, Judged, SeatJudged
<1>3. PICK e \in DOMAIN enrolments : e = req[s].on
  BY <1>1, <1>2 DEF Fits
<1>4. /\ SeatsTyped' /\ Grown /\ DOMAIN enrolments' = DOMAIN enrolments
      /\ \A d \in DOMAIN enrolments : SeatStands(enrolments[d]) => SeatStands(enrolments'[d])
  BY <1>1, <1>2, <1>3, LineSaved DEF Lines
<1>5. Held /\ \A d \in DOMAIN cohorts : Unmoved(d)
  BY <1>1 DEF Held, Unmoved, Still
<1> DEFINE advanced == [req[s] EXCEPT !.saved = 1]
<1>6. /\ advanced \in Request /\ advanced.op = "enrol" /\ advanced.cohort = req[s].cohort
      /\ advanced.on = e
  BY <1>1, <1>2, <1>3 DEF Request
<1>7. advanced.overtaken = req[s].overtaken /\ advanced.crossed = req[s].crossed
  BY <1>2 DEF Request
<1>8. req' = [req EXCEPT ![s] = advanced]
  BY <1>1
<1>9. PICK q \in Request : q = advanced
  BY <1>6
<1> HIDE DEF advanced
<1>10. Fits(q)'
  BY <1>1, <1>2, <1>4, <1>6, <1>7, <1>9 DEF Fits, FileOps
<1>11. Judged(q)'
  <2>1. Firm(q.cohort)' => CohortIsApproved(q.cohort)'
    BY <1>1, <1>2, <1>6, <1>9 DEF Firm, CohortIsApproved, ApprovedFiles, FilesOf
  <2> QED
    BY <1>6, <1>9, <2>1 DEF Judged, StatusJudged, FileJudged, SeatJudged
<1>12. Noted /\ RequestsTyped' /\ \A t \in Sessions : Judged(req[t])'
  BY <1>1, <1>4, <1>5, <1>8, <1>9, <1>10, <1>11, AdvanceKeeps
<1>13. \A d \in DOMAIN enrolments' : SeatStands(enrolments'[d])
  BY <1>4 DEF Inv
<1> QED
  BY <1>1, <1>4, <1>12, <1>13, SeatsKeep

LEMMA TuitionKeeps ==
    ASSUME Inv, NEW s \in Sessions, RaiseTuition(s)
    PROVE  Inv'
<1>1. /\ req[s].op = "enrol" /\ req[s].saved = 1 /\ Committed(s, Idle)
      /\ enrolments' = [enrolments EXCEPT ![req[s].on].lines = @ \cup {"TUITION"}]
      /\ UNCHANGED <<today, cohorts, files>>
  BY DEF RaiseTuition, Serving, Finish
<1>2. Fits(req[s]) /\ Typed
  BY DEF Inv, Typed, RequestsTyped
<1>3. PICK e \in DOMAIN enrolments : e = req[s].on
  BY <1>1, <1>2 DEF Fits
<1>4. /\ SeatsTyped' /\ Grown /\ DOMAIN enrolments' = DOMAIN enrolments
      /\ \A d \in DOMAIN enrolments : SeatStands(enrolments[d]) => SeatStands(enrolments'[d])
  BY <1>1, <1>2, <1>3, LineSaved DEF Lines
<1>5. Held /\ \A d \in DOMAIN cohorts : Unmoved(d)
  BY <1>1 DEF Held, Unmoved, Still
<1>6. RequestsTyped' /\ \A t \in Sessions : Judged(req[t])'
  BY <1>1, <1>4, <1>5, IdleFits, CommitKeeps DEF Still
<1>7. Noted
  BY <1>1, CommitTells DEF Inv, Typed, RequestsTyped
<1>8. \A d \in DOMAIN enrolments' : SeatStands(enrolments'[d])
  BY <1>4 DEF Inv
<1> QED
  BY <1>1, <1>4, <1>6, <1>7, <1>8, SeatsKeep

(***************************************************************************)
(* A seat changes its status, and perhaps its approval and its lines.      *)
(***************************************************************************)
LEMMA QuietSeatKeeps ==
    ASSUME Inv, NEW e \in DOMAIN enrolments, NEW new \in Enrollment, Quiet,
           UNCHANGED <<today, cohorts, files>>, enrolments' = [enrolments EXCEPT ![e] = new],
           new.cohort = enrolments[e].cohort, new.opened = enrolments[e].opened,
           new.uploaded = enrolments[e].uploaded, new.override = enrolments[e].override,
           enrolments[e].approved => new.approved
    PROVE  Inv'
<1>1. enrolments[e].uploaded # 0 => enrolments[e].approved
  BY DEF Inv, Typed, SeatsTyped
<1>2. /\ SeatsTyped' /\ Grown /\ DOMAIN enrolments' = DOMAIN enrolments
      /\ \A d \in DOMAIN enrolments : enrolments'[d] = IF d = e THEN new ELSE enrolments[d]
  BY <1>1, SeatSaved DEF Inv
<1>3. Held /\ \A d \in DOMAIN cohorts : Unmoved(d)
  BY DEF Held, Unmoved, Still
<1>4. Noted /\ RequestsTyped' /\ \A t \in Sessions : Judged(req[t])'
  BY <1>2, <1>3, QuietKeeps
<1>5. SeatStands(enrolments[e]) => SeatStands(new)
  BY DEF SeatStands
<1>6. \A d \in DOMAIN enrolments' : SeatStands(enrolments'[d])
  BY <1>2, <1>5 DEF Inv
<1> QED
  BY <1>2, <1>4, <1>6, SeatsKeep

LEMMA MoveKeeps ==
    ASSUME Inv, NEW e \in DOMAIN enrolments, NEW status \in Statuses, Move(e, status)
    PROVE  Inv'
<1> DEFINE new == [enrolments[e] EXCEPT !.status = status]
<1>1. enrolments' = [enrolments EXCEPT ![e] = new] /\ Quiet /\ UNCHANGED <<today, cohorts, files>>
  BY DEF Move
<1>2. enrolments[e] \in Enrollment
  BY RowsTyped DEF Inv
<1>3. /\ new \in Enrollment /\ new.cohort = enrolments[e].cohort /\ new.opened = enrolments[e].opened
      /\ new.uploaded = enrolments[e].uploaded
  BY <1>2 DEF Enrollment
<1>4. new.approved = enrolments[e].approved /\ new.override = enrolments[e].override
  BY <1>2 DEF Enrollment
<1> HIDE DEF new
<1> QED
  BY <1>1, <1>3, <1>4, QuietSeatKeeps

LEMMA ApproveKeeps ==
    ASSUME Inv, NEW e \in DOMAIN enrolments, ApproveEnrolment(e)
    PROVE  Inv'
<1> DEFINE moved == [enrolments[e] EXCEPT !.status = "ACTIVE"]
           yes == TRUE
           new == [moved EXCEPT !.approved = yes]
<1>1. enrolments' = [enrolments EXCEPT ![e] = new] /\ Quiet /\ UNCHANGED <<today, cohorts, files>>
  BY DEF ApproveEnrolment
<1>2. enrolments[e] \in Enrollment
  BY RowsTyped DEF Inv
<1>3. /\ moved \in Enrollment /\ moved.cohort = enrolments[e].cohort
      /\ moved.opened = enrolments[e].opened
      /\ moved.uploaded = enrolments[e].uploaded
  BY <1>2 DEF Enrollment, Statuses
<1>4. yes \in BOOLEAN /\ yes /\ moved.override = enrolments[e].override
  BY <1>2 DEF Enrollment
<1> HIDE DEF moved, yes
<1>5. /\ new \in Enrollment /\ new.cohort = enrolments[e].cohort /\ new.opened = enrolments[e].opened
      /\ new.uploaded = enrolments[e].uploaded
  BY <1>3, <1>4 DEF Enrollment
<1>6. new.approved = yes /\ new.override = moved.override
  BY <1>3 DEF Enrollment
<1> HIDE DEF new
<1> QED
  BY <1>1, <1>4, <1>5, <1>6, QuietSeatKeeps

(***************************************************************************)
(* A seat that is closed loses its lines and keeps the rest.               *)
(***************************************************************************)
LEMMA Closed ==
    ASSUME NEW old \in Enrollment, NEW status \in Statuses
    PROVE  LET new == [old EXCEPT !.status = status, !.lines = {}]
           IN  /\ new \in Enrollment /\ new.cohort = old.cohort /\ new.opened = old.opened
               /\ new.uploaded = old.uploaded /\ new.approved = old.approved
               /\ new.override = old.override
<1> DEFINE moved == [old EXCEPT !.status = status]
           none == {}
           new == [moved EXCEPT !.lines = none]
<1>1. /\ moved \in Enrollment /\ moved.cohort = old.cohort /\ moved.opened = old.opened
      /\ moved.uploaded = old.uploaded
  BY DEF Enrollment
<1>2. moved.approved = old.approved /\ moved.override = old.override
  BY DEF Enrollment
<1>3. none \in SUBSET Lines
  OBVIOUS
<1> HIDE DEF moved, none
<1>4. /\ new \in Enrollment /\ new.cohort = old.cohort /\ new.opened = old.opened
      /\ new.uploaded = old.uploaded
  BY <1>1, <1>3 DEF Enrollment
<1>5. new.approved = old.approved /\ new.override = old.override
  BY <1>1, <1>2 DEF Enrollment
<1>6. new = [old EXCEPT !.status = status, !.lines = {}]
  BY DEF moved, none
<1> QED
  BY <1>4, <1>5, <1>6

LEMMA CancelKeeps ==
    ASSUME Inv, NEW e \in DOMAIN enrolments, CancelRegistration(e)
    PROVE  Inv'
<1> DEFINE new == [enrolments[e] EXCEPT !.status = "CANCELLED", !.lines = {}]
<1>1. enrolments' = [enrolments EXCEPT ![e] = new] /\ Quiet /\ UNCHANGED <<today, cohorts, files>>
  BY DEF CancelRegistration
<1>2. enrolments[e] \in Enrollment /\ "CANCELLED" \in Statuses
  BY RowsTyped DEF Inv, Statuses
<1>3. /\ new \in Enrollment /\ new.cohort = enrolments[e].cohort /\ new.opened = enrolments[e].opened
      /\ new.uploaded = enrolments[e].uploaded /\ new.approved = enrolments[e].approved
      /\ new.override = enrolments[e].override
  BY <1>2, Closed
<1> HIDE DEF new
<1> QED
  BY <1>1, <1>3, QuietSeatKeeps

(***************************************************************************)
(* A seat is added beside the others, of which one may be closed.          *)
(***************************************************************************)
LEMMA AddedSeatKeeps ==
    ASSUME Inv, NEW base \in Seq(Enrollment), NEW new \in Enrollment, Quiet,
           UNCHANGED <<today, cohorts, files>>,
           enrolments' = Append(base, new), new.uploaded = 0, new.cohort \in DOMAIN cohorts,
           SeatStands(new),
           DOMAIN base = DOMAIN enrolments,
           \A e \in DOMAIN enrolments : /\ base[e].cohort = enrolments[e].cohort
                                       /\ base[e].opened = enrolments[e].opened
                                       /\ base[e].uploaded = enrolments[e].uploaded
                                       /\ base[e].override = enrolments[e].override
                                       /\ base[e].approved = enrolments[e].approved
    PROVE  Inv'
<1>1. /\ SeatsTyped' /\ Grown
      /\ DOMAIN enrolments' = DOMAIN enrolments \cup {Len(enrolments) + 1}
      /\ \A e \in DOMAIN enrolments : enrolments'[e] = base[e]
      /\ enrolments'[Len(enrolments) + 1] = new
  BY SeatAdded DEF Inv
<1>2. Held /\ \A d \in DOMAIN cohorts : Unmoved(d)
  BY DEF Held, Unmoved, Still
<1>3. Noted /\ RequestsTyped' /\ \A t \in Sessions : Judged(req[t])'
  BY <1>1, <1>2, QuietKeeps
<1>4. ASSUME NEW e \in DOMAIN enrolments PROVE SeatStands(enrolments'[e])
  <2>1. SeatStands(enrolments[e])
    BY DEF Inv
  <2> QED
    BY <1>1, <2>1 DEF SeatStands
<1>5. \A e \in DOMAIN enrolments' : SeatStands(enrolments'[e])
  BY <1>1, <1>4
<1> QED
  BY <1>1, <1>3, <1>5, SeatsKeep

LEMMA DeferKeeps ==
    ASSUME Inv, NEW e \in DOMAIN enrolments, NEW c \in DOMAIN cohorts, Defer(e, c)
    PROVE  Inv'
<1> DEFINE old == enrolments[e]
           closed == [old EXCEPT !.status = "DEFERRED", !.lines = {}]
           base == [enrolments EXCEPT ![e] = closed]
           new == Seat(old.participant, c, "PENDING_APPROVAL", "deferral")
<1>1. enrolments' = Append(base, new) /\ Quiet /\ UNCHANGED <<today, cohorts, files>>
  BY DEF Defer
<1>2. /\ old \in Enrollment /\ "DEFERRED" \in Statuses /\ c \in Nat \ {0}
      /\ enrolments \in Seq(Enrollment)
  BY RowsTyped DEF Inv, Typed, SeatsTyped, Statuses
<1>3. /\ closed \in Enrollment /\ closed.cohort = old.cohort /\ closed.opened = old.opened
      /\ closed.uploaded = old.uploaded /\ closed.approved = old.approved
      /\ closed.override = old.override
  BY <1>2, Closed
<1>4. new \in Enrollment /\ new.opened = "deferral" /\ new.uploaded = 0 /\ new.cohort = c
  <2>1. old.participant \in Participants /\ "PENDING_APPROVAL" \in Statuses
    BY <1>2 DEF Enrollment, Statuses
  <2> HIDE DEF old
  <2> QED
    BY <1>2, <2>1, SeatIs
<1>5. SeatStands(new)
  BY <1>4 DEF SeatStands
<1> HIDE DEF closed, new, old
<1>6. /\ base \in Seq(Enrollment) /\ DOMAIN base = DOMAIN enrolments
      /\ \A d \in DOMAIN enrolments : base[d] = IF d = e THEN closed ELSE enrolments[d]
  BY <1>2, <1>3, ExceptSeq, LenProperties
<1>7. \A d \in DOMAIN enrolments : /\ base[d].cohort = enrolments[d].cohort
                                  /\ base[d].opened = enrolments[d].opened
                                  /\ base[d].uploaded = enrolments[d].uploaded
                                  /\ base[d].override = enrolments[d].override
                                  /\ base[d].approved = enrolments[d].approved
  BY <1>3, <1>6 DEF old
<1> HIDE DEF base
<1> QED
  BY <1>1, <1>4, <1>5, <1>6, <1>7, AddedSeatKeeps

(***************************************************************************)
(* A substitute sits where the one who withdrew sat.                       *)
(***************************************************************************)
LEMMA SubstituteKeeps ==
    ASSUME Inv, NEW e \in DOMAIN enrolments, NEW p \in Participants, Substitute(e, p)
    PROVE  Inv'
<1> DEFINE old == enrolments[e]
           new == Seat(p, old.cohort, "PENDING_FINANCE", old.opened)
<1>1. enrolments' = Append(enrolments, new) /\ Quiet /\ UNCHANGED <<today, cohorts, files>>
  BY DEF Substitute
<1>2. old \in Enrollment /\ enrolments \in Seq(Enrollment)
  BY RowsTyped DEF Inv, Typed, SeatsTyped
<1>3. /\ new \in Enrollment /\ new.opened = old.opened /\ new.cohort = old.cohort
      /\ new.uploaded = 0
  <2>1. old.cohort \in Nat \ {0} /\ old.opened \in {"enrolment", "deferral"} /\ "PENDING_FINANCE" \in Statuses
    BY <1>2 DEF Enrollment, Statuses
  <2> QED
    BY <2>1, SeatIs
<1>4. SeatStands(old) /\ old.cohort \in DOMAIN cohorts
  BY DEF Inv, Typed, SeatsTyped
<1> HIDE DEF new, old
<1>5. SeatStands(new)
  BY <1>3, <1>4 DEF SeatStands
<1>6. new.cohort \in DOMAIN cohorts
  BY <1>3, <1>4
<1>7. PICK base : base = enrolments
  OBVIOUS
<1>8. /\ base \in Seq(Enrollment) /\ DOMAIN base = DOMAIN enrolments
      /\ \A d \in DOMAIN enrolments : /\ base[d].cohort = enrolments[d].cohort
                                      /\ base[d].opened = enrolments[d].opened
                                      /\ base[d].uploaded = enrolments[d].uploaded
                                      /\ base[d].override = enrolments[d].override
                                      /\ base[d].approved = enrolments[d].approved
  BY <1>2, <1>7
<1>9. enrolments' = Append(base, new) /\ Quiet /\ UNCHANGED <<today, cohorts, files>>
  BY <1>1, <1>7
<1> QED
  BY <1>3, <1>5, <1>6, <1>8, <1>9, AddedSeatKeeps

(***************************************************************************)
(* A name arrives as of the day its request was read, and the approval it  *)
(* was in time for is still there.                                         *)
(***************************************************************************)
LEMMA UploadKeeps ==
    ASSUME Inv, NEW s \in Sessions, WriteUpload(s)
    PROVE  Inv'
<1>1. /\ req[s].op = "upload" /\ Committed(s, Idle) /\ UNCHANGED <<today, cohorts, files>>
      /\ enrolments' = [enrolments EXCEPT ![req[s].on].uploaded = req[s].value,
                                          ![req[s].on].override = req[s].override]
  BY DEF WriteUpload, Serving, Finish
<1>2. /\ Typed /\ req[s].value \in Days /\ Fits(req[s]) /\ Judged(req[s])
      /\ req[s].override \in BOOLEAN
  BY <1>1 DEF Inv, Typed, RequestsTyped, Fits, Request
<1>3. PICK e \in DOMAIN enrolments :
         e = req[s].on /\ enrolments[e].approved /\ enrolments[e].cohort = req[s].cohort
  BY <1>1, <1>2 DEF Fits
<1>4. PICK day \in Days, override \in BOOLEAN : day = req[s].value /\ override = req[s].override
  BY <1>2
<1> DEFINE dated == [enrolments[e] EXCEPT !.uploaded = day]
           new == [dated EXCEPT !.override = override]
<1>5. enrolments' = [enrolments EXCEPT ![e] = new]
  BY <1>1, <1>3, <1>4
<1>6. /\ new \in Enrollment /\ new.cohort = enrolments[e].cohort /\ new.opened = enrolments[e].opened
      /\ new.uploaded = day /\ new.approved = enrolments[e].approved /\ new.override = override
  <2>1. enrolments[e] \in Enrollment
    BY <1>2, RowsTyped
  <2>2. /\ dated \in Enrollment /\ dated.cohort = enrolments[e].cohort
        /\ dated.opened = enrolments[e].opened /\ dated.uploaded = day
    BY <2>1 DEF Enrollment
  <2>3. dated.approved = enrolments[e].approved
    BY <2>1 DEF Enrollment
  <2> HIDE DEF dated
  <2>4. /\ new \in Enrollment /\ new.cohort = dated.cohort /\ new.opened = dated.opened
        /\ new.uploaded = day
    BY <2>2 DEF Enrollment
  <2>5. new.approved = dated.approved /\ new.override = override
    BY <2>2 DEF Enrollment
  <2> QED
    BY <2>2, <2>3, <2>4, <2>5
<1> HIDE DEF new
<1>7. /\ SeatsTyped' /\ Grown /\ DOMAIN enrolments' = DOMAIN enrolments
      /\ \A d \in DOMAIN enrolments : enrolments'[d] = IF d = e THEN new ELSE enrolments[d]
  BY <1>1, <1>2, <1>3, <1>5, <1>6, SeatSaved
<1>8. Held /\ \A d \in DOMAIN cohorts : Unmoved(d)
  BY <1>1 DEF Held, Unmoved, Still
<1>9. RequestsTyped' /\ \A t \in Sessions : Judged(req[t])'
  BY <1>1, <1>7, <1>8, IdleFits, CommitKeeps DEF Still
<1>10. Noted
  BY <1>1, CommitTells DEF Inv, Typed, RequestsTyped
<1>11. SeatStands(new)
  <2> SUFFICES ASSUME Firm(new.cohort), new.opened # "deferral" PROVE SeatStands(new)
    BY DEF SeatStands
  <2>1. override \/ OnTime(new.cohort, day)
    BY <1>1, <1>2, <1>3, <1>4, <1>6 DEF Judged, SeatJudged
  <2>2. CohortIsApproved(new.cohort)
    BY <1>3, <1>6 DEF Inv, SeatStands
  <2> QED
    BY <1>6, <2>1, <2>2 DEF SeatStands
<1>12. \A d \in DOMAIN enrolments' : SeatStands(enrolments'[d])
  BY <1>7, <1>11 DEF Inv
<1> QED
  BY <1>1, <1>7, <1>9, <1>10, <1>12, SeatsKeep

-----------------------------------------------------------------------------
(* What is read is judged as it stands. *)

(***************************************************************************)
(* Nothing has happened to a request that is just beginning.               *)
(***************************************************************************)
Untouched(q) == ~q.overtaken /\ ~q.crossed

LEMMA AboutIs ==
    ASSUME NEW op \in Ops, NEW c \in Nat
    PROVE  /\ About(op, c) \in Request /\ About(op, c).op = op /\ About(op, c).cohort = c
           /\ About(op, c).on = 0 /\ About(op, c).value = 0 /\ About(op, c).saved = 0
           /\ Untouched(About(op, c))
<1> DEFINE idle == Idle
           asking == [idle EXCEPT !.op = op]
           about == [asking EXCEPT !.cohort = c]
<1>1. About(op, c) = about
  BY DEF About
<1>2. idle \in Request /\ idle.on = 0 /\ idle.value = 0 /\ idle.saved = 0 /\ Untouched(idle)
  BY IdleFits DEF Untouched
<1> HIDE DEF idle
<1>3. asking \in Request /\ asking.op = op /\ asking.on = 0 /\ asking.value = 0 /\ asking.saved = 0
  BY <1>2 DEF Request
<1>4. asking.overtaken = idle.overtaken /\ asking.crossed = idle.crossed
  BY <1>2 DEF Request
<1> HIDE DEF asking
<1>5. /\ about \in Request /\ about.op = op /\ about.cohort = c /\ about.on = 0 /\ about.value = 0
      /\ about.saved = 0
  BY <1>3 DEF Request
<1>6. about.overtaken = asking.overtaken /\ about.crossed = asking.crossed
  BY <1>3 DEF Request
<1> HIDE DEF about
<1> QED
  BY <1>1, <1>2, <1>4, <1>5, <1>6 DEF Untouched

(***************************************************************************)
(* One more column of a request.                                           *)
(***************************************************************************)
LEMMA AlsoIs ==
    ASSUME NEW q \in Request, Untouched(q)
    PROVE  /\ \A status \in CohortStatuses :
                 LET r == [q EXCEPT !.status = status]
                 IN  /\ r \in Request /\ r.op = q.op /\ r.on = q.on /\ r.cohort = q.cohort
                     /\ r.status = status /\ r.value = q.value /\ r.saved = q.saved /\ Untouched(r)
           /\ \A on \in Nat :
                 LET r == [q EXCEPT !.on = on]
                 IN  /\ r \in Request /\ r.op = q.op /\ r.on = on /\ r.cohort = q.cohort
                     /\ r.value = q.value /\ r.saved = q.saved /\ Untouched(r)
           /\ \A value \in Nat :
                 LET r == [q EXCEPT !.value = value]
                 IN  /\ r \in Request /\ r.op = q.op /\ r.on = q.on /\ r.cohort = q.cohort
                     /\ r.value = value /\ r.saved = q.saved /\ Untouched(r)
           /\ \A p \in Participants :
                 LET r == [q EXCEPT !.participant = p]
                 IN  /\ r \in Request /\ r.op = q.op /\ r.on = q.on /\ r.cohort = q.cohort
                     /\ r.value = q.value /\ r.saved = q.saved /\ Untouched(r)
           /\ \A override \in BOOLEAN :
                 LET r == [q EXCEPT !.override = override]
                 IN  /\ r \in Request /\ r.op = q.op /\ r.on = q.on /\ r.cohort = q.cohort
                     /\ r.value = q.value /\ r.override = override /\ Untouched(r)
<1>1. ASSUME NEW status \in CohortStatuses
      PROVE  LET r == [q EXCEPT !.status = status]
             IN  /\ r \in Request /\ r.op = q.op /\ r.on = q.on /\ r.cohort = q.cohort
                 /\ r.status = status /\ r.value = q.value /\ r.saved = q.saved /\ Untouched(r)
  <2> DEFINE r == [q EXCEPT !.status = status]
  <2>1. /\ r \in Request /\ r.op = q.op /\ r.on = q.on /\ r.cohort = q.cohort
        /\ r.status = status /\ r.value = q.value /\ r.saved = q.saved
    BY DEF Request
  <2>2. r.overtaken = q.overtaken /\ r.crossed = q.crossed
    BY DEF Request
  <2> QED
    BY <2>1, <2>2 DEF Untouched
<1>2. ASSUME NEW on \in Nat
      PROVE  LET r == [q EXCEPT !.on = on]
             IN  /\ r \in Request /\ r.op = q.op /\ r.on = on /\ r.cohort = q.cohort
                 /\ r.value = q.value /\ r.saved = q.saved /\ Untouched(r)
  <2> DEFINE r == [q EXCEPT !.on = on]
  <2>1. /\ r \in Request /\ r.op = q.op /\ r.on = on /\ r.cohort = q.cohort
        /\ r.value = q.value /\ r.saved = q.saved
    BY DEF Request
  <2>2. r.overtaken = q.overtaken /\ r.crossed = q.crossed
    BY DEF Request
  <2> QED
    BY <2>1, <2>2 DEF Untouched
<1>3. ASSUME NEW value \in Nat
      PROVE  LET r == [q EXCEPT !.value = value]
             IN  /\ r \in Request /\ r.op = q.op /\ r.on = q.on /\ r.cohort = q.cohort
                 /\ r.value = value /\ r.saved = q.saved /\ Untouched(r)
  <2> DEFINE r == [q EXCEPT !.value = value]
  <2>1. /\ r \in Request /\ r.op = q.op /\ r.on = q.on /\ r.cohort = q.cohort
        /\ r.value = value /\ r.saved = q.saved
    BY DEF Request
  <2>2. r.overtaken = q.overtaken /\ r.crossed = q.crossed
    BY DEF Request
  <2> QED
    BY <2>1, <2>2 DEF Untouched
<1>4. ASSUME NEW p \in Participants
      PROVE  LET r == [q EXCEPT !.participant = p]
             IN  /\ r \in Request /\ r.op = q.op /\ r.on = q.on /\ r.cohort = q.cohort
                 /\ r.value = q.value /\ r.saved = q.saved /\ Untouched(r)
  <2> DEFINE r == [q EXCEPT !.participant = p]
  <2>1. /\ r \in Request /\ r.op = q.op /\ r.on = q.on /\ r.cohort = q.cohort
        /\ r.value = q.value /\ r.saved = q.saved
    BY DEF Request
  <2>2. r.overtaken = q.overtaken /\ r.crossed = q.crossed
    BY DEF Request
  <2> QED
    BY <2>1, <2>2 DEF Untouched
<1>5. ASSUME NEW override \in BOOLEAN
      PROVE  LET r == [q EXCEPT !.override = override]
             IN  /\ r \in Request /\ r.op = q.op /\ r.on = q.on /\ r.cohort = q.cohort
                 /\ r.value = q.value /\ r.override = override /\ Untouched(r)
  <2> DEFINE r == [q EXCEPT !.override = override]
  <2>1. /\ r \in Request /\ r.op = q.op /\ r.on = q.on /\ r.cohort = q.cohort
        /\ r.value = q.value
    BY DEF Request
  <2>2. r.override = override /\ r.overtaken = q.overtaken /\ r.crossed = q.crossed
    BY DEF Request
  <2> QED
    BY <2>1, <2>2 DEF Untouched
<1> QED
  BY <1>1, <1>2, <1>3, <1>4, <1>5

LEMMA BeginKeeps ==
    ASSUME Inv, NEW s \in Sessions, NEW q \in Request, Fits(q), Judged(q), Begin(s, q)
    PROVE  Inv'
  BY SessionKeeps DEF Begin

LEMMA ReadCohortKeeps ==
    ASSUME Inv, NEW s \in Sessions, NEW c \in DOMAIN cohorts,
           ReadEdit(s, c) \/ ReadStart(s, c) \/ ReadComplete(s, c) \/ ReadCancel(s, c) \/ ReadDraft(s, c)
    PROVE  Inv'
<1>1. c \in Nat /\ cohorts[c] \in CohortStatuses
  BY RowsTyped DEF Inv
<1>2. \A op \in {"edit", "start", "complete", "cancel", "draft"} : op \in Ops
  BY DEF Ops, StatusOps
<1>3. CASE ReadEdit(s, c)
  <2> DEFINE q == About("edit", c)
             r == [q EXCEPT !.status = cohorts[c]]
  <2>1. q \in Request /\ q.op = "edit" /\ q.cohort = c /\ Untouched(q)
    BY <1>1, <1>2, AboutIs
  <2>2. Begin(s, r)
    BY <1>3, <2>1 DEF ReadEdit, Loaded
  <2> HIDE DEF q
  <2>3. r \in Request /\ r.op = "edit" /\ r.cohort = c /\ r.status = cohorts[c] /\ Untouched(r)
    BY <1>1, <2>1, AlsoIs
  <2> HIDE DEF r
  <2>4. Fits(r) /\ Judged(r)
    BY <2>3 DEF Fits, Judged, StatusJudged, FileJudged, SeatJudged, Untouched, FileOps
  <2> QED
    BY <2>2, <2>3, <2>4, BeginKeeps
<1>4. CASE ReadStart(s, c)
  <2> DEFINE q == About("start", c)
  <2>1. q \in Request /\ q.op = "start" /\ q.cohort = c /\ Untouched(q)
    BY <1>1, <1>2, AboutIs
  <2>2. Begin(s, q) /\ Startable(c)
    BY <1>4 DEF ReadStart
  <2> HIDE DEF q
  <2>3. Fits(q) /\ Judged(q)
    BY <2>1, <2>2 DEF Fits, Judged, StatusJudged, FileJudged, SeatJudged, Untouched, FileOps
  <2> QED
    BY <2>1, <2>2, <2>3, BeginKeeps
<1>5. CASE ReadComplete(s, c)
  <2> DEFINE q == About("complete", c)
  <2>1. q \in Request /\ q.op = "complete" /\ q.cohort = c /\ Untouched(q)
    BY <1>1, <1>2, AboutIs
  <2>2. Begin(s, q) /\ cohorts[c] = "RUNNING"
    BY <1>5 DEF ReadComplete
  <2> HIDE DEF q
  <2>3. Fits(q) /\ Judged(q)
    BY <2>1, <2>2 DEF Fits, Judged, StatusJudged, FileJudged, SeatJudged, Untouched, FileOps
  <2> QED
    BY <2>1, <2>2, <2>3, BeginKeeps
<1>6. CASE ReadCancel(s, c)
  <2> DEFINE q == About("cancel", c)
  <2>1. q \in Request /\ q.op = "cancel" /\ q.cohort = c /\ Untouched(q)
    BY <1>1, <1>2, AboutIs
  <2>2. Begin(s, q) /\ Cancellable(c)
    BY <1>6 DEF ReadCancel
  <2> HIDE DEF q
  <2>3. Fits(q) /\ Judged(q)
    BY <2>1, <2>2 DEF Fits, Judged, StatusJudged, FileJudged, SeatJudged, Untouched, FileOps
  <2> QED
    BY <2>1, <2>2, <2>3, BeginKeeps
<1>7. CASE ReadDraft(s, c)
  <2> DEFINE q == About("draft", c)
  <2>1. q \in Request /\ q.op = "draft" /\ q.cohort = c /\ Untouched(q)
    BY <1>1, <1>2, AboutIs
  <2>2. Begin(s, q)
    BY <1>7 DEF ReadDraft
  <2> HIDE DEF q
  <2>3. Fits(q) /\ Judged(q)
    BY <2>1 DEF Fits, Judged, StatusJudged, FileJudged, SeatJudged, Untouched, FileOps
  <2> QED
    BY <2>1, <2>2, <2>3, BeginKeeps
<1> QED
  BY <1>3, <1>4, <1>5, <1>6, <1>7

LEMMA ReadFileKeeps ==
    ASSUME Inv, NEW s \in Sessions, NEW f \in DOMAIN files,
           \/ ReadSend(s, f) \/ ReadReject(s, f)
           \/ \E d \in Deadlines : ReadApprove(s, f, d)
    PROVE  Inv'
<1>1. PICK c \in DOMAIN cohorts : c = files[f].cohort
  BY DEF Inv, Typed, FilesTyped
<1>2. c \in Nat /\ f \in Nat
  BY RowsTyped DEF Inv
<1>3. cohorts[c] \in CohortStatuses
  <2>1. \A d \in DOMAIN cohorts : cohorts[d] \in CohortStatuses
    BY RowsTyped DEF Inv
  <2> QED
    BY <2>1
<1>4. ASSUME NEW op \in FileOps
      PROVE  /\ OnFile(op, f) \in Request /\ OnFile(op, f).op = op /\ OnFile(op, f).cohort = c
             /\ OnFile(op, f).on = f /\ OnFile(op, f).value = 0 /\ Untouched(OnFile(op, f))
  <2> DEFINE q == About(op, c)
             r == [q EXCEPT !.on = f]
  <2>1. op \in Ops
    BY DEF Ops, StatusOps
  <2>2. q \in Request /\ q.op = op /\ q.cohort = c /\ q.value = 0 /\ Untouched(q)
    BY <1>2, <2>1, AboutIs
  <2>3. OnFile(op, f) = r
    BY <1>1 DEF OnFile
  <2> HIDE DEF q
  <2>4. r \in Request /\ r.op = op /\ r.cohort = c /\ r.on = f /\ r.value = 0 /\ Untouched(r)
    BY <1>2, <2>2, AlsoIs
  <2> QED
    BY <2>3, <2>4
<1>5. CASE ReadSend(s, f)
  <2> DEFINE q == OnFile("send", f)
             r == [q EXCEPT !.status = cohorts[c]]
  <2>1. q \in Request /\ q.op = "send" /\ q.cohort = c /\ q.on = f /\ Untouched(q)
    BY <1>4 DEF FileOps
  <2>2. Begin(s, r) /\ files[f].status = "DRAFT"
    BY <1>5, <2>1 DEF ReadSend, Loaded
  <2> HIDE DEF q
  <2>3. /\ r \in Request /\ r.op = "send" /\ r.cohort = c /\ r.on = f /\ r.status = cohorts[c]
        /\ Untouched(r)
    BY <1>3, <2>1, AlsoIs
  <2> HIDE DEF r
  <2>4. Fits(r) /\ Judged(r)
    BY <1>1, <2>2, <2>3 DEF Fits, Judged, StatusJudged, FileJudged, SeatJudged, Untouched, FileOps
  <2> QED
    BY <2>2, <2>3, <2>4, BeginKeeps
<1>6. CASE ReadReject(s, f)
  <2> DEFINE q == OnFile("reject", f)
  <2>1. q \in Request /\ q.op = "reject" /\ q.cohort = c /\ q.on = f /\ q.value = 0 /\ Untouched(q)
    BY <1>4 DEF FileOps
  <2>2. Begin(s, q) /\ Decidable(f)
    BY <1>6 DEF ReadReject
  <2> HIDE DEF q
  <2>3. Fits(q) /\ Judged(q)
    BY <1>1, <2>1, <2>2 DEF Fits, Judged, StatusJudged, FileJudged, SeatJudged, Untouched, FileOps
  <2> QED
    BY <2>1, <2>2, <2>3, BeginKeeps
<1>7. ASSUME NEW d \in Deadlines, ReadApprove(s, f, d) PROVE Inv'
  <2> DEFINE q == OnFile("approve", f)
             r == [q EXCEPT !.value = d]
  <2>1. q \in Request /\ q.op = "approve" /\ q.cohort = c /\ q.on = f /\ Untouched(q)
    BY <1>4 DEF FileOps
  <2>2. Begin(s, r) /\ Decidable(f) /\ d \in Nat
    BY <1>7, ConstantsAssumption DEF ReadApprove
  <2> HIDE DEF q
  <2>3. r \in Request /\ r.op = "approve" /\ r.cohort = c /\ r.on = f /\ r.value = d /\ Untouched(r)
    BY <2>1, <2>2, AlsoIs
  <2> HIDE DEF r
  <2>4. Fits(r) /\ Judged(r)
    BY <1>1, <2>2, <2>3 DEF Fits, Judged, StatusJudged, FileJudged, SeatJudged, Untouched, FileOps
  <2> QED
    BY <2>2, <2>3, <2>4, BeginKeeps
<1> QED
  BY <1>5, <1>6, <1>7

LEMMA ReadEnrolKeeps ==
    ASSUME Inv, NEW s \in Sessions, NEW p \in Participants, NEW c \in DOMAIN cohorts, ReadEnrol(s, p, c)
    PROVE  Inv'
<1> DEFINE q == About("enrol", c)
           r == [q EXCEPT !.participant = p]
<1>1. c \in Nat /\ "enrol" \in Ops
  BY RowsTyped DEF Inv, Ops
<1>2. q \in Request /\ q.op = "enrol" /\ q.cohort = c /\ q.on = 0 /\ q.saved = 0 /\ Untouched(q)
  BY <1>1, AboutIs
<1>3. Begin(s, r) /\ CohortIsApproved(c)
  BY DEF ReadEnrol
<1> HIDE DEF q
<1>4. r \in Request /\ r.op = "enrol" /\ r.cohort = c /\ r.on = 0 /\ r.saved = 0 /\ Untouched(r)
  BY <1>2, AlsoIs
<1> HIDE DEF r
<1>5. Fits(r) /\ Judged(r)
  BY <1>3, <1>4 DEF Fits, Judged, StatusJudged, FileJudged, SeatJudged, Untouched, FileOps
<1> QED
  BY <1>3, <1>4, <1>5, BeginKeeps

(***************************************************************************)
(* An enrolled seat stands on an approval, so InTime compares with one;    *)
(* who is not in time has an override.                                     *)
(***************************************************************************)
LEMMA ReadUploadKeeps ==
    ASSUME Inv, NEW s \in Sessions, NEW e \in DOMAIN enrolments, ReadUpload(s, e)
    PROVE  Inv'
<1>1. PICK c \in DOMAIN cohorts : c = enrolments[e].cohort
  BY DEF Inv, Typed, SeatsTyped
<1>2. PICK late \in BOOLEAN : late = NeedsOverride(c)
  BY DEF NeedsOverride
<1> DEFINE q == About("upload", c)
           on == [q EXCEPT !.on = e]
           dated == [on EXCEPT !.value = today]
           r == [dated EXCEPT !.override = late]
<1>3. c \in Nat /\ e \in Nat /\ today \in Nat /\ today \in Days /\ "upload" \in Ops
  BY RowsTyped, ConstantsAssumption DEF Inv, Typed, Ops, Days
<1>4. q \in Request /\ q.op = "upload" /\ q.cohort = c /\ Untouched(q)
  BY <1>3, AboutIs
<1>5. Begin(s, r) /\ enrolments[e].approved
  BY <1>1, <1>2 DEF ReadUpload, Uploadable
<1> HIDE DEF q
<1>6. on \in Request /\ on.op = "upload" /\ on.cohort = c /\ on.on = e /\ Untouched(on)
  BY <1>3, <1>4, AlsoIs
<1> HIDE DEF on
<1>7. /\ dated \in Request /\ dated.op = "upload" /\ dated.cohort = c /\ dated.on = e
      /\ dated.value = today /\ Untouched(dated)
  BY <1>3, <1>6, AlsoIs
<1> HIDE DEF dated
<1>8. /\ r \in Request /\ r.op = "upload" /\ r.cohort = c /\ r.on = e /\ r.value = today
      /\ r.override = late /\ Untouched(r)
  BY <1>7, AlsoIs
<1> HIDE DEF r
<1>9. Firm(c) => late \/ enrolments[e].opened = "deferral" \/ OnTime(c, today)
  <2>1. Firm(c) => enrolments[e].opened = "deferral" \/ CohortIsApproved(c)
    BY <1>1 DEF Inv, SeatStands
  <2>2. CohortIsApproved(c) => late \/ OnTime(c, today)
    BY <1>2 DEF CohortIsApproved, NeedsOverride, InTime, OnTime
  <2> QED
    BY <2>1, <2>2
<1>10. Fits(r)
  BY <1>1, <1>3, <1>5, <1>8 DEF Fits, Untouched, FileOps
<1>11. Judged(r)
  BY <1>8, <1>9 DEF Judged, StatusJudged, FileJudged, SeatJudged
<1> QED
  BY <1>5, <1>8, <1>10, <1>11, BeginKeeps

-----------------------------------------------------------------------------
(***************************************************************************)
(* Nothing that is kept depends on today, or on a step that changes no row.*)
(***************************************************************************)
LEMMA RowsKeep ==
    ASSUME Inv, UNCHANGED <<cohorts, files, enrolments, req, rewritten, redecided>>, today' \in Days
    PROVE  Inv'
<1>1. ASSUME NEW t \in Sessions PROVE Fits(req[t])' /\ Judged(req[t])'
  <2>1. PICK r : r = req[t]
    OBVIOUS
  <2>2. Fits(r) /\ Judged(r)
    BY <2>1 DEF Inv, Typed, RequestsTyped
  <2>3. Fits(r)' /\ Judged(r)'
    BY <2>2 DEF Fits, Judged, StatusJudged, FileJudged, SeatJudged, Startable, Cancellable, Decidable,
                CohortIsApproved, ApprovedFiles, FilesOf, OnTime, Firm
  <2> QED
    BY <2>1, <2>3
       DEF Fits, Judged, StatusJudged, FileJudged, SeatJudged, Startable, Cancellable, Decidable
<1>2. Typed'
  BY <1>1 DEF Inv, Typed, RequestsTyped, FilesTyped, SeatsTyped, Marked
<1> QED
  BY <1>1, <1>2 DEF Inv, SeatStands, StatusStands, StatusBacked, HasFile, CohortIsApproved,
                    ApprovedFiles, FilesOf, OnTime, Firm

LEMMA DayKeeps ==
    ASSUME Inv, NextDay
    PROVE  Inv'
<1>1. Quiet /\ UNCHANGED <<cohorts, files, enrolments>> /\ today' \in Days
  BY ConstantsAssumption DEF NextDay, Inv, Typed, Days
<1> QED
  BY <1>1, RowsKeep DEF Quiet

(***************************************************************************)
(* The steps, by what they do: none but those of the third line writes a   *)
(* status over another.                                                    *)
(***************************************************************************)
LEMMA StepIs ==
    ASSUME Next
    PROVE  \/ EnrolmentAction \/ NextDay \/ OpenCohort
           \/ \E f \in DOMAIN files : Attach(f) \/ Resubmit(f)
           \/ \E s \in Sessions : \/ WriteEdit(s) \/ WriteStatus(s) \/ WriteSend(s) \/ WriteDecision(s)
           \/ \E s \in Sessions : \/ WriteDraft(s) \/ EnrollWithCharges(s) \/ WriteUpload(s) \/ Rollback(s)
           \/ \E s \in Sessions, c \in DOMAIN cohorts :
                 \/ ReadEdit(s, c) \/ ReadStart(s, c) \/ ReadComplete(s, c) \/ ReadCancel(s, c)
                 \/ ReadDraft(s, c)
           \/ \E s \in Sessions, f \in DOMAIN files :
                 \/ ReadSend(s, f) \/ ReadReject(s, f)
                 \/ \E d \in Deadlines : ReadApprove(s, f, d)
           \/ \E s \in Sessions, p \in Participants, c \in DOMAIN cohorts : ReadEnrol(s, p, c)
           \/ \E s \in Sessions, e \in DOMAIN enrolments : ReadUpload(s, e)
<1>1. CASE EnrolmentAction \/ NextDay
  BY <1>1
<1>2. ASSUME NEW s \in Sessions, HandleCohortAction(s)
      PROVE  \/ OpenCohort \/ WriteEdit(s) \/ WriteStatus(s)
             \/ \E c \in DOMAIN cohorts :
                   ReadEdit(s, c) \/ ReadStart(s, c) \/ ReadComplete(s, c) \/ ReadCancel(s, c)
  BY <1>2 DEF HandleCohortAction
<1>3. ASSUME NEW s \in Sessions, SubmitForm(s)
      PROVE  WriteDraft(s) \/ \E c \in DOMAIN cohorts : ReadDraft(s, c)
  BY <1>3 DEF SubmitForm
<1>4. ASSUME NEW s \in Sessions, MoheDetailView(s)
      PROVE  \/ WriteSend(s) \/ WriteDecision(s)
             \/ \E f \in DOMAIN files :
                   \/ Attach(f) \/ Resubmit(f) \/ ReadSend(s, f) \/ ReadReject(s, f)
                   \/ \E d \in Deadlines : ReadApprove(s, f, d)
  BY <1>4 DEF MoheDetailView, RunMoheAction
<1>5. ASSUME NEW s \in Sessions, EnrollmentNewView(s)
      PROVE  \E p \in Participants, c \in DOMAIN cohorts : ReadEnrol(s, p, c)
  BY <1>5 DEF EnrollmentNewView
<1>6. ASSUME NEW s \in Sessions, UploadName(s)
      PROVE  WriteUpload(s) \/ \E e \in DOMAIN enrolments : ReadUpload(s, e)
  BY <1>6 DEF UploadName
<1> QED
  BY <1>1, <1>2, <1>3, <1>4, <1>5, <1>6 DEF Next

LEMMA EnrolmentActionKeeps ==
    ASSUME Inv, EnrolmentAction
    PROVE  Inv'
<1>1. PICK e \in DOMAIN enrolments :
         \/ ApproveEnrolment(e)
         \/ Withdraw(e)
         \/ CancelRegistration(e)
         \/ \E c \in DOMAIN cohorts : Defer(e, c)
         \/ \E p \in Participants : Substitute(e, p)
  BY DEF EnrolmentAction
<1>2. CASE Withdraw(e)
  BY <1>2, MoveKeeps DEF Withdraw, Statuses
<1> QED
  BY <1>1, <1>2, ApproveKeeps, CancelKeeps, DeferKeeps, SubstituteKeeps

LEMMA StepKeeps ==
    ASSUME Inv, [Next]_vars
    PROVE  Inv'
<1>1. CASE UNCHANGED vars
  <2>1. UNCHANGED <<cohorts, files, enrolments, req, rewritten, redecided>> /\ today' \in Days
    BY <1>1 DEF vars, Inv, Typed
  <2> QED
    BY <2>1, RowsKeep
<1>2. CASE \/ EnrolmentAction \/ NextDay \/ OpenCohort
           \/ \E f \in DOMAIN files : Attach(f) \/ Resubmit(f)
  BY <1>2, EnrolmentActionKeeps, DayKeeps, OpenKeeps, AttachKeeps, ResubmitKeeps
<1>3. ASSUME NEW s \in Sessions,
             \/ WriteEdit(s) \/ WriteStatus(s) \/ WriteSend(s) \/ WriteDecision(s)
             \/ WriteDraft(s) \/ EnrollWithCharges(s) \/ WriteUpload(s) \/ Rollback(s)
      PROVE  Inv'
  BY <1>3, EditKeeps, WriteStatusKeeps, SendKeeps, DecisionKeeps, DraftKeeps, EnrolKeeps,
     RegistrationKeeps, TuitionKeeps, UploadKeeps, RollbackKeeps
     DEF EnrollWithCharges
<1>4. CASE \/ \E s \in Sessions, c \in DOMAIN cohorts :
                 \/ ReadEdit(s, c) \/ ReadStart(s, c) \/ ReadComplete(s, c) \/ ReadCancel(s, c)
                 \/ ReadDraft(s, c)
           \/ \E s \in Sessions, f \in DOMAIN files :
                 \/ ReadSend(s, f) \/ ReadReject(s, f)
                 \/ \E d \in Deadlines : ReadApprove(s, f, d)
           \/ \E s \in Sessions, p \in Participants, c \in DOMAIN cohorts : ReadEnrol(s, p, c)
           \/ \E s \in Sessions, e \in DOMAIN enrolments : ReadUpload(s, e)
  BY <1>4, ReadCohortKeeps, ReadFileKeeps, ReadEnrolKeeps, ReadUploadKeeps
<1> QED
  BY <1>1, <1>2, <1>3, <1>4, StepIs

LEMMA StartsRight == Init => Inv
<1> SUFFICES ASSUME Init PROVE Inv
  OBVIOUS
<1>1. \A s \in Sessions : req[s] = Idle
  BY DEF Init
<1>2. /\ cohorts \in Seq(CohortStatuses) /\ files \in Seq(File) /\ enrolments \in Seq(Enrollment)
      /\ DOMAIN cohorts = {} /\ DOMAIN files = {} /\ DOMAIN enrolments = {}
  BY EmptySeq DEF Init
<1>3. req \in [Sessions -> Request]
  BY <1>1, IdleFits DEF Init
<1>4. 1 \in Days
  BY ConstantsAssumption DEF Days
<1>5. Typed
  BY <1>1, <1>2, <1>3, <1>4, IdleFits DEF Init, Typed, FilesTyped, SeatsTyped, RequestsTyped, Marked
<1> QED
  BY <1>1, <1>2, <1>5, IdleFits DEF Inv

LEMMA Invariant == Spec => []Inv
  BY StartsRight, StepKeeps, PTL DEF Spec

-----------------------------------------------------------------------------
(* The theorems. *)

(***************************************************************************)
(* Every variable keeps its type: an approved file has a deadline and no   *)
(* other has one, and only names of approved enrolments are uploaded.      *)
(***************************************************************************)
THEOREM TypeCorrect == Spec => []TypeOK
<1>1. Inv => TypeOK
  BY DEF Inv, Typed, TypeOK, FilesTyped, SeatsTyped, RequestsTyped, Marked
<1> QED
  BY <1>1, Invariant, PTL

(***************************************************************************)
(* The latest file of a cohort is one of its files.                        *)
(***************************************************************************)
LEMMA LatestIsOne ==
    ASSUME NEW n \in Nat, NEW S \in SUBSET (1 .. n), S # {}
    PROVE  Max(S) \in S
<1> DEFINE Above(f) == {g \in S : g > f}
           all == 1 .. n
           heads == {Above(f) : f \in S}
<1>1. IsFiniteSet(all)
  BY FS_Interval
<1>2. heads \in SUBSET SUBSET all /\ heads # {}
  OBVIOUS
<1>3. PICK f \in S : \A g \in S : Above(g) \subseteq Above(f) => Above(g) = Above(f)
  <2>1. PICK x \in heads : \A y \in heads : y \subseteq x => y = x
    <3> HIDE DEF all, heads
    <3> QED
      BY <1>1, <1>2, SmallestSet
  <2> HIDE DEF Above
  <2> QED
    BY <2>1
<1>4. ASSUME NEW g \in S PROVE f >= g
  <2> SUFFICES ASSUME g > f PROVE FALSE
    OBVIOUS
  <2>1. f \in Int /\ g \in Int /\ \A h \in S : h \in Int
    OBVIOUS
  <2>2. g \in Above(f) /\ g \notin Above(g)
    BY <2>1
  <2>3. ASSUME NEW h \in Above(g) PROVE h \in Above(f)
    BY <2>1, <2>3
  <2> QED
    BY <1>3, <2>2, <2>3
<1>5. \E x \in S : \A y \in S : x >= y
  BY <1>4
<1> QED
  BY <1>5 DEF Max

(***************************************************************************)
(* The stage the register shows has its file when the status has.          *)
(***************************************************************************)
LEMMA StagesStand ==
    ASSUME Inv
    PROVE  StageHasItsFile
<1> SUFFICES ASSUME NEW c \in DOMAIN cohorts, c \notin rewritten
             PROVE  /\ Stage(c) \in {"RUNNING", "COMPLETED"} => HasFile(c, "APPROVED")
                    /\ cohorts[c] = "PENDING_MOHE" \/ Stage(c) = "AT_MOHE" => HasFile(c, "SUBMITTED")
                    /\ Stage(c) = "MOHE_REJECTED" => HasFile(c, "REJECTED")
  BY DEF StageHasItsFile, HasFile
<1>1. StatusStands(c)
  BY DEF Inv
<1>2. CohortIsApproved(c) => HasFile(c, "APPROVED")
  BY DEF CohortIsApproved, ApprovedFiles, HasFile
<1>3. LatestFile(c) = "SUBMITTED" => HasFile(c, "SUBMITTED")
  <2> SUFFICES ASSUME LatestFile(c) = "SUBMITTED" PROVE HasFile(c, "SUBMITTED")
    OBVIOUS
  <2>1. FilesOf(c) # {}
    BY DEF LatestFile
  <2>2. FilesOf(c) \in SUBSET (1 .. Len(files)) /\ Len(files) \in Nat
    BY RowsTyped DEF Inv, FilesOf
  <2>3. Max(FilesOf(c)) \in FilesOf(c)
    BY <2>1, <2>2, LatestIsOne
  <2> QED
    BY <2>1, <2>3 DEF LatestFile, HasFile
<1>4. CASE cohorts[c] \in {"RUNNING", "MOHE_REJECTED"} \cup History
  <2>1. Stage(c) = cohorts[c]
    BY <1>4 DEF Stage
  <2> QED
    BY <1>1, <1>2, <1>4, <2>1 DEF StatusStands, StatusBacked, History
<1>5. CASE cohorts[c] \notin {"RUNNING", "MOHE_REJECTED"} \cup History
  <2>1. /\ Stage(c) \in {"ENROLLABLE", "AT_MOHE", "NEEDS_FILE"}
        /\ Stage(c) = "AT_MOHE" => cohorts[c] = "PENDING_MOHE" \/ LatestFile(c) = "SUBMITTED"
    BY <1>5 DEF Stage
  <2> QED
    BY <1>1, <1>3, <2>1 DEF StatusStands, StatusBacked
<1> QED
  BY <1>4, <1>5

(***************************************************************************)
(* What the ministry was told and what the register says agree, for any    *)
(* number of cohorts, files, seats and requests: of every cohort none of   *)
(* whose files was decided or sent over a newer decision the seats and the *)
(* names, of every cohort whose status was not saved over a newer one the  *)
(* stage.                                                                  *)
(***************************************************************************)
THEOREM MinistryAgrees == Spec => []AgreesWithMinistry
<1>1. ASSUME Inv PROVE AgreesWithMinistry
  <2>1. EnrolledUnderApproval
    BY <1>1 DEF EnrolledUnderApproval, Inv, SeatStands, Firm
  <2>2. NamesInTime
    BY <1>1 DEF NamesInTime, Inv, SeatStands, OnTime, Firm
  <2> QED
    BY <1>1, <2>1, <2>2, StagesStand DEF AgreesWithMinistry
<1> QED
  BY <1>1, Invariant, PTL

(***************************************************************************)
(* What moves the status of a finished cohort is a decision of the         *)
(* ministry, or was judged before it finished.                             *)
(***************************************************************************)
LEMMA StepKeepsHistory ==
    ASSUME Inv, [Next]_vars
    PROVE  [\A c \in DOMAIN cohorts :
              \/ cohorts[c] \notin History
              \/ cohorts'[c] = cohorts[c]
              \/ \E s \in Sessions :
                    /\ req[s].cohort = c /\ req'[s] = Idle
                    /\ req[s].op \in {"approve", "reject"} \/ req[s].overtaken]_cohorts
<1> SUFFICES ASSUME Next, NEW c \in DOMAIN cohorts, cohorts[c] \in History, cohorts'[c] # cohorts[c],
                    \A s \in Sessions :
                       ~(/\ req[s].cohort = c /\ req'[s] = Idle
                         /\ req[s].op \in {"approve", "reject"} \/ req[s].overtaken)
             PROVE  FALSE
  BY DEF vars
<1>1. ~OpenCohort
  BY OpenKeeps
<1>2. PICK s \in Sessions : WriteEdit(s) \/ WriteStatus(s) \/ WriteSend(s) \/ WriteDecision(s)
  <2>1. ~EnrolmentAction /\ ~NextDay
    BY DEF EnrolmentAction, ApproveEnrolment, Withdraw, Move, CancelRegistration, Defer, Substitute, NextDay
  <2>2. \A f \in DOMAIN files : ~Attach(f) /\ ~Resubmit(f)
    BY DEF Attach, Resubmit
  <2>3. \A t \in Sessions : ~WriteDraft(t) /\ ~EnrollWithCharges(t) /\ ~WriteUpload(t) /\ ~Rollback(t)
    BY DEF WriteDraft, EnrollWithCharges, WriteEnrol, RaiseRegistration, RaiseTuition, WriteUpload, Rollback
  <2>4. \A t \in Sessions : \A q : ~Begin(t, q)
    BY DEF Begin
  <2>5. \A t \in Sessions, d \in DOMAIN cohorts :
           ~ReadEdit(t, d) /\ ~ReadStart(t, d) /\ ~ReadComplete(t, d) /\ ~ReadCancel(t, d) /\ ~ReadDraft(t, d)
    BY <2>4 DEF ReadEdit, ReadStart, ReadComplete, ReadCancel, ReadDraft
  <2>6. \A t \in Sessions, f \in DOMAIN files :
           ~ReadSend(t, f) /\ ~ReadReject(t, f) /\ \A d \in Deadlines : ~ReadApprove(t, f, d)
    BY <2>4 DEF ReadSend, ReadReject, ReadApprove
  <2>7. /\ \A t \in Sessions, p \in Participants, d \in DOMAIN cohorts : ~ReadEnrol(t, p, d)
        /\ \A t \in Sessions, e \in DOMAIN enrolments : ~ReadUpload(t, e)
    BY <2>4 DEF ReadEnrol, ReadUpload
  <2> QED
    BY <1>1, <2>1, <2>2, <2>3, <2>5, <2>6, <2>7, StepIs
<1>3. Committed(s, Idle)
  BY <1>2 DEF WriteEdit, WriteStatus, WriteSend, WriteDecision, Finish
<1>4. req'[s] = Idle
  BY <1>3, CommitTells DEF Inv, Typed, RequestsTyped
<1>5. req[s].cohort = c => StatusJudged(req[s])
  BY <1>4 DEF Inv, Judged
<1>6. cohorts \in [1 .. Len(cohorts) -> CohortStatuses]
  BY LenProperties DEF Inv, Typed
<1>7. CASE WriteEdit(s)
  <2>1. req[s].cohort = c /\ req[s].op = "edit" /\ cohorts'[c] = req[s].status
    BY <1>6, <1>7 DEF WriteEdit, Serving
  <2> QED
    BY <1>5, <2>1 DEF StatusJudged
<1>8. CASE WriteStatus(s)
  <2>1. req[s].cohort = c
    BY <1>6, <1>8 DEF WriteStatus
  <2>2. req[s].op \in {"start", "complete", "cancel"}
    BY <1>8, OutcomeIs DEF WriteStatus
  <2> QED
    BY <1>5, <2>1, <2>2 DEF StatusJudged, Startable, Cancellable, History
<1>9. CASE WriteSend(s)
  <2>1. req[s].cohort = c /\ req[s].op = "send" /\ req[s].status = "PLANNED"
    BY <1>6, <1>9 DEF WriteSend, Serving
  <2> QED
    BY <1>5, <2>1 DEF StatusJudged, History
<1>10. CASE WriteDecision(s)
  <2>1. req[s].cohort = c /\ req[s].op \in {"approve", "reject"}
    BY <1>6, <1>10, DecisionIs DEF WriteDecision
  <2> QED
    BY <1>4, <2>1
<1> QED
  BY <1>2, <1>7, <1>8, <1>9, <1>10

(***************************************************************************)
(* A cohort that is over stays so against every step but the commit of a   *)
(* decision of the ministry, or of a request that was overtaken.           *)
(***************************************************************************)
THEOREM HistoryStays == Spec => FinishedStays
<1>1. Spec => []Inv /\ [][Next]_vars
  BY Invariant, PTL DEF Spec
<1> QED
  BY <1>1, StepKeepsHistory, PTL DEF FinishedStays

-----------------------------------------------------------------------------
(* Transfer. *)

(* Sums over the rows of a table that are of a kind.                         *)

OfKind(t, Q) == {i \in DOMAIN t : t[i] \in Q}

Valued(val, t) == [i \in DOMAIN t |-> val[t[i]]]

SumIn(val, t, Q) == SumFunctionOnSet(Valued(val, t), OfKind(t, Q))

Onto(w, t, u) == w = t \o u

Lengthened(w, t, x) == w = Append(t, x)

Single(w, none, x) == none = <<>> /\ w = Append(none, x)

ValueIn(val, x, Q) == IF x \in Q THEN val[x] ELSE 0

Values(val, T) == \A x \in T : val[x] \in Int

Longer(T, w, t, u, m, n) ==
    /\ w \in Seq(T) /\ t \in Seq(T) /\ u \in Seq(T)
    /\ m \in Nat /\ n \in Nat /\ Len(w) = m + n /\ Len(t) = m /\ Len(u) = n
    /\ DOMAIN t = 1 .. m /\ DOMAIN u = 1 .. n /\ DOMAIN w = 1 .. (m + n)
    /\ \A i \in 1 .. m : w[i] = t[i] /\ t[i] \in T
    /\ \A k \in 1 .. n : w[m + k] = u[k] /\ u[k] \in T

LEMMA TableJoined ==
    ASSUME NEW T, NEW t \in Seq(T), NEW u \in Seq(T), NEW w, Onto(w, t, u),
           NEW m, m = Len(t), NEW n, n = Len(u)
    PROVE  Longer(T, w, t, u, m, n)
<1>0. w = t \o u
  BY DEF Onto
<1>1. m \in Nat /\ n \in Nat /\ DOMAIN t = 1 .. m /\ DOMAIN u = 1 .. n
  BY LenProperties
<1>2. w \in Seq(T) /\ Len(w) = m + n
  <2>1. t \o u \in Seq(T) /\ Len(t \o u) = Len(t) + Len(u)
    BY ConcatProperties, Zenon
  <2> QED
    BY <1>0, <2>1, Zenon
<1>3. DOMAIN w = 1 .. (m + n)
  BY <1>2, LenProperties
<1>4. \A i \in 1 .. m + n : w[i] = IF i <= m THEN t[i] ELSE u[i - m]
  <2>1. \A i \in 1 .. Len(t) + Len(u) : (t \o u)[i] = IF i <= Len(t) THEN t[i] ELSE u[i - Len(t)]
    BY ConcatProperties, Zenon
  <2> QED
    BY <1>0, <2>1, Zenon
<1>5. ASSUME NEW i \in 1 .. m PROVE w[i] = t[i] /\ t[i] \in T
  <2>1. i \in 1 .. m + n /\ i <= m
    BY <1>1
  <2>2. t[i] \in T
    BY <1>1, LenProperties
  <2> QED
    BY <1>4, <2>1, <2>2
<1>6. ASSUME NEW k \in 1 .. n PROVE w[m + k] = u[k] /\ u[k] \in T
  <2>1. m + k \in 1 .. m + n /\ ~(m + k <= m) /\ (m + k) - m = k
    BY <1>1
  <2>2. u[k] \in T
    BY <1>1, LenProperties
  <2> QED
    BY <1>4, <2>1, <2>2
<1> QED
  BY <1>1, <1>2, <1>3, <1>5, <1>6 DEF Longer

LEMMA KindsAre ==
    ASSUME NEW T, NEW t \in Seq(T), NEW val, Values(val, T)
    PROVE  \A Q : /\ IsFiniteSet(OfKind(t, Q)) /\ OfKind(t, Q) \subseteq DOMAIN t
                  /\ \A i \in DOMAIN t : Valued(val, t)[i] \in Int
                  /\ SumIn(val, t, Q) \in Int
<1>1. DOMAIN t = 1 .. Len(t) /\ Len(t) \in Nat /\ \A i \in DOMAIN t : t[i] \in T
  BY LenProperties
<1>2. IsFiniteSet(DOMAIN t)
  BY <1>1, FS_Interval
<1>3. \A Q : OfKind(t, Q) \subseteq DOMAIN t
  BY DEF OfKind
<1>4. \A Q : IsFiniteSet(OfKind(t, Q))
  BY <1>2, <1>3, FS_Subset
<1>5. \A i \in DOMAIN t : Valued(val, t)[i] \in Int
  BY <1>1 DEF Valued, Values
<1>6. \A Q : SumIn(val, t, Q) \in Int
  BY <1>3, <1>4, <1>5, SumTyped DEF SumIn
<1> QED
  BY <1>3, <1>4, <1>5, <1>6

(***************************************************************************)
(* What a longer table comes to.                                           *)
(***************************************************************************)
LEMMA SumLonger ==
    ASSUME NEW T, NEW t, NEW u, NEW w, NEW m, NEW n, Longer(T, w, t, u, m, n),
           NEW val, Values(val, T), NEW Q
    PROVE  SumIn(val, w, Q) = SumIn(val, t, Q) + SumIn(val, u, Q)
<1> DEFINE old == OfKind(t, Q)
           K == OfKind(u, Q)
           b == [k \in K |-> m + k]
           new == {b[k] : k \in K}
           after == Valued(val, w)
           g == Valued(val, u)
<1>0. w \in Seq(T) /\ t \in Seq(T) /\ u \in Seq(T)
  BY DEF Longer
<1>1. m \in Nat /\ n \in Nat /\ DOMAIN t = 1 .. m /\ DOMAIN u = 1 .. n /\ DOMAIN w = 1 .. (m + n)
  BY DEF Longer
<1>2. IsFiniteSet(old) /\ IsFiniteSet(K) /\ old \subseteq 1 .. m /\ K \subseteq 1 .. n
  BY <1>0, <1>1, KindsAre
<1>3. \A i \in DOMAIN w : after[i] \in Int
  BY <1>0, KindsAre
<1>4. \A i \in old : i \in DOMAIN w /\ after[i] = Valued(val, t)[i] /\ Valued(val, t)[i] \in Int
  <2>1. \A i \in 1 .. m : i \in DOMAIN w
    BY <1>1
  <2>2. \A i \in 1 .. m : Valued(val, t)[i] \in Int
    BY <1>0, <1>1, KindsAre
  <2>3. \A i \in 1 .. m : after[i] = Valued(val, t)[i]
    BY <1>1, <2>1 DEF Valued, Longer
  <2> HIDE DEF old, after
  <2> QED
    BY <1>2, <2>1, <2>2, <2>3
<1>5. \A k \in K : b[k] = m + k /\ b[k] \in DOMAIN w /\ after[b[k]] = g[k] /\ g[k] \in Int
  <2>1. \A k \in 1 .. n : m + k \in DOMAIN w
    BY <1>1
  <2>2. \A k \in 1 .. n : after[m + k] = g[k]
    BY <1>1, <2>1 DEF Valued, Longer
  <2>3. \A k \in 1 .. n : g[k] \in Int
    BY <1>0, <1>1, KindsAre
  <2>4. \A k \in K : b[k] = m + k
    OBVIOUS
  <2> HIDE DEF K, b, after, g
  <2> QED
    BY <1>2, <2>1, <2>2, <2>3, <2>4
<1>6. OfKind(w, Q) = old \cup new /\ old \cap new = {}
  <2>1. \A i : i \in 1 .. (m + n) <=> i \in 1 .. m \/ \E k \in 1 .. n : i = m + k
    <3> SUFFICES ASSUME NEW i
                 PROVE  i \in 1 .. (m + n) <=> i \in 1 .. m \/ \E k \in 1 .. n : i = m + k
      OBVIOUS
    <3>1. ASSUME i \in 1 .. (m + n), i \notin 1 .. m PROVE \E k \in 1 .. n : i = m + k
      <4>1. i - m \in 1 .. n /\ i = m + (i - m)
        BY <1>1, <3>1
      <4> QED
        BY <4>1
    <3>2. \A k \in 1 .. n : m + k \in 1 .. (m + n)
      BY <1>1
    <3>3. i \in 1 .. m => i \in 1 .. (m + n)
      BY <1>1
    <3> QED
      BY <3>1, <3>2, <3>3
  <2>2. new = {m + k : k \in K}
    OBVIOUS
  <2>3. \A i \in 1 .. m : i \in OfKind(w, Q) <=> i \in old
    BY <1>1, <2>1 DEF OfKind, Longer
  <2>4. \A k \in 1 .. n : m + k \in OfKind(w, Q) <=> k \in K
    BY <1>1, <2>1 DEF OfKind, Longer
  <2>5. \A k \in 1 .. n : m + k \notin 1 .. m
    BY <1>1
  <2>6. OfKind(w, Q) \subseteq 1 .. (m + n)
    BY <1>1 DEF OfKind
  <2> HIDE DEF old, K, new
  <2>7. ASSUME NEW i PROVE i \in OfKind(w, Q) <=> i \in old \cup new
    <3>1. CASE i \in 1 .. m
      <4>1. i \notin new
        BY <1>2, <2>2, <2>5, <3>1
      <4> QED
        BY <2>3, <3>1, <4>1
    <3>2. CASE i \notin 1 .. m
      <4>1. i \notin old
        BY <1>2, <3>2
      <4>2. ASSUME i \in OfKind(w, Q) PROVE i \in new
        <5>1. i \in 1 .. (m + n)
          BY <2>6, <4>2
        <5>2. PICK k \in 1 .. n : i = m + k
          BY <2>1, <3>2, <5>1
        <5>3. k \in K
          BY <2>4, <4>2, <5>2
        <5> QED
          BY <2>2, <5>2, <5>3
      <4>3. i \in new => i \in OfKind(w, Q)
        BY <1>2, <2>2, <2>4
      <4> QED
        BY <4>1, <4>2, <4>3
    <3> QED
      BY <3>1, <3>2
  <2>8. \A i \in new : i \notin old
    BY <1>2, <2>2, <2>5
  <2> QED
    BY <2>7, <2>8
<1>7. IsFiniteSet(new)
  <2>1. IsFiniteSet(OfKind(w, Q))
    BY <1>0, KindsAre
  <2> HIDE DEF old, new
  <2> QED
    BY <1>6, <2>1, FS_Subset
<1>8. SumFunctionOnSet(after, old) = SumIn(val, t, Q)
  <2>1. SumIn(val, t, Q) = SumFunctionOnSet(Valued(val, t), old)
    BY DEF SumIn
  <2> HIDE DEF old, after
  <2>2. SumFunctionOnSet(after, old) = SumFunctionOnSet(Valued(val, t), old)
    BY <1>2, <1>4, SumSame
  <2> QED
    BY <2>1, <2>2
<1>9. SumFunctionOnSet(after, new) = SumIn(val, u, Q)
  <2>1. SumIn(val, u, Q) = SumFunctionOnSet(g, K)
    BY DEF SumIn
  <2>2. \A j, k \in K : b[j] = b[k] => j = k
    BY <1>1, <1>2
  <2>3. SumFunctionOnSet(after, {b[k] : k \in K}) = SumFunctionOnSet(g, K)
    <3>1. PICK places, at, plain, all : places = K /\ at = b /\ plain = g /\ all = after
      OBVIOUS
    <3>2. /\ IsFiniteSet(places) /\ \A j, k \in places : at[j] = at[k] => j = k
          /\ \A k \in places : plain[k] \in Int /\ all[at[k]] = plain[k]
      <4> HIDE DEF K, b, g, after
      <4> QED BY <1>2, <1>5, <2>2, <3>1
    <3>3. SumFunctionOnSet(all, {at[k] : k \in places}) = SumFunctionOnSet(plain, places)
      BY <3>2, SumOverPlaces
    <3> HIDE DEF K, b, g, after
    <3> QED
      BY <3>1, <3>3
  <2> QED
    BY <2>1, <2>3
<1>10. SumIn(val, w, Q) = SumFunctionOnSet(after, old \cup new)
  <2> HIDE DEF old, new
  <2> QED
    BY <1>6 DEF SumIn
<1>11. \A i \in old \cup new : after[i] \in Int
  <2>1. \A i \in old : after[i] \in Int
    <3> HIDE DEF old, after
    <3> QED BY <1>4
  <2>2. \A i \in new : after[i] \in Int
    <3> HIDE DEF K, b, g, after
    <3> QED BY <1>5
  <2> HIDE DEF old, new, after
  <2> QED
    BY <2>1, <2>2
<1> HIDE DEF old, new, after
<1>12. SumFunctionOnSet(after, old \cup new) = SumFunctionOnSet(after, old) + SumFunctionOnSet(after, new)
  <2>1. PICK p, q, f : p = old /\ q = new /\ f = after
    OBVIOUS
  <2>2. IsFiniteSet(p) /\ IsFiniteSet(q) /\ p \cap q = {} /\ \A i \in p \cup q : f[i] \in Int
    BY <1>2, <1>6, <1>7, <1>11, <2>1
  <2>3. SumFunctionOnSet(f, p \cup q) = SumFunctionOnSet(f, p) + SumFunctionOnSet(f, q)
    BY <2>2, SumTogether
  <2> QED
    BY <2>1, <2>3
<1> QED
  BY <1>8, <1>9, <1>10, <1>12

LEMMA SumJoined ==
    ASSUME NEW T, NEW t \in Seq(T), NEW u \in Seq(T), NEW w, Onto(w, t, u),
           NEW val, Values(val, T), NEW Q
    PROVE  SumIn(val, w, Q) = SumIn(val, t, Q) + SumIn(val, u, Q)
<1>1. PICK m, n : m = Len(t) /\ n = Len(u)
  OBVIOUS
<1>2. Longer(T, w, t, u, m, n)
  BY <1>1, TableJoined, Zenon
<1> QED
  BY <1>2, SumLonger

LEMMA SumNone ==
    ASSUME NEW val, NEW Q
    PROVE  SumIn(val, <<>>, Q) = 0
<1>1. OfKind(<<>>, Q) = {}
  BY DEF OfKind
<1> QED
  BY <1>1, SumFirst, FS_EmptySet DEF SumIn

LEMMA SumAppended ==
    ASSUME NEW T, NEW t \in Seq(T), NEW x \in T, NEW w, Lengthened(w, t, x),
           NEW val, Values(val, T), NEW Q
    PROVE  SumIn(val, w, Q) = SumIn(val, t, Q) + ValueIn(val, x, Q)
<1>0. w = Append(t, x)
  BY DEF Lengthened
<1>1. PICK n : n = Len(t) + 1
  OBVIOUS
<1>2. /\ w \in Seq(T) /\ DOMAIN w = DOMAIN t \cup {n} /\ n \notin DOMAIN t
      /\ \A i \in DOMAIN t : w[i] = t[i]
      /\ w[n] = x
  BY <1>0, <1>1, RowAdded
<1> DEFINE old == OfKind(t, Q)
           after == Valued(val, w)
<1>3. IsFiniteSet(old) /\ old \subseteq DOMAIN t
  BY KindsAre
<1>4. \A i \in DOMAIN w : after[i] \in Int
  BY <1>2, KindsAre
<1>5. \A i \in old : Valued(val, t)[i] \in Int /\ after[i] = Valued(val, t)[i]
  <2>1. \A i \in DOMAIN t : Valued(val, t)[i] \in Int
    BY KindsAre
  <2>2. \A i \in DOMAIN t : after[i] = Valued(val, t)[i]
    BY <1>2 DEF Valued
  <2> HIDE DEF old, after
  <2> QED
    BY <1>3, <2>1, <2>2
<1>6. SumFunctionOnSet(after, old) = SumIn(val, t, Q)
  <2>1. SumIn(val, t, Q) = SumFunctionOnSet(Valued(val, t), old)
    BY DEF SumIn
  <2> HIDE DEF old, after
  <2> QED
    BY <1>3, <1>5, <2>1, SumSame
<1>7. after[n] = val[x] /\ val[x] \in Int
  BY <1>2 DEF Valued, Values
<1>8. CASE x \in Q
  <2>1. OfKind(w, Q) = old \cup {n} /\ n \notin old
    BY <1>2, <1>8 DEF OfKind
  <2>2. \A i \in old \cup {n} : after[i] \in Int
    BY <1>2, <1>3, <1>4
  <2>3. SumFunctionOnSet(after, old \cup {n}) = after[n] + SumFunctionOnSet(after, old)
    <3> HIDE DEF old, after
    <3> QED
      BY <1>3, <2>1, <2>2, SumAddOne
  <2>4. SumIn(val, w, Q) = SumFunctionOnSet(after, old \cup {n})
    BY <2>1 DEF SumIn
  <2>5. SumIn(val, t, Q) \in Int
    BY KindsAre
  <2> HIDE DEF old, after
  <2> QED
    BY <1>6, <1>7, <1>8, <2>3, <2>4, <2>5 DEF ValueIn
<1>9. CASE x \notin Q
  <2>1. OfKind(w, Q) = old
    BY <1>2, <1>9 DEF OfKind
  <2>2. SumIn(val, t, Q) \in Int
    BY KindsAre
  <2>3. SumIn(val, w, Q) = SumFunctionOnSet(after, old)
    BY <2>1 DEF SumIn
  <2> HIDE DEF old, after
  <2> QED
    BY <1>6, <1>9, <2>2, <2>3 DEF ValueIn
<1> QED
  BY <1>8, <1>9

LEMMA SumOfOne ==
    ASSUME NEW T, NEW none \in Seq(T), NEW x \in T, NEW w, Lengthened(w, none, x),
           NEW val, Values(val, T), NEW Q, SumIn(val, none, Q) = 0
    PROVE  SumIn(val, w, Q) = ValueIn(val, x, Q)
<1>1. SumIn(val, w, Q) = SumIn(val, none, Q) + ValueIn(val, x, Q)
  BY SumAppended
<1>2. ValueIn(val, x, Q) \in Int
  BY DEF ValueIn, Values
<1> QED
  BY <1>1, <1>2

LEMMA OneRow ==
    ASSUME NEW T, NEW x \in T, NEW w, NEW none, Single(w, none, x)
    PROVE  /\ w \in Seq(T) /\ none \in Seq(T) /\ w = <<x>> /\ Len(w) = 1 /\ w[1] = x
           /\ \A val, Q : Values(val, T) => SumIn(val, w, Q) = IF x \in Q THEN val[x] ELSE 0
<1>1. none \in Seq(T)
  BY EmptySeq DEF Single
<1>2. w = <<x>> /\ Len(w) = 1 /\ w[1] = x
  BY DEF Single
<1>3. w \in Seq(T)
  BY <1>1, RowAdded DEF Single
<1>4. Lengthened(w, none, x)
  BY DEF Lengthened, Single
<1>5. \A val, Q : SumIn(val, none, Q) = 0
  BY SumNone DEF Single
<1>6. \A val, Q : Values(val, T) => SumIn(val, w, Q) = ValueIn(val, x, Q)
  BY <1>1, <1>4, <1>5, SumOfOne
<1> QED
  BY <1>1, <1>2, <1>3, <1>6 DEF ValueIn

(***************************************************************************)
(* The values of a function, listed.                                       *)
(***************************************************************************)
Lists(u, f, S, T) ==
    /\ S = DOMAIN f /\ S \in SUBSET Nat /\ IsFiniteSet(S)
    /\ \A x \in S : f[x] \in T
    /\ u = Listed(f)

InTurn(u, f, S, at, n) ==
    /\ n = Cardinality(S) /\ n \in Nat /\ DOMAIN at = 1 .. n
    /\ u = [k \in 1 .. n |-> f[at[k]]]
    /\ \A k \in 1 .. n : at[k] \in S
    /\ \A j, k \in 1 .. n : at[j] = at[k] => j = k
    /\ \A x \in S : \E k \in 1 .. n : at[k] = x

LEMMA ListedIs ==
    ASSUME NEW T, NEW f, NEW S, NEW u, Lists(u, f, S, T)
    PROVE  \E at, n : InTurn(u, f, S, at, n)
<1>1. PICK at, n : at = Ascending(S) /\ n = Cardinality(S)
  OBVIOUS
<1>2. /\ n \in Nat /\ DOMAIN at = 1 .. n
      /\ \A k \in DOMAIN at : at[k] \in S
      /\ \A j, k \in DOMAIN at : at[j] = at[k] => j = k
      /\ \A x \in S : \E k \in DOMAIN at : at[k] = x
  BY <1>1, AscendingIs DEF Lists
<1>3. u = [k \in 1 .. n |-> f[at[k]]]
  BY <1>1, <1>2 DEF Lists, Listed
<1>4. InTurn(u, f, S, at, n)
  BY <1>1, <1>2, <1>3 DEF InTurn
<1> QED
  BY <1>4

LEMMA ListedRows ==
    ASSUME NEW T, NEW f, NEW S, NEW u, Lists(u, f, S, T)
    PROVE  /\ u \in Seq(T) /\ Len(u) = Cardinality(S) /\ Len(u) \in Nat
           /\ \A k \in DOMAIN u : \E x \in S : u[k] = f[x]
<1>0. PICK at, n : InTurn(u, f, S, at, n)
  BY ListedIs
<1>1. /\ n = Cardinality(S) /\ n \in Nat
      /\ u = [k \in 1 .. n |-> f[at[k]]]
      /\ \A k \in 1 .. n : at[k] \in S
  BY <1>0 DEF InTurn
<1>2. u \in [1 .. n -> T]
  BY <1>1 DEF Lists
<1>3. u \in Seq(T)
  BY <1>1, <1>2, SeqDef
<1>4. Len(u) = n /\ DOMAIN u = 1 .. n
  BY <1>1, <1>3, LenProperties
<1>5. \A k \in DOMAIN u : \E x \in S : u[k] = f[x]
  BY <1>1, <1>4
<1> QED
  BY <1>1, <1>3, <1>4, <1>5

LEMMA ListedSum ==
    ASSUME NEW T, NEW f, NEW S, NEW u, Lists(u, f, S, T), NEW val, Values(val, T), NEW h, \A x \in S : h[x] = val[f[x]],
           NEW Q, NEW P, P = {x \in S : f[x] \in Q}
    PROVE  SumIn(val, u, Q) = SumFunctionOnSet(h, P)
<1>0. PICK at, n : InTurn(u, f, S, at, n)
  BY ListedIs
<1>1. /\ n \in Nat
      /\ u = [k \in 1 .. n |-> f[at[k]]]
      /\ \A k \in 1 .. n : at[k] \in S
      /\ \A j, k \in 1 .. n : at[j] = at[k] => j = k
      /\ \A x \in S : \E k \in 1 .. n : at[k] = x
  BY <1>0 DEF InTurn
<1>2. u \in Seq(T)
  BY ListedRows
<1>3. DOMAIN u = 1 .. n
  BY <1>1
<1> DEFINE K == OfKind(u, Q)
           g == Valued(val, u)
<1>4. IsFiniteSet(K) /\ K \subseteq 1 .. n
  BY <1>2, <1>3, KindsAre
<1>5. \A k \in 1 .. n : g[k] \in Int /\ g[k] = val[f[at[k]]]
  <2>1. \A k \in 1 .. n : g[k] \in Int
    BY <1>2, <1>3, KindsAre
  <2>2. \A k \in 1 .. n : g[k] = val[f[at[k]]]
    BY <1>1, <1>3 DEF Valued
  <2> QED
    BY <2>1, <2>2
<1>6. \A k \in K : g[k] \in Int /\ h[at[k]] = g[k]
  <2> HIDE DEF K, g
  <2> QED
    BY <1>1, <1>4, <1>5
<1>7. \A j, k \in K : at[j] = at[k] => j = k
  <2> HIDE DEF K
  <2> QED
    BY <1>1, <1>4
<1>8. P = {at[k] : k \in K}
  <2>1. K = {k \in 1 .. n : f[at[k]] \in Q}
    BY <1>1, <1>3 DEF OfKind
  <2> HIDE DEF K
  <2> QED
    BY <1>1, <2>1
<1>9. SumFunctionOnSet(h, {at[k] : k \in K}) = SumFunctionOnSet(g, K)
  <2>1. PICK places, plain : places = K /\ plain = g
    OBVIOUS
  <2>2. /\ IsFiniteSet(places) /\ \A j, k \in places : at[j] = at[k] => j = k
        /\ \A k \in places : plain[k] \in Int /\ h[at[k]] = plain[k]
    <3> HIDE DEF K, g
    <3> QED BY <1>4, <1>6, <1>7, <2>1
  <2>3. SumFunctionOnSet(h, {at[k] : k \in places}) = SumFunctionOnSet(plain, places)
    BY <2>2, SumOverPlaces
  <2> HIDE DEF K, g
  <2> QED
    BY <2>1, <2>3
<1>10. SumIn(val, u, Q) = SumFunctionOnSet(g, K)
  BY DEF SumIn
<1> HIDE DEF K, g
<1> QED
  BY <1>8, <1>9, <1>10

-----------------------------------------------------------------------------
(***************************************************************************)
(* The tables, and what their rows refer to.                               *)
(***************************************************************************)
PlacesTyped == seats \in Seq(SeatRow) /\ Len(seats) \in 1 .. MaxSeats

LinesTyped == lines \in Seq(ChargeLine) /\ \A l \in DOMAIN lines : lines[l].enrolment \in DOMAIN seats

MoneyTyped ==
    /\ receipts \in Seq(Nat \ {0})
    /\ rows \in Seq(Allocation)
    /\ \A i \in DOMAIN rows : /\ rows[i].receipt \in DOMAIN receipts
                              /\ rows[i].line \in DOMAIN lines \cup {0}
                              /\ rows[i].enrolment \in DOMAIN seats

TransfersTyped ==
    /\ transfers \in Seq(TransferRow)
    /\ \A t \in DOMAIN transfers :
          /\ transfers[t].from \in DOMAIN seats
          /\ transfers[t].to \in DOMAIN seats \cup {0}
          /\ transfers[t].status = "EXECUTED" => transfers[t].to # 0
          /\ transfers[t].to # 0 => seats[transfers[t].from].status # "LIVE"

(***************************************************************************)
(* A share taken back names the transfer it was taken back for, no other   *)
(* names that transfer.                                                    *)
(***************************************************************************)
OwedTyped ==
    /\ owed \in Seq(Obligation)
    /\ \A o \in DOMAIN owed :
          owed[o].transfer # 0 => /\ owed[o].transfer \in DOMAIN transfers
                                  /\ transfers[owed[o].transfer].from = owed[o].enrolment
                                  /\ transfers[owed[o].transfer].to # 0
    /\ \A o, p \in DOMAIN owed : owed[o].transfer # 0 /\ owed[o].transfer = owed[p].transfer => o = p

MoveTables ==
    /\ approved \in SUBSET Cohorts
    /\ PlacesTyped /\ LinesTyped /\ MoneyTyped /\ TransfersTyped /\ OwedTyped
    /\ claims \in [1 .. MaxSeats -> Nat]

(***************************************************************************)
(* What rows say of themselves.                                            *)
(***************************************************************************)
MovesTell ==
    \A i \in DOMAIN rows :
        /\ rows[i].why = "payment" => rows[i].amount > 0
        /\ rows[i].why = "refund" => rows[i].amount = -1
        /\ rows[i].why = "move" /\ rows[i].amount < 0 => ExecutedFrom(rows[i].enrolment)

(***************************************************************************)
(* Rejected, with no enrolment opened by it.                               *)
(***************************************************************************)
Dead(t) == transfers[t].status = "REJECTED" /\ transfers[t].to = 0

FormShape(q) ==
    q = [op |-> q.op, on |-> q.on, cohort |-> q.cohort, waived |-> q.waived, amount |-> q.amount,
         started |-> q.started, lines |-> q.lines, shares |-> q.shares, overtaken |-> q.overtaken]

(***************************************************************************)
(* What a form is about is there.                                          *)
(***************************************************************************)
FormFits(q) ==
    /\ q.op \in Decisions => q.on \in DOMAIN transfers
    /\ q.op \in {"request", "pay", "leave"} => q.on \in DOMAIN seats
    /\ q.op = "pay" => q.amount > 0
    /\ q.op = "pay" /\ q.started => /\ SumFunction(q.shares) = q.amount
                                    /\ DOMAIN q.shares \subseteq DOMAIN lines \cup {0}
    /\ q.op = "execute" /\ q.started =>
           q.lines \subseteq {l \in DOMAIN lines : lines[l].enrolment = SeatOf(q)}

(***************************************************************************)
(* What a form has read is still so, unless it has been overtaken.         *)
(***************************************************************************)
Undecided(q) == q.overtaken \cap Decisions = {}

FormSees(q) ==
    /\ q.op = "recommend" /\ Undecided(q) => transfers[q.on].status = "PENDING_MANAGER"
    /\ q.op = "execute" /\ Undecided(q) => transfers[q.on].status = "PENDING_FINANCE"
    /\ q.op = "reject" /\ Undecided(q) => transfers[q.on].status # "EXECUTED"
    /\ q.op \in {"recommend", "execute"} /\ "reject" \notin q.overtaken => ~Dead(q.on)
    /\ q.op = "execute" /\ "execute" \notin q.overtaken =>
           /\ ~ExecutedFrom(SeatOf(q))
           /\ q.started => q.lines = LinesOf(SeatOf(q))

FormSound(q) == IsForm(q) /\ FormShape(q) /\ FormFits(q) /\ FormSees(q)

FormsSound == form = [d \in Desks |-> form[d]] /\ \A d \in Desks : FormSound(form[d])

(***************************************************************************)
(* Enrolments moved away from are empty, and a payment on its way is to    *)
(* none of them.                                                           *)
(***************************************************************************)
Spared(q) == q.op = "pay" /\ "execute" \notin q.overtaken => ~ExecutedFrom(q.on)

MovedAlone == outdated \cap ({"pay", "execute"} \X {"execute"}) = {}

Emptied ==
    MovedAlone =>
        /\ \A e \in DOMAIN seats : ExecutedFrom(e) => Collected(e) = 0 /\ LinesOf(e) = {}
        /\ \A d \in Desks : Spared(form[d])

(***************************************************************************)
(* The executions in flight are all from the one seat that is taken.       *)
(***************************************************************************)
Executing(d) == Handling(d, "execute") /\ "execute" \notin form[d].overtaken

LiveSeats == {e \in DOMAIN seats : seats[e].status = "LIVE"}

MovedOnce == <<"execute", "execute">> \notin outdated

Seated ==
    MovedOnce =>
        /\ \A e, f \in LiveSeats : e = f
        /\ \A d \in Desks : Executing(d) => \A e \in LiveSeats : e = SeatOf(form[d])
        /\ \A d, x \in Desks : Executing(d) /\ Executing(x) => SeatOf(form[d]) = SeatOf(form[x])

(***************************************************************************)
(* The first enrolment has its tuition and its registration fee until it   *)
(* is moved away from.                                                     *)
(***************************************************************************)
FirstLines ==
    /\ {1, 2} \subseteq DOMAIN lines
    /\ lines[1].type = "TUITION" /\ lines[2].type = "REGISTRATION"
    /\ \A l \in DOMAIN lines : lines[l].enrolment = 1 <=> l \in {1, 2}

Priced ==
    /\ FirstLines
    /\ ExecutedFrom(1) \/ (~lines[1].voided /\ ~lines[2].voided)
    /\ PricedAtFirst

(***************************************************************************)
(* From one enrolment one transfer at most is alive.                       *)
(***************************************************************************)
Fresh(q) ==
    q.op = "request" /\ "request" \notin q.overtaken =>
        \A t \in DOMAIN transfers : transfers[t].from = q.on => Dead(t)

AliveOnce ==
    outdated \cap ({<<"request", "request">>} \cup ({"recommend", "execute"} \X {"reject"})) = {}

Alive ==
    AliveOnce =>
        /\ \A t, u \in DOMAIN transfers :
              transfers[t].from = transfers[u].from => t = u \/ Dead(t) \/ Dead(u)
        /\ \A d \in Desks : Fresh(form[d])

TransferInv ==
    /\ MoveTables /\ MovesTell /\ FormsSound
    /\ outdated \in SUBSET (TransferOps \X TransferOps)
    /\ MoneyStays /\ Emptied /\ Seated /\ Priced /\ Alive

-----------------------------------------------------------------------------
(* Forms. *)

LEMMA BlankIs ==
    /\ Blank = [op |-> "none", on |-> 0, cohort |-> Blank.cohort, waived |-> FALSE, amount |-> 0,
                started |-> FALSE, lines |-> {}, shares |-> <<>>, overtaken |-> {}]
    /\ Blank.cohort \in Cohorts
<1>1. Blank.cohort = CHOOSE c \in Cohorts : TRUE
  BY DEF Blank
<1>2. (CHOOSE c \in Cohorts : TRUE) \in Cohorts
  BY TransferAssumption
<1> QED
  BY <1>1, <1>2 DEF Blank

LEMMA BlankSound == FormSound(Blank) /\ Spared(Blank) /\ Fresh(Blank)
<1>1. /\ Blank.op = "none" /\ Blank.on = 0 /\ Blank.cohort \in Cohorts /\ Blank.waived = FALSE
      /\ Blank.amount = 0 /\ Blank.started = FALSE /\ Blank.lines = {} /\ Blank.shares = <<>>
      /\ Blank.overtaken = {}
  BY BlankIs
<1>2. IsForm(Blank)
  <2>1. DOMAIN Blank.shares = {}
    BY <1>1
  <2>2. {Blank.waived, Blank.started} \subseteq BOOLEAN
    BY <1>1
  <2>3. {Blank.on, Blank.amount} \subseteq Nat
    BY <1>1
  <2>4. Blank.overtaken \in SUBSET TransferOps /\ Blank.lines \in SUBSET Nat
    BY <1>1
  <2> QED
    BY <1>1, <2>1, <2>2, <2>3, <2>4 DEF IsForm
<1>3. FormShape(Blank)
  BY BlankIs, <1>1 DEF FormShape
<1>4. FormFits(Blank) /\ FormSees(Blank)
  BY <1>1 DEF FormFits, FormSees, Decisions
<1> QED
  BY <1>1, <1>2, <1>3, <1>4 DEF FormSound, Spared, Fresh

(***************************************************************************)
(* What a form needs of the tables.                                        *)
(***************************************************************************)
LEMMA SameForms ==
    ASSUME DOMAIN seats' = DOMAIN seats, lines' = lines, transfers' = transfers
    PROVE  /\ \A q : FormSound(q)' <=> FormSound(q)
           /\ \A q : Fresh(q)' <=> Fresh(q)
           /\ \A q : Spared(q)' <=> Spared(q)
           /\ \A q : SeatOf(q)' = SeatOf(q)
           /\ \A e : ExecutedFrom(e)' <=> ExecutedFrom(e)
           /\ \A e : LinesOf(e)' = LinesOf(e)
<1>1. \A t : Dead(t)' <=> Dead(t)
  BY DEF Dead
<1>2. \A q : SeatOf(q)' = SeatOf(q)
  BY DEF SeatOf
<1>3. \A e : ExecutedFrom(e)' <=> ExecutedFrom(e)
  BY DEF ExecutedFrom
<1>4. \A e : LinesOf(e)' = LinesOf(e)
  BY DEF LinesOf
<1>5. \A q : Fresh(q)' <=> Fresh(q)
  BY <1>1 DEF Fresh
<1>6. \A q : Spared(q)' <=> Spared(q)
  BY <1>3 DEF Spared
<1>7. ASSUME NEW q PROVE FormSound(q)' <=> FormSound(q)
  <2>1. PICK e : e = SeatOf(q)
    OBVIOUS
  <2>2. e = SeatOf(q)'
    BY <1>2, <2>1
  <2>3. FormFits(q)' <=> FormFits(q)
    BY <2>1, <2>2 DEF FormFits
  <2>4. FormSees(q)' <=> FormSees(q)
    <3>1. ExecutedFrom(SeatOf(q))' <=> ExecutedFrom(SeatOf(q))
      BY <1>3, <2>1, <2>2
    <3>2. LinesOf(SeatOf(q))' = LinesOf(SeatOf(q))
      BY <1>4, <2>1, <2>2
    <3> QED
      BY <1>1, <3>1, <3>2 DEF FormSees, Undecided
  <2> QED
    BY <2>3, <2>4 DEF FormSound, IsForm, FormShape
<1> QED
  BY <1>2, <1>3, <1>4, <1>5, <1>6, <1>7

(***************************************************************************)
(* A desk takes up a form, takes more reads into it or drops it; nothing   *)
(* else changes.                                                           *)
(***************************************************************************)
Executes(q) == q.op = "execute" /\ "execute" \notin q.overtaken

Set(d, q) ==
    /\ form' = [form EXCEPT ![d] = q]
    /\ approved' = approved /\ seats' = seats /\ lines' = lines /\ receipts' = receipts
    /\ rows' = rows /\ claims' = claims /\ owed' = owed /\ transfers' = transfers
    /\ outdated' = outdated

Suits(q) ==
    /\ FormSound(q)
    /\ MovedAlone => Spared(q)
    /\ MovedOnce /\ Executes(q) =>
           /\ \A e \in LiveSeats : e = SeatOf(q)
           /\ \A x \in Desks : Executing(x) => SeatOf(form[x]) = SeatOf(q)
    /\ AliveOnce => Fresh(q)

LEMMA TablesStay ==
    ASSUME MoveTables, MovesTell, Priced, MoneyStays,
           approved' = approved /\ seats' = seats /\ lines' = lines /\ receipts' = receipts,
           rows' = rows /\ claims' = claims /\ owed' = owed /\ transfers' = transfers,
           outdated' = outdated
    PROVE  MoveTables' /\ MovesTell' /\ Priced' /\ MoneyStays'
<1>1. MoveTables'
  BY DEF MoveTables, PlacesTyped, LinesTyped, MoneyTyped, TransfersTyped, OwedTyped
<1>2. \A e : ExecutedFrom(e)' <=> ExecutedFrom(e)
  BY DEF ExecutedFrom
<1>3. MovesTell'
  <2>1. ASSUME NEW i \in DOMAIN rows, rows[i].why = "move", rows[i].amount < 0
        PROVE  ExecutedFrom(rows[i].enrolment)'
    <3>1. PICK e : e = rows[i].enrolment
      OBVIOUS
    <3>2. ExecutedFrom(e)'
      BY <1>2, <2>1, <3>1 DEF MovesTell
    <3> QED
      BY <3>1, <3>2 DEF ExecutedFrom
  <2> QED
    BY <2>1 DEF MovesTell
<1>4. Priced'
  <2>1. FirstLines'
    BY DEF Priced, FirstLines
  <2>2. \A e : LinesOf(e)' = LinesOf(e)
    BY DEF LinesOf
  <2>3. \A S : Gross(S)' = Gross(S)
    BY DEF Gross
  <2>4. PricedAtFirst'
    BY DEF Priced, PricedAtFirst, TuitionOf, LinesOf, Gross
  <2> QED
    BY <1>2, <2>1, <2>4 DEF Priced
<1>5. MoneyStays'
  BY DEF MoneyStays, ExecutedFrom, Refunded, RefundedOf, Allocated
<1> QED
  BY <1>1, <1>3, <1>4, <1>5

LEMMA SetKeeps ==
    ASSUME TransferInv, NEW d \in Desks, NEW q, Suits(q), Set(d, q)
    PROVE  TransferInv'
<1>1. MoveTables' /\ MovesTell' /\ Priced' /\ MoneyStays'
  BY TablesStay DEF TransferInv, Set
<1>2. /\ \A r : FormSound(r)' <=> FormSound(r)
      /\ \A r : Fresh(r)' <=> Fresh(r)
      /\ \A r : Spared(r)' <=> Spared(r)
      /\ \A r : SeatOf(r)' = SeatOf(r)
      /\ \A e : ExecutedFrom(e)' <=> ExecutedFrom(e)
      /\ \A e : LinesOf(e)' = LinesOf(e)
  BY SameForms DEF Set
<1>3. /\ form' = [x \in Desks |-> form'[x]]
      /\ \A x \in Desks : form'[x] = IF x = d THEN q ELSE form[x]
      /\ \A x \in Desks : FormSound(form[x])
  BY DEF TransferInv, FormsSound, Set
<1>4. FormsSound'
  <2>1. ASSUME NEW x \in Desks PROVE FormSound(form[x])'
    <3>1. PICK r : r = form'[x]
      OBVIOUS
    <3>2. FormSound(r)
      BY <1>3, <3>1 DEF Suits
    <3>3. FormSound(r)'
      BY <1>2, <3>2
    <3> QED
      BY <3>1, <3>3
  <2> QED
    BY <1>3, <2>1 DEF FormsSound
<1>5. Emptied'
  <2>1. MovedAlone' <=> MovedAlone
    BY DEF MovedAlone, Set
  <2>2. ASSUME MovedAlone, NEW x \in Desks PROVE Spared(form[x])'
    <3>1. PICK r : r = form'[x]
      OBVIOUS
    <3>2. Spared(r)
      BY <1>3, <2>2, <3>1 DEF Suits, TransferInv, Emptied
    <3>3. Spared(r)'
      BY <1>2, <3>2
    <3> QED
      BY <3>1, <3>3
  <2>3. \A e : Collected(e)' = Collected(e)
    BY DEF Collected, Allocated, RowsOf, Set
  <2>4. DOMAIN seats' = DOMAIN seats
    BY DEF Set
  <2> QED
    BY <1>2, <2>1, <2>2, <2>3, <2>4 DEF Emptied, TransferInv
<1>6. Seated'
  <2>1. MovedOnce' <=> MovedOnce
    BY DEF MovedOnce, Set
  <2>2. LiveSeats' = LiveSeats
    BY DEF LiveSeats, Set
  <2>3. \A x \in Desks : Executing(x) <=> Executes(form[x])
    BY DEF Executing, Executes, Handling
  <2>4. \A x \in Desks : Executing(x)' <=> Executes(form'[x])
    BY DEF Executing, Executes, Handling
  <2>5. ASSUME NEW x \in Desks PROVE SeatOf(form[x])' = SeatOf(form'[x])
    <3>1. PICK r : r = form'[x]
      OBVIOUS
    <3>2. SeatOf(r)' = SeatOf(r)
      BY <1>2
    <3> QED
      BY <3>1, <3>2
  <2>6. ASSUME MovedOnce, NEW x \in Desks, Executing(x)'
        PROVE  /\ \A e \in LiveSeats : e = SeatOf(form'[x])
               /\ \A y \in Desks : Executing(y) => SeatOf(form[y]) = SeatOf(form'[x])
    <3>1. CASE x = d
      BY <1>3, <2>4, <2>6, <3>1 DEF Suits
    <3>2. CASE x # d
      <4>1. form'[x] = form[x]
        BY <1>3, <3>2
      <4>2. Executing(x)
        BY <2>3, <2>4, <2>6, <4>1
      <4> QED
        BY <2>6, <4>1, <4>2 DEF TransferInv, Seated
    <3> QED
      BY <3>1, <3>2
  <2>7. ASSUME MovedOnce, NEW x \in Desks, NEW y \in Desks, Executing(x)', Executing(y)'
        PROVE  SeatOf(form'[x]) = SeatOf(form'[y])
    <3>1. CASE x # d
      <4>1. form'[x] = form[x]
        BY <1>3, <3>1
      <4>2. Executing(x)
        BY <2>3, <2>4, <2>7, <4>1
      <4> QED
        BY <2>6, <2>7, <4>1, <4>2
    <3>2. CASE y # d
      <4>1. form'[y] = form[y]
        BY <1>3, <3>2
      <4>2. Executing(y)
        BY <2>3, <2>4, <2>7, <4>1
      <4> QED
        BY <2>6, <2>7, <4>1, <4>2
    <3> QED
      BY <3>1, <3>2
  <2>8. \A e, f \in LiveSeats : MovedOnce => e = f
    BY DEF TransferInv, Seated
  <2> QED
    BY <2>1, <2>2, <2>5, <2>6, <2>7, <2>8 DEF Seated
<1>7. Alive'
  <2>1. AliveOnce' <=> AliveOnce
    BY DEF AliveOnce, Set
  <2>2. ASSUME AliveOnce, NEW x \in Desks PROVE Fresh(form[x])'
    <3>1. PICK r : r = form'[x]
      OBVIOUS
    <3>2. Fresh(r)
      BY <1>3, <2>2, <3>1 DEF Suits, TransferInv, Alive
    <3>3. Fresh(r)'
      BY <1>2, <3>2
    <3> QED
      BY <3>1, <3>3
  <2>3. \A t : Dead(t)' <=> Dead(t)
    BY DEF Dead, Set
  <2>4. transfers' = transfers
    BY DEF Set
  <2> QED
    BY <2>1, <2>2, <2>3, <2>4 DEF Alive, TransferInv
<1>8. outdated' \in SUBSET (TransferOps \X TransferOps)
  BY DEF TransferInv, Set
<1> QED
  BY <1>1, <1>4, <1>5, <1>6, <1>7, <1>8 DEF TransferInv

(***************************************************************************)
(* A form just posted.                                                     *)
(***************************************************************************)
Drafted(q, op, n, c, w, a) ==
    q = [op |-> op, on |-> n, cohort |-> c, waived |-> w, amount |-> a, started |-> FALSE,
         lines |-> {}, shares |-> <<>>, overtaken |-> {}]

IsFlag(w) == w \in BOOLEAN

LEMMA BlankFilled ==
    ASSUME NEW op, NEW n
    PROVE  /\ \A q : q = [Blank EXCEPT !.op = op, !.on = n]
                        => Drafted(q, op, n, Blank.cohort, FALSE, 0)
           /\ \A q, a : q = [Blank EXCEPT !.op = op, !.on = n, !.amount = a]
                           => Drafted(q, op, n, Blank.cohort, FALSE, a)
           /\ \A q, c, w : q = [Blank EXCEPT !.op = op, !.on = n, !.cohort = c, !.waived = w]
                              => Drafted(q, op, n, c, w, 0)
<1>1. PICK b : b = Blank
  OBVIOUS
<1>2. /\ b.waived = FALSE /\ b.amount = 0 /\ b.started = FALSE /\ b.lines = {}
      /\ b.shares = <<>> /\ b.overtaken = {}
  BY <1>1, BlankIs
<1>3. FormShape(b)
  BY <1>1, BlankSound DEF FormSound
<1>4. ASSUME NEW q, q = [b EXCEPT !.op = op, !.on = n]
      PROVE  Drafted(q, op, n, b.cohort, FALSE, 0)
  <2>1. q = [op |-> op, on |-> n, cohort |-> b.cohort, waived |-> b.waived, amount |-> b.amount,
             started |-> b.started, lines |-> b.lines, shares |-> b.shares, overtaken |-> b.overtaken]
    BY <1>3, <1>4 DEF FormShape
  <2> QED
    BY <1>2, <2>1, Zenon DEF Drafted
<1>5. ASSUME NEW q, NEW a, q = [b EXCEPT !.op = op, !.on = n, !.amount = a]
      PROVE  Drafted(q, op, n, b.cohort, FALSE, a)
  <2>1. q = [op |-> op, on |-> n, cohort |-> b.cohort, waived |-> b.waived, amount |-> a,
             started |-> b.started, lines |-> b.lines, shares |-> b.shares, overtaken |-> b.overtaken]
    BY <1>3, <1>5 DEF FormShape
  <2> QED
    BY <1>2, <2>1, Zenon DEF Drafted
<1>6. ASSUME NEW q, NEW c, NEW w, q = [b EXCEPT !.op = op, !.on = n, !.cohort = c, !.waived = w]
      PROVE  Drafted(q, op, n, c, w, 0)
  <2>1. q = [op |-> op, on |-> n, cohort |-> c, waived |-> w, amount |-> b.amount,
             started |-> b.started, lines |-> b.lines, shares |-> b.shares, overtaken |-> b.overtaken]
    BY <1>3, <1>6 DEF FormShape
  <2> QED
    BY <1>2, <2>1, Zenon DEF Drafted
<1> QED
  BY <1>1, <1>4, <1>5, <1>6

LEMMA DraftedIs ==
    ASSUME NEW q, NEW op \in TransferOps, NEW n \in Nat, NEW c \in Cohorts, NEW w, IsFlag(w),
           NEW a \in Nat, Drafted(q, op, n, c, w, a)
    PROVE  /\ IsForm(q) /\ FormShape(q)
           /\ q.op = op /\ q.on = n /\ q.amount = a /\ q.started = FALSE /\ q.overtaken = {}
<1>1. /\ q.op = op /\ q.on = n /\ q.cohort = c /\ q.waived = w /\ q.amount = a
      /\ q.started = FALSE /\ q.lines = {} /\ q.shares = <<>> /\ q.overtaken = {}
  BY DEF Drafted
<1>2. FormShape(q)
  BY <1>1 DEF FormShape, Drafted
<1>3. IsForm(q)
  <2>1. DOMAIN q.shares = {}
    BY <1>1
  <2>2. {q.waived, q.started} \subseteq BOOLEAN
    BY <1>1 DEF IsFlag
  <2>3. {q.on, q.amount} \subseteq Nat
    BY <1>1
  <2>4. q.overtaken \in SUBSET TransferOps /\ q.lines \in SUBSET Nat
    BY <1>1
  <2> QED
    BY <1>1, <2>1, <2>2, <2>3, <2>4 DEF IsForm
<1> QED
  BY <1>1, <1>2, <1>3

LEMMA BeginIs ==
    ASSUME NEW d \in Desks, NEW q, BeginForm(d, q)
    PROVE  Set(d, q)
  BY DEF BeginForm, Set, money, partner

LEMMA SeatsThere ==
    ASSUME TransferInv
    PROVE  /\ Len(seats) \in Nat /\ DOMAIN seats = 1 .. Len(seats) /\ Len(seats) <= MaxSeats
           /\ 1 \in DOMAIN seats /\ MaxSeats \in Nat
           /\ \A e \in DOMAIN seats : e \in Nat /\ e \in 1 .. MaxSeats /\ seats[e] \in SeatRow
           /\ Len(seats) + 1 \notin DOMAIN seats
<1>1. seats \in Seq(SeatRow) /\ Len(seats) \in 1 .. MaxSeats /\ MaxSeats \in Nat
  BY TransferAssumption DEF TransferInv, MoveTables, PlacesTyped
<1>2. DOMAIN seats = 1 .. Len(seats) /\ Len(seats) \in Nat /\ \A e \in DOMAIN seats : seats[e] \in SeatRow
  BY <1>1, LenProperties
<1> QED
  BY <1>1, <1>2

LEMMA TransfersThere ==
    ASSUME TransferInv
    PROVE  /\ Len(transfers) \in Nat /\ DOMAIN transfers = 1 .. Len(transfers)
           /\ Len(transfers) + 1 \notin DOMAIN transfers
           /\ \A t \in DOMAIN transfers :
                 /\ t \in Nat /\ transfers[t] \in TransferRow
                 /\ transfers[t].from \in DOMAIN seats /\ transfers[t].to \in DOMAIN seats \cup {0}
                 /\ transfers[t].cohort \in Cohorts
                 /\ transfers[t].to # 0 => seats[transfers[t].from].status # "LIVE"
<1>1. transfers \in Seq(TransferRow)
  BY DEF TransferInv, MoveTables, TransfersTyped
<1>2. /\ DOMAIN transfers = 1 .. Len(transfers) /\ Len(transfers) \in Nat
      /\ \A t \in DOMAIN transfers : transfers[t] \in TransferRow
  BY <1>1, LenProperties
<1>3. \A t \in DOMAIN transfers :
                 /\ transfers[t].from \in DOMAIN seats /\ transfers[t].to \in DOMAIN seats \cup {0}
                 /\ transfers[t].to # 0 => seats[transfers[t].from].status # "LIVE"
  BY DEF TransferInv, MoveTables, TransfersTyped
<1>4. \A t \in DOMAIN transfers : transfers[t].cohort \in Cohorts
  BY <1>2 DEF TransferRow
<1>5. Len(transfers) + 1 \notin DOMAIN transfers /\ \A t \in DOMAIN transfers : t \in Nat
  BY <1>2
<1> QED
  BY <1>2, <1>3, <1>4, <1>5

LEMMA Abandoned ==
    ASSUME TransferInv, NEW d \in Desks, DropForm(d)
    PROVE  TransferInv'
<1>1. Set(d, Blank)
  BY DEF DropForm, Set, money, partner
<1>2. Suits(Blank)
  BY BlankIs, BlankSound DEF Suits, Executes
<1> QED
  BY <1>1, <1>2, SetKeeps

LEMMA LeaveRead ==
    ASSUME TransferInv, NEW d \in Desks, NEW e \in DOMAIN seats, ReadLeave(d, e)
    PROVE  TransferInv'
<1>1. PICK q : q = [Blank EXCEPT !.op = "leave", !.on = e]
  OBVIOUS
<1>2. Set(d, q)
  BY <1>1, BeginIs DEF ReadLeave
<1>3. Drafted(q, "leave", e, Blank.cohort, FALSE, 0)
  BY <1>1, BlankFilled
<1>4. /\ IsForm(q) /\ FormShape(q)
      /\ q.op = "leave" /\ q.on = e /\ q.started = FALSE /\ q.overtaken = {}
  BY <1>3, BlankIs, SeatsThere, DraftedIs DEF TransferOps, IsFlag
<1>5. Suits(q)
  BY <1>4 DEF Suits, FormSound, FormFits, FormSees, Spared, Fresh, Executes, Decisions
<1> QED
  BY <1>2, <1>5, SetKeeps

(***************************************************************************)
(* An enrolment that owes has not been moved away from, or it would be     *)
(* empty.                                                                  *)
(***************************************************************************)
LEMMA EmptyOwesNothing ==
    ASSUME NEW e, Collected(e) = 0, LinesOf(e) = {}
    PROVE  Balance(e) = 0
<1>1. Gross(LinesOf(e)) = 0
  BY SumFirst, FS_EmptySet DEF Gross
<1> QED
  BY <1>1 DEF Balance

LEMMA PaymentRead ==
    ASSUME TransferInv, NEW d \in Desks, NEW e \in Payable, NEW amount \in Payments,
           ReadPayment(d, e, amount)
    PROVE  TransferInv'
<1>1. PICK q : q = [Blank EXCEPT !.op = "pay", !.on = e, !.amount = amount]
  OBVIOUS
<1>2. Set(d, q)
  BY <1>1, BeginIs DEF ReadPayment
<1>3. Drafted(q, "pay", e, Blank.cohort, FALSE, amount)
  BY <1>1, BlankFilled
<1>4. amount \in Nat /\ amount > 0
  BY TransferAssumption
<1>5. e \in DOMAIN seats /\ e \in Nat /\ Balance(e) > 0
  BY SeatsThere DEF Payable
<1>6. /\ IsForm(q) /\ FormShape(q) /\ q.amount = amount
      /\ q.op = "pay" /\ q.on = e /\ q.started = FALSE /\ q.overtaken = {}
  BY <1>3, <1>4, <1>5, BlankIs, DraftedIs DEF TransferOps, IsFlag
<1>7. FormSound(q)
  BY <1>4, <1>5, <1>6 DEF FormSound, FormFits, FormSees, Decisions
<1>8. MovedAlone => Spared(q)
  <2>1. ASSUME MovedAlone PROVE ~ExecutedFrom(e)
    <3>1. ExecutedFrom(e) => Collected(e) = 0 /\ LinesOf(e) = {}
      BY <1>5, <2>1 DEF TransferInv, Emptied
    <3>2. ~(Collected(e) = 0 /\ LinesOf(e) = {})
      BY <1>5, EmptyOwesNothing
    <3> QED
      BY <3>1, <3>2
  <2> QED
    BY <1>6, <2>1 DEF Spared
<1>9. Suits(q)
  BY <1>6, <1>7, <1>8 DEF Suits, Fresh, Executes
<1> QED
  BY <1>2, <1>9, SetKeeps

(***************************************************************************)
(* Nothing has been moved from the live enrolment a transfer is requested  *)
(* from, so that the transfers from it are all dead.                       *)
(***************************************************************************)
LEMMA RequestRead ==
    ASSUME TransferInv, NEW d \in Desks, NEW e \in DOMAIN seats, NEW c \in Cohorts,
           NEW waived \in BOOLEAN, ReadRequest(d, e, c, waived)
    PROVE  TransferInv'
<1>1. PICK q : q = [Blank EXCEPT !.op = "request", !.on = e, !.cohort = c, !.waived = waived]
  OBVIOUS
<1>2. Set(d, q)
  BY <1>1, BeginIs DEF ReadRequest
<1>3. Drafted(q, "request", e, c, waived, 0)
  BY <1>1, BlankFilled
<1>4. /\ IsForm(q) /\ FormShape(q)
      /\ q.op = "request" /\ q.on = e /\ q.started = FALSE /\ q.overtaken = {}
  <2>1. "request" \in TransferOps /\ e \in Nat /\ 0 \in Nat
    BY SeatsThere DEF TransferOps
  <2>2. IsFlag(waived)
    BY DEF IsFlag
  <2> QED
    BY <1>3, <2>1, <2>2, DraftedIs, Zenon
<1>5. seats[e].status = "LIVE" /\ ~InFlight(e)
  BY DEF ReadRequest, Transferable
<1>6. \A t \in DOMAIN transfers : transfers[t].from = e => Dead(t)
  BY <1>5, TransfersThere DEF InFlight, Dead
<1>7. Suits(q)
  BY <1>4, <1>6 DEF Suits, FormSound, FormFits, FormSees, Spared, Fresh, Executes, Decisions
<1> QED
  BY <1>2, <1>7, SetKeeps

Asked(d, q, op, t) ==
    /\ Set(d, q) /\ IsForm(q) /\ FormShape(q) /\ FormFits(q)
    /\ q.op = op /\ q.on = t /\ q.started = FALSE /\ q.overtaken = {}
    /\ Spared(q) /\ Fresh(q) /\ SeatOf(q) = transfers[t].from

LEMMA DecisionRead ==
    ASSUME TransferInv, NEW d \in Desks, NEW op \in Decisions, NEW t \in DOMAIN transfers,
           ReadDecision(d, op, t)
    PROVE  \E q : Asked(d, q, op, t)
<1>1. PICK q : q = [Blank EXCEPT !.op = op, !.on = t]
  OBVIOUS
<1>2. Set(d, q)
  BY <1>1, BeginIs DEF ReadDecision
<1>3. Drafted(q, op, t, Blank.cohort, FALSE, 0)
  BY <1>1, BlankFilled
<1>4. op \in TransferOps /\ op \notin {"pay", "request", "leave"}
  BY DEF TransferOps, Decisions
<1>5. /\ IsForm(q) /\ FormShape(q)
      /\ q.op = op /\ q.on = t /\ q.started = FALSE /\ q.overtaken = {}
  BY <1>3, <1>4, BlankIs, TransfersThere, DraftedIs DEF IsFlag
<1>6. FormFits(q) /\ Spared(q) /\ Fresh(q) /\ SeatOf(q) = transfers[t].from
  BY <1>4, <1>5 DEF FormFits, Spared, Fresh, SeatOf
<1> QED
  BY <1>2, <1>5, <1>6 DEF Asked

LEMMA RecommendRead ==
    ASSUME TransferInv, NEW d \in Desks, NEW t \in DOMAIN transfers, ReadRecommend(d, t)
    PROVE  TransferInv'
<1>1. "recommend" \in Decisions /\ ReadDecision(d, "recommend", t)
  BY DEF ReadRecommend, Decisions
<1>2. \E q : Asked(d, q, "recommend", t)
  BY <1>1, DecisionRead
<1>3. PICK q : Asked(d, q, "recommend", t)
  BY <1>2
<1>4. /\ Set(d, q) /\ IsForm(q) /\ FormShape(q) /\ FormFits(q)
      /\ q.op = "recommend" /\ q.on = t /\ q.started = FALSE /\ q.overtaken = {}
      /\ Spared(q) /\ Fresh(q) /\ SeatOf(q) = transfers[t].from
  BY <1>3 DEF Asked
<1>5. transfers[t].status = "PENDING_MANAGER"
  BY DEF ReadRecommend
<1>6. Suits(q)
  BY <1>4, <1>5 DEF Suits, FormSound, FormSees, Executes, Dead
<1> QED
  BY <1>4, <1>6, SetKeeps

LEMMA RejectionRead ==
    ASSUME TransferInv, NEW d \in Desks, NEW t \in DOMAIN transfers, ReadRejection(d, t)
    PROVE  TransferInv'
<1>1. "reject" \in Decisions /\ ReadDecision(d, "reject", t)
  BY DEF ReadRejection, Decisions
<1>2. \E q : Asked(d, q, "reject", t)
  BY <1>1, DecisionRead
<1>3. PICK q : Asked(d, q, "reject", t)
  BY <1>2
<1>4. /\ Set(d, q) /\ IsForm(q) /\ FormShape(q) /\ FormFits(q)
      /\ q.op = "reject" /\ q.on = t /\ q.started = FALSE /\ q.overtaken = {}
      /\ Spared(q) /\ Fresh(q) /\ SeatOf(q) = transfers[t].from
  BY <1>3 DEF Asked
<1>5. transfers[t].status # "EXECUTED"
  BY DEF ReadRejection
<1>6. Suits(q)
  BY <1>4, <1>5 DEF Suits, FormSound, FormSees, Executes, Dead
<1> QED
  BY <1>4, <1>6, SetKeeps

(***************************************************************************)
(* A live enrolment is the one seat taken, and nothing was moved from it.  *)
(***************************************************************************)
LEMMA ExecuteRead ==
    ASSUME TransferInv, NEW d \in Desks, NEW t \in DOMAIN transfers, ReadExecute(d, t)
    PROVE  TransferInv'
<1>1. "execute" \in Decisions /\ ReadDecision(d, "execute", t)
  BY DEF ReadExecute, Decisions
<1>2. \E q : Asked(d, q, "execute", t)
  BY <1>1, DecisionRead
<1>3. PICK q : Asked(d, q, "execute", t)
  BY <1>2
<1>4. /\ Set(d, q) /\ IsForm(q) /\ FormShape(q) /\ FormFits(q)
      /\ q.op = "execute" /\ q.on = t /\ q.started = FALSE /\ q.overtaken = {}
      /\ Spared(q) /\ Fresh(q) /\ SeatOf(q) = transfers[t].from
  BY <1>3 DEF Asked
<1>5. transfers[t].status = "PENDING_FINANCE" /\ seats[transfers[t].from].status = "LIVE"
  BY DEF ReadExecute
<1>6. PICK e : e = transfers[t].from
  OBVIOUS
<1>7. e \in LiveSeats
  BY <1>5, <1>6, TransfersThere DEF LiveSeats
<1>8. ~ExecutedFrom(SeatOf(q))
  BY <1>4, <1>5, TransfersThere DEF ExecutedFrom
<1>9. FormSees(q)
  BY <1>4, <1>5, <1>8 DEF FormSees, Dead
<1>10. ASSUME MovedOnce
      PROVE  /\ \A f \in LiveSeats : f = SeatOf(q)
             /\ \A x \in Desks : Executing(x) => SeatOf(form[x]) = SeatOf(q)
  <2>1. \A f \in LiveSeats : f = e
    BY <1>7, <1>10 DEF TransferInv, Seated
  <2>2. \A x \in Desks : Executing(x) => SeatOf(form[x]) = e
    BY <1>7, <1>10 DEF TransferInv, Seated
  <2> QED
    BY <1>4, <1>6, <2>1, <2>2
<1>11. Suits(q)
  BY <1>4, <1>9, <1>10 DEF Suits, FormSound
<1> QED
  BY <1>4, <1>11, SetKeeps

-----------------------------------------------------------------------------
(* Rows and what they come to. *)

LEMMA LinesThere ==
    ASSUME LinesTyped
    PROVE  /\ Len(lines) \in Nat /\ DOMAIN lines = 1 .. Len(lines) /\ IsFiniteSet(DOMAIN lines)
           /\ DOMAIN lines \subseteq Nat \ {0}
           /\ \A l \in DOMAIN lines : /\ lines[l] \in ChargeLine /\ lines[l].gross \in Nat
                                      /\ lines[l].enrolment \in DOMAIN seats
                                      /\ lines[l].type \in Range(AllocationOrder)
<1>1. DOMAIN lines = 1 .. Len(lines) /\ Len(lines) \in Nat /\ \A l \in DOMAIN lines : lines[l] \in ChargeLine
  BY LenProperties DEF LinesTyped
<1>2. IsFiniteSet(DOMAIN lines)
  BY <1>1, FS_Interval
<1>3. \A l \in DOMAIN lines : lines[l].gross \in Nat /\ lines[l].type \in Range(AllocationOrder)
  BY <1>1 DEF ChargeLine
<1> QED
  BY <1>1, <1>2, <1>3 DEF LinesTyped

LEMMA RowsThere ==
    ASSUME MoneyTyped
    PROVE  /\ Len(rows) \in Nat /\ DOMAIN rows = 1 .. Len(rows) /\ IsFiniteSet(DOMAIN rows)
           /\ DOMAIN rows \subseteq Nat \ {0}
           /\ \A i \in DOMAIN rows : /\ rows[i] \in Allocation /\ rows[i].amount \in Int
                                     /\ rows[i].amount # 0
                                     /\ rows[i].receipt \in DOMAIN receipts
                                     /\ rows[i].line \in DOMAIN lines \cup {0}
                                     /\ rows[i].enrolment \in DOMAIN seats
                                     /\ rows[i].why \in {"payment", "refund", "move"}
<1>1. DOMAIN rows = 1 .. Len(rows) /\ Len(rows) \in Nat /\ \A i \in DOMAIN rows : rows[i] \in Allocation
  BY LenProperties DEF MoneyTyped
<1>2. IsFiniteSet(DOMAIN rows)
  BY <1>1, FS_Interval
<1>3. \A i \in DOMAIN rows : rows[i].amount \in Int /\ rows[i].amount # 0 /\ rows[i].why \in {"payment", "refund", "move"}
  BY <1>1 DEF Allocation
<1> QED
  BY <1>1, <1>2, <1>3 DEF MoneyTyped

LEMMA ReceiptsThere ==
    ASSUME MoneyTyped
    PROVE  /\ Len(receipts) \in Nat /\ DOMAIN receipts = 1 .. Len(receipts)
           /\ Len(receipts) + 1 \notin DOMAIN receipts /\ Len(receipts) + 1 \in Nat \ {0}
           /\ \A r \in DOMAIN receipts : r \in Nat \ {0} /\ receipts[r] \in Nat \ {0}
<1>1. DOMAIN receipts = 1 .. Len(receipts) /\ Len(receipts) \in Nat
      /\ \A r \in DOMAIN receipts : receipts[r] \in Nat \ {0}
  BY LenProperties DEF MoneyTyped
<1> QED
  BY <1>1

LEMMA AllocatedTyped ==
    ASSUME MoneyTyped, NEW I, I \subseteq DOMAIN rows
    PROVE  Allocated(I) \in Int
<1>1. IsFiniteSet(I)
  BY RowsThere, FS_Subset
<1> DEFINE f == [i \in DOMAIN rows |-> rows[i].amount]
<1>2. \A i \in I : f[i] \in Int
  BY RowsThere
<1> HIDE DEF f
<1>3. SumFunctionOnSet(f, I) \in Int
  BY <1>1, <1>2, SumTyped
<1> QED
  BY <1>3 DEF f, Allocated

LEMMA GrossTyped ==
    ASSUME LinesTyped, NEW L, L \subseteq DOMAIN lines
    PROVE  Gross(L) \in Nat
<1>1. IsFiniteSet(L)
  BY LinesThere, FS_Subset
<1> DEFINE f == [l \in DOMAIN lines |-> lines[l].gross]
<1>2. \A l \in L : f[l] \in Nat
  BY LinesThere
<1> HIDE DEF f
<1>3. SumFunctionOnSet(f, L) \in Nat
  BY <1>1, <1>2, SumOfNaturals
<1> QED
  BY <1>3 DEF f, Gross

LEMMA LinesOfAre ==
    ASSUME LinesTyped, NEW e
    PROVE  /\ LinesOf(e) \subseteq DOMAIN lines /\ LinesOf(e) \in SUBSET Nat /\ IsFiniteSet(LinesOf(e))
           /\ 0 \notin LinesOf(e)
           /\ LinesOf(e) \subseteq {l \in DOMAIN lines : lines[l].enrolment = e}
<1>1. LinesOf(e) \subseteq DOMAIN lines
  BY DEF LinesOf
<1>2. LinesOf(e) \subseteq {l \in DOMAIN lines : lines[l].enrolment = e}
  BY DEF LinesOf
<1> QED
  BY <1>1, <1>2, LinesThere, FS_Subset

(***************************************************************************)
(* What a payment is spread over.                                          *)
(***************************************************************************)
LEMMA AllocateIs ==
    ASSUME LinesTyped, MoneyTyped, NEW e, NEW amount \in Nat, NEW shares, shares = Allocate(e, amount)
    PROVE  /\ DOMAIN shares \subseteq DOMAIN lines \cup {0}
           /\ \A l \in DOMAIN shares : shares[l] \in Nat \ {0}
<1> DEFINE owing == {l \in LinesOf(e) : Outstanding(l) > 0}
           due == [k \in owing |-> Outstanding(k)]
           before(l) == {k \in DOMAIN due : l = 0 \/ Before(k, l)}
<1>1. owing \subseteq DOMAIN lines /\ IsFiniteSet(owing) /\ 0 \notin owing
  <2>1. owing \subseteq LinesOf(e)
    OBVIOUS
  <2> HIDE DEF owing
  <2> QED
    BY <2>1, LinesOfAre, FS_Subset
<1>2. \A l \in DOMAIN lines : Outstanding(l) \in Int
  <2> SUFFICES ASSUME NEW l \in DOMAIN lines PROVE Outstanding(l) \in Int
    OBVIOUS
  <2>1. Allocated({i \in DOMAIN rows : rows[i].line = l}) \in Int
    BY AllocatedTyped
  <2>2. lines[l].gross \in Int
    BY LinesThere
  <2> QED
    BY <2>1, <2>2 DEF Outstanding
<1>3. \A k \in owing : due[k] \in Int
  BY <1>1, <1>2
<1>4. DOMAIN due = owing
  OBVIOUS
<1>5. ASSUME NEW l \in owing \cup {0}
      PROVE  PaidTo(l, e, amount) \in Int
  <2>1. PICK left : left = amount - SumFunctionOnSet(due, before(l))
    OBVIOUS
  <2>2. left \in Int
    <3>1. before(l) \subseteq owing
      BY <1>4
    <3>2. IsFiniteSet(before(l))
      BY <1>1, <3>1, FS_Subset
    <3> HIDE DEF owing, due, before
    <3>3. SumFunctionOnSet(due, before(l)) \in Int
      BY <1>3, <3>1, <3>2, SumTyped
    <3> QED
      BY <2>1, <3>3
  <2>3. PaidTo(l, e, amount) = IF l = 0 THEN Max({0, left}) ELSE Max({0, Min({due[l], left})})
    BY <2>1 DEF PaidTo
  <2>4. l # 0 => due[l] \in Int
    BY <1>3
  <2> HIDE DEF owing, due, before
  <2>5. Max({0, left}) \in Int
    BY <2>2, AtLeastZero
  <2>6. l # 0 => Max({0, Min({due[l], left})}) \in Int
    <3>1. PICK x : x = Min({due[l], left})
      OBVIOUS
    <3>2. l # 0 => x \in Int
      BY <2>2, <2>4, <3>1, TheLess
    <3> QED
      BY <3>1, <3>2, AtLeastZero
  <2> QED
    BY <2>3, <2>5, <2>6
<1>6. shares = [l \in {k \in owing \cup {0} : PaidTo(k, e, amount) > 0} |-> PaidTo(l, e, amount)]
  BY DEF Allocate
<1> HIDE DEF owing
<1>7. \A l \in DOMAIN shares : l \in owing \cup {0} /\ shares[l] = PaidTo(l, e, amount) /\ PaidTo(l, e, amount) > 0
  BY <1>6
<1>8. \A l \in DOMAIN shares : shares[l] \in Nat \ {0}
  BY <1>5, <1>7
<1> QED
  BY <1>1, <1>7, <1>8

LEMMA FormIs ==
    ASSUME TransferInv, NEW d \in Desks
    PROVE  /\ form = [x \in Desks |-> form[x]]
           /\ FormSound(form[d]) /\ IsForm(form[d]) /\ FormShape(form[d])
           /\ FormFits(form[d]) /\ FormSees(form[d])
           /\ MovedAlone => Spared(form[d])
           /\ AliveOnce => Fresh(form[d])
  BY DEF TransferInv, FormsSound, FormSound, Emptied, Alive

LEMMA PaymentStarted ==
    ASSUME TransferInv, NEW d \in Desks, StartPayment(d)
    PROVE  TransferInv'
<1>1. PICK p, shares : p = form[d] /\ shares = Allocate(p.on, p.amount)
  OBVIOUS
<1>2. /\ p.op = "pay" /\ SumFunction(shares) = p.amount
      /\ form' = [form EXCEPT ![d].started = TRUE, ![d].shares = shares]
      /\ UNCHANGED <<approved, seats, money, partner, transfers, outdated>>
  BY <1>1 DEF StartPayment, Handling
<1>3. IsForm(p) /\ FormShape(p) /\ FormFits(p) /\ (MovedAlone => Spared(p))
  BY <1>1, FormIs
<1>4. PICK q : q = [p EXCEPT !.started = TRUE, !.shares = shares]
  OBVIOUS
<1>5. Set(d, q)
  <2>1. form' = [form EXCEPT ![d] = q]
    BY <1>1, <1>2, <1>4, FormIs
  <2> QED
    BY <1>2, <2>1 DEF Set, money, partner
<1>6. q = [op |-> p.op, on |-> p.on, cohort |-> p.cohort, waived |-> p.waived, amount |-> p.amount,
           started |-> TRUE, lines |-> p.lines, shares |-> shares, overtaken |-> p.overtaken]
  BY <1>3, <1>4 DEF FormShape
<1>7. /\ q.op = "pay" /\ q.on = p.on /\ q.cohort = p.cohort /\ q.waived = p.waived /\ q.amount = p.amount
      /\ q.started = TRUE /\ q.lines = p.lines /\ q.shares = shares /\ q.overtaken = p.overtaken
  BY <1>2, <1>6
<1>8. FormShape(q)
  BY <1>2, <1>6, <1>7, Zenon DEF FormShape
<1>9. LinesTyped /\ MoneyTyped
  BY DEF TransferInv, MoveTables
<1>10. p.amount \in Nat
  BY <1>3 DEF IsForm
<1>11. DOMAIN shares \subseteq DOMAIN lines \cup {0} /\ \A l \in DOMAIN shares : shares[l] \in Nat \ {0}
  BY <1>1, <1>9, <1>10, AllocateIs
<1>12. IsForm(q)
  <2>1. DOMAIN q.shares \subseteq Nat /\ \A l \in DOMAIN q.shares : q.shares[l] \in Nat \ {0}
    BY <1>7, <1>9, <1>11, LinesThere
  <2>2. {q.waived, q.started} \subseteq BOOLEAN
    BY <1>3, <1>7 DEF IsForm
  <2> QED
    BY <1>2, <1>3, <1>7, <2>1, <2>2 DEF IsForm
<1>13. FormFits(q) /\ FormSees(q)
  BY <1>2, <1>3, <1>7, <1>11 DEF FormFits, FormSees, Decisions
<1>14. MovedAlone => Spared(q)
  BY <1>2, <1>3, <1>7 DEF Spared
<1>15. Suits(q)
  BY <1>7, <1>8, <1>12, <1>13, <1>14 DEF Suits, FormSound, Executes, Fresh
<1> QED
  BY <1>5, <1>15, SetKeeps

(***************************************************************************)
(* The lines read are those of the seat; overtaken or not, they are on it. *)
(***************************************************************************)
LEMMA ExecuteStarted ==
    ASSUME TransferInv, NEW d \in Desks, StartExecute(d)
    PROVE  TransferInv'
<1>1. PICK p, e, old : p = form[d] /\ e = transfers[p.on].from /\ old = LinesOf(e)
  OBVIOUS
<1>2. /\ p.op = "execute"
      /\ form' = [form EXCEPT ![d].started = TRUE, ![d].lines = old]
      /\ UNCHANGED <<approved, seats, money, partner, transfers, outdated>>
  BY <1>1 DEF StartExecute, Handling
<1>3. IsForm(p) /\ FormShape(p) /\ FormFits(p) /\ FormSees(p)
  BY <1>1, FormIs
<1>4. PICK q : q = [p EXCEPT !.started = TRUE, !.lines = old]
  OBVIOUS
<1>5. Set(d, q)
  <2>1. form' = [form EXCEPT ![d] = q]
    BY <1>1, <1>2, <1>4, FormIs
  <2> QED
    BY <1>2, <2>1 DEF Set, money, partner
<1>6. q = [op |-> p.op, on |-> p.on, cohort |-> p.cohort, waived |-> p.waived, amount |-> p.amount,
           started |-> TRUE, lines |-> old, shares |-> p.shares, overtaken |-> p.overtaken]
  BY <1>3, <1>4 DEF FormShape
<1>7. /\ q.op = "execute" /\ q.on = p.on /\ q.cohort = p.cohort /\ q.waived = p.waived /\ q.amount = p.amount
      /\ q.started = TRUE /\ q.lines = old /\ q.shares = p.shares /\ q.overtaken = p.overtaken
  BY <1>2, <1>6
<1>8. FormShape(q)
  BY <1>2, <1>6, <1>7, Zenon DEF FormShape
<1>9. LinesTyped
  BY DEF TransferInv, MoveTables
<1>10. SeatOf(q) = e /\ SeatOf(p) = e
  BY <1>1, <1>2, <1>7 DEF SeatOf, Decisions
<1>11. old \in SUBSET Nat /\ old \subseteq {l \in DOMAIN lines : lines[l].enrolment = e}
  BY <1>1, <1>9, LinesOfAre
<1>12. IsForm(q)
  <2>1. {q.waived, q.started} \subseteq BOOLEAN
    BY <1>3, <1>7 DEF IsForm
  <2> QED
    BY <1>2, <1>3, <1>7, <1>11, <2>1 DEF IsForm
<1>13. FormFits(q)
  BY <1>2, <1>3, <1>7, <1>10, <1>11 DEF FormFits, Decisions
<1>14. FormSees(q)
  BY <1>1, <1>2, <1>3, <1>7, <1>10 DEF FormSees, Undecided
<1>15. Executing(d) <=> Executes(q)
  BY <1>1, <1>2, <1>7 DEF Executing, Executes, Handling
<1>16. MovedOnce /\ Executes(q) =>
           /\ \A f \in LiveSeats : f = SeatOf(q)
           /\ \A x \in Desks : Executing(x) => SeatOf(form[x]) = SeatOf(q)
  <2>1. SeatOf(form[d]) = SeatOf(q)
    BY <1>1, <1>10
  <2> QED
    BY <1>15, <2>1 DEF TransferInv, Seated
<1>17. Suits(q)
  BY <1>7, <1>8, <1>12, <1>13, <1>14, <1>16 DEF Suits, FormSound, Spared, Fresh
<1> QED
  BY <1>5, <1>17, SetKeeps

-----------------------------------------------------------------------------
(* A form committed, and what it does to the others. *)

LEMMA OvertakeIs ==
    ASSUME NEW p, p.op \in TransferOps, NEW r, IsForm(r), FormShape(r), NEW q, q = Overtake(p, r)
    PROVE  /\ IsForm(q) /\ FormShape(q)
           /\ q.op = r.op /\ q.on = r.on /\ q.amount = r.amount /\ q.started = r.started
           /\ q.lines = r.lines /\ q.shares = r.shares
           /\ r.overtaken \subseteq q.overtaken
           /\ r.op # "none" /\ p.op # "pay" /\ SeatOf(p) = SeatOf(r) => p.op \in q.overtaken
<1>1. CASE r # Blank /\ p.op # "pay" /\ SeatOf(p) = SeatOf(r)
  <2>1. q = [r EXCEPT !.overtaken = @ \cup {p.op}]
    BY <1>1 DEF Overtake
  <2>2. q = [op |-> r.op, on |-> r.on, cohort |-> r.cohort, waived |-> r.waived, amount |-> r.amount,
             started |-> r.started, lines |-> r.lines, shares |-> r.shares,
             overtaken |-> r.overtaken \cup {p.op}]
    BY <2>1 DEF FormShape
  <2>3. /\ q.op = r.op /\ q.on = r.on /\ q.cohort = r.cohort /\ q.waived = r.waived
        /\ q.amount = r.amount /\ q.started = r.started /\ q.lines = r.lines /\ q.shares = r.shares
        /\ q.overtaken = r.overtaken \cup {p.op}
    BY <2>2
  <2>4. FormShape(q)
    BY <2>2, <2>3, Zenon DEF FormShape
  <2>5. IsForm(q)
    <3>1. {q.waived, q.started} \subseteq BOOLEAN
      BY <2>3 DEF IsForm
    <3>2. q.overtaken \in SUBSET TransferOps
      BY <2>3 DEF IsForm
    <3> QED
      BY <2>3, <3>1, <3>2 DEF IsForm
  <2> QED
    BY <2>3, <2>4, <2>5
<1>2. CASE ~(r # Blank /\ p.op # "pay" /\ SeatOf(p) = SeatOf(r))
  <2>1. q = r
    BY <1>2 DEF Overtake
  <2>2. r = Blank => r.op = "none"
    BY BlankIs
  <2> QED
    BY <1>2, <2>1, <2>2
<1> QED
  BY <1>1, <1>2

(***************************************************************************)
(* What a commit of p may do to the rows other forms have read: only a     *)
(* decision changes a transfer, the one it is about, and leaves it the     *)
(* enrolment it is from; only an execution touches the lines of an         *)
(* enrolment, the one it moves.                                            *)
(***************************************************************************)
Writes(p) ==
    /\ DOMAIN seats \subseteq DOMAIN seats'
    /\ DOMAIN lines \subseteq DOMAIN lines'
    /\ \A l \in DOMAIN lines : lines'[l].enrolment = lines[l].enrolment
    /\ DOMAIN transfers \subseteq DOMAIN transfers'
    /\ \A t \in DOMAIN transfers : transfers'[t].from = transfers[t].from
    /\ \A t \in DOMAIN transfers : transfers'[t] = transfers[t] \/ (p.op \in Decisions /\ p.on = t)
    /\ \A t \in DOMAIN transfers' \ DOMAIN transfers : p.op = "request" /\ transfers'[t].from = p.on
    /\ p.op \in {"recommend", "execute"} => transfers'[p.on].status # "REJECTED"
    /\ p.op = "reject" => transfers'[p.on].status = "REJECTED" /\ transfers'[p.on].to = transfers[p.on].to
    /\ \A e \in DOMAIN seats : \/ p.op = "execute" /\ e = SeatOf(p)
                               \/ LinesOf(e)' = LinesOf(e) /\ (ExecutedFrom(e)' <=> ExecutedFrom(e))

LEMMA SeatStays ==
    ASSUME NEW p, Writes(p), NEW r, FormFits(r)
    PROVE  SeatOf(r)' = SeatOf(r)
  BY DEF Writes, FormFits, SeatOf

LEMMA SeatThere ==
    ASSUME TransferInv, NEW r, FormFits(r), r.op \in TransferOps
    PROVE  SeatOf(r) \in DOMAIN seats
  BY TransfersThere DEF FormFits, SeatOf, TransferOps

(***************************************************************************)
(* What a form in flight has seen stays so, or it is overtaken.            *)
(***************************************************************************)
LEMMA OvertakenSees ==
    ASSUME TransferInv, NEW p, p.op \in TransferOps, FormFits(p), Writes(p),
           NEW r, FormSound(r), NEW q, q = Overtake(p, r)
    PROVE  FormSound(q)' /\ SeatOf(q)' = SeatOf(r)
<1>1. IsForm(r) /\ FormShape(r) /\ FormFits(r) /\ FormSees(r)
  BY DEF FormSound
<1>2. /\ IsForm(q) /\ FormShape(q)
      /\ q.op = r.op /\ q.on = r.on /\ q.amount = r.amount /\ q.started = r.started
      /\ q.lines = r.lines /\ q.shares = r.shares
      /\ r.overtaken \subseteq q.overtaken
      /\ r.op # "none" /\ p.op # "pay" /\ SeatOf(p) = SeatOf(r) => p.op \in q.overtaken
  BY <1>1, OvertakeIs
<1>3. PICK e : e = SeatOf(r)
  OBVIOUS
<1>4. SeatOf(r)' = e
  BY <1>1, <1>3, SeatStays
<1>5. SeatOf(q)' = e
  BY <1>2, <1>4 DEF SeatOf
<1>6. FormFits(q)'
  <2>1. q.op \in Decisions => q.on \in DOMAIN transfers'
    BY <1>1, <1>2 DEF FormFits, Writes
  <2>2. q.op \in {"request", "pay", "leave"} => q.on \in DOMAIN seats'
    BY <1>1, <1>2 DEF FormFits, Writes
  <2>3. q.op = "pay" => q.amount > 0
    BY <1>1, <1>2 DEF FormFits
  <2>4. q.op = "pay" /\ q.started => /\ SumFunction(q.shares) = q.amount
                                     /\ DOMAIN q.shares \subseteq DOMAIN lines' \cup {0}
    BY <1>1, <1>2 DEF FormFits, Writes
  <2>5. q.op = "execute" /\ q.started => q.lines \subseteq {l \in DOMAIN lines' : lines'[l].enrolment = e}
    BY <1>1, <1>2, <1>3 DEF FormFits, Writes
  <2> QED
    BY <1>5, <2>1, <2>2, <2>3, <2>4, <2>5 DEF FormFits
<1>7. ASSUME q.op \in Decisions
      PROVE  /\ q.on \in DOMAIN transfers /\ transfers[q.on].from = e
             /\ transfers'[q.on] = transfers[q.on] \/ (p.op \in Decisions /\ p.on = q.on /\ p.op \in q.overtaken)
  <2>1. r.op \in Decisions /\ r.op # "none" /\ q.on \in DOMAIN transfers /\ transfers[q.on].from = e
    BY <1>1, <1>2, <1>3, <1>7 DEF FormFits, SeatOf, Decisions
  <2>2. p.op \in Decisions /\ p.on = q.on => SeatOf(p) = e /\ p.op # "pay"
    BY <2>1 DEF SeatOf, Decisions
  <2> QED
    BY <1>2, <1>3, <2>1, <2>2 DEF Writes
<1>8. Undecided(q) => Undecided(r)
  BY <1>2 DEF Undecided
<1>9. ASSUME q.op \in Decisions, Undecided(q) PROVE transfers'[q.on] = transfers[q.on]
  BY <1>7, <1>9 DEF Undecided
<1>10. ASSUME q.op \in {"recommend", "execute"}, "reject" \notin q.overtaken PROVE ~Dead(q.on)'
  <2>1. ~Dead(q.on) /\ q.op \in Decisions
    BY <1>1, <1>2, <1>10 DEF FormSees, Decisions
  <2>2. CASE transfers'[q.on] = transfers[q.on]
    BY <2>1, <2>2 DEF Dead
  <2>3. CASE p.op \in Decisions /\ p.on = q.on /\ p.op \in q.overtaken
    <3>1. p.op \in {"recommend", "execute"}
      BY <1>10, <2>3 DEF Decisions
    <3> QED
      BY <2>3, <3>1 DEF Writes, Dead
  <2> QED
    BY <1>7, <2>1, <2>2, <2>3
<1>11. ASSUME q.op = "execute", "execute" \notin q.overtaken
       PROVE  ~ExecutedFrom(e)' /\ (q.started => q.lines = LinesOf(e)')
  <2>1. ~ExecutedFrom(e) /\ (q.started => q.lines = LinesOf(e))
    BY <1>1, <1>2, <1>3, <1>11 DEF FormSees
  <2>2. e \in DOMAIN seats
    BY <1>1, <1>2, <1>3, <1>11, SeatThere DEF TransferOps, Decisions
  <2>3. ~(p.op = "execute" /\ e = SeatOf(p))
    BY <1>2, <1>3, <1>11
  <2>4. LinesOf(e)' = LinesOf(e) /\ (ExecutedFrom(e)' <=> ExecutedFrom(e))
    BY <2>2, <2>3 DEF Writes
  <2> QED
    BY <2>1, <2>4
<1>12. FormSees(q)'
  <2>1. q.op = "recommend" /\ Undecided(q) => transfers'[q.on].status = "PENDING_MANAGER"
    BY <1>1, <1>2, <1>8, <1>9 DEF FormSees, Decisions
  <2>2. q.op = "execute" /\ Undecided(q) => transfers'[q.on].status = "PENDING_FINANCE"
    BY <1>1, <1>2, <1>8, <1>9 DEF FormSees, Decisions
  <2>3. q.op = "reject" /\ Undecided(q) => transfers'[q.on].status # "EXECUTED"
    BY <1>1, <1>2, <1>8, <1>9 DEF FormSees, Decisions
  <2>4. Undecided(q)' <=> Undecided(q)
    BY DEF Undecided
  <2>5. ExecutedFrom(SeatOf(q))' <=> ExecutedFrom(e)'
    BY <1>5 DEF ExecutedFrom
  <2>6. LinesOf(SeatOf(q))' = LinesOf(e)'
    BY <1>5 DEF LinesOf
  <2> QED
    BY <1>10, <1>11, <2>1, <2>2, <2>3, <2>4, <2>5, <2>6 DEF FormSees
<1>13. FormSound(q)'
  BY <1>2, <1>6, <1>12 DEF FormSound, IsForm, FormShape
<1> QED
  BY <1>3, <1>5, <1>13

LEMMA OvertakenSpared ==
    ASSUME TransferInv, NEW p, p.op \in TransferOps, Writes(p),
           NEW r, FormSound(r), Spared(r), NEW q, q = Overtake(p, r)
    PROVE  Spared(q)'
<1>1. IsForm(r) /\ FormShape(r) /\ FormFits(r)
  BY DEF FormSound
<1>2. /\ q.op = r.op /\ q.on = r.on /\ r.overtaken \subseteq q.overtaken
      /\ r.op # "none" /\ p.op # "pay" /\ SeatOf(p) = SeatOf(r) => p.op \in q.overtaken
  BY <1>1, OvertakeIs
<1>3. ASSUME q.op = "pay", "execute" \notin q.overtaken PROVE ~ExecutedFrom(q.on)'
  <2>1. q.on \in DOMAIN seats /\ SeatOf(r) = q.on /\ ~ExecutedFrom(q.on)
    BY <1>1, <1>2, <1>3 DEF FormFits, SeatOf, Decisions, Spared
  <2>2. ~(p.op = "execute" /\ q.on = SeatOf(p))
    BY <1>2, <1>3, <2>1
  <2> QED
    BY <2>1, <2>2 DEF Writes
<1> QED
  BY <1>3 DEF Spared

(***************************************************************************)
(* A decision that brings a dead transfer back has been overtaken by the   *)
(* rejection it had not seen.                                              *)
(***************************************************************************)
Revives(p) == p.op \in {"recommend", "execute"} /\ "reject" \in p.overtaken

LEMMA DeadStays ==
    ASSUME NEW p, FormSound(p), Writes(p), ~Revives(p), NEW t \in DOMAIN transfers, Dead(t)
    PROVE  Dead(t)'
<1>1. FormFits(p) /\ FormSees(p)
  BY DEF FormSound
<1>2. CASE transfers'[t] = transfers[t]
  BY <1>2 DEF Dead
<1>3. CASE p.op \in Decisions /\ p.on = t
  <2>1. p.op \notin {"recommend", "execute"}
    BY <1>1, <1>3 DEF FormSees, Revives
  <2>2. p.op = "reject"
    BY <1>3, <2>1 DEF Decisions
  <2> QED
    BY <1>3, <2>2 DEF Writes, Dead
<1> QED
  BY <1>2, <1>3 DEF Writes

LEMMA OvertakenFresh ==
    ASSUME TransferInv, NEW p, p.op \in TransferOps, FormSound(p), Writes(p), ~Revives(p),
           NEW r, FormSound(r), Fresh(r), NEW q, q = Overtake(p, r)
    PROVE  Fresh(q)'
<1>1. IsForm(r) /\ FormShape(r) /\ FormFits(r)
  BY DEF FormSound
<1>2. /\ q.op = r.op /\ q.on = r.on /\ r.overtaken \subseteq q.overtaken
      /\ r.op # "none" /\ p.op # "pay" /\ SeatOf(p) = SeatOf(r) => p.op \in q.overtaken
  BY <1>1, OvertakeIs
<1>3. ASSUME q.op = "request", "request" \notin q.overtaken,
             NEW t \in DOMAIN transfers', transfers'[t].from = q.on
      PROVE  Dead(t)'
  <2>1. \A u \in DOMAIN transfers : transfers[u].from = q.on => Dead(u)
    BY <1>2, <1>3 DEF Fresh
  <2>2. CASE t \in DOMAIN transfers
    <3>1. transfers[t].from = q.on
      BY <1>3, <2>2 DEF Writes
    <3> QED
      BY <2>1, <2>2, <3>1, DeadStays
  <2>3. CASE t \notin DOMAIN transfers
    <3>1. p.op = "request" /\ p.on = q.on
      BY <1>3, <2>3 DEF Writes
    <3>2. SeatOf(p) = SeatOf(r)
      BY <1>2, <1>3, <3>1 DEF SeatOf, Decisions
    <3> QED
      BY <1>2, <1>3, <3>1, <3>2
  <2> QED
    BY <2>2, <2>3
<1> QED
  BY <1>3 DEF Fresh

LEMMA Outdating ==
    ASSUME TransferInv, NEW d \in Desks, EndForm(d), NEW p, p = form[d], p.op \in TransferOps
    PROVE  /\ outdated' \in SUBSET (TransferOps \X TransferOps)
           /\ MovedAlone' => MovedAlone /\ (p.op \in {"pay", "execute"} => "execute" \notin p.overtaken)
           /\ MovedOnce' => MovedOnce /\ (p.op = "execute" => "execute" \notin p.overtaken)
           /\ AliveOnce' => AliveOnce /\ ~Revives(p) /\ (p.op = "request" => "request" \notin p.overtaken)
           /\ <<"execute", "execute">> \in outdated => <<"execute", "execute">> \in outdated'
<1>1. outdated' = outdated \cup ({p.op} \X p.overtaken)
  BY DEF EndForm
<1>2. p.overtaken \in SUBSET TransferOps
  BY FormIs DEF IsForm
<1>3. outdated \in SUBSET (TransferOps \X TransferOps)
  BY DEF TransferInv
<1>4. \A x \in p.overtaken : <<p.op, x>> \in outdated'
  BY <1>1
<1>5. outdated \subseteq outdated'
  BY <1>1
<1>6. outdated' \in SUBSET (TransferOps \X TransferOps)
  BY <1>1, <1>2, <1>3
<1>7. MovedAlone' => MovedAlone /\ (p.op \in {"pay", "execute"} => "execute" \notin p.overtaken)
  <2>1. {"pay", "execute"} \X {"execute"} = {<<"pay", "execute">>, <<"execute", "execute">>}
    OBVIOUS
  <2>2. MovedAlone' <=> <<"pay", "execute">> \notin outdated' /\ <<"execute", "execute">> \notin outdated'
    BY <2>1 DEF MovedAlone
  <2>3. MovedAlone <=> <<"pay", "execute">> \notin outdated /\ <<"execute", "execute">> \notin outdated
    BY <2>1 DEF MovedAlone
  <2> QED
    BY <1>4, <1>5, <2>2, <2>3
<1>8. MovedOnce' => MovedOnce /\ (p.op = "execute" => "execute" \notin p.overtaken)
  BY <1>4, <1>5 DEF MovedOnce
<1>9. AliveOnce' => AliveOnce /\ ~Revives(p) /\ (p.op = "request" => "request" \notin p.overtaken)
  <2>1. {"recommend", "execute"} \X {"reject"} = {<<"recommend", "reject">>, <<"execute", "reject">>}
    OBVIOUS
  <2>2. AliveOnce' <=> /\ <<"request", "request">> \notin outdated'
                       /\ <<"recommend", "reject">> \notin outdated'
                       /\ <<"execute", "reject">> \notin outdated'
    BY <2>1 DEF AliveOnce
  <2>3. AliveOnce <=> /\ <<"request", "request">> \notin outdated
                      /\ <<"recommend", "reject">> \notin outdated
                      /\ <<"execute", "reject">> \notin outdated
    BY <2>1 DEF AliveOnce
  <2> QED
    BY <1>4, <1>5, <2>2, <2>3 DEF Revives
<1> QED
  BY <1>5, <1>6, <1>7, <1>8, <1>9

LEMMA CommitForms ==
    ASSUME TransferInv, NEW d \in Desks, EndForm(d), NEW p, p = form[d], p.op \in TransferOps, Writes(p)
    PROVE  /\ FormsSound'
           /\ MovedAlone' => \A x \in Desks : Spared(form[x])'
           /\ AliveOnce' => \A x \in Desks : Fresh(form[x])'
           /\ \A x \in Desks : Executing(x)' => /\ Executing(x)
                                                /\ SeatOf(form[x])' = SeatOf(form[x])
                                                /\ ~(p.op = "execute" /\ SeatOf(p) = SeatOf(form[x]))
<1>1. /\ form' = [x \in Desks |-> form'[x]]
      /\ \A x \in Desks : form'[x] = IF x = d THEN Blank ELSE Overtake(p, form[x])
  BY DEF EndForm
<1>2. FormSound(p) /\ FormFits(p) /\ FormSees(p)
  BY FormIs
<1>3. FormSound(Blank)' /\ Spared(Blank)' /\ Fresh(Blank)'
  <2>1. FormSound(Blank) /\ Spared(Blank) /\ Fresh(Blank)
    BY BlankSound
  <2> QED
    BY BlankSound, PTL
<1>4. ASSUME NEW x \in Desks
      PROVE  /\ FormSound(form[x])'
             /\ MovedAlone' => Spared(form[x])'
             /\ AliveOnce' => Fresh(form[x])'
             /\ Executing(x)' => /\ Executing(x)
                                 /\ SeatOf(form[x])' = SeatOf(form[x])
                                 /\ ~(p.op = "execute" /\ SeatOf(p) = SeatOf(form[x]))
  <2>1. PICK q, r : q = form'[x] /\ r = form[x]
    OBVIOUS
  <2>2. CASE x = d
    <3>1. q = Blank
      BY <1>1, <2>1, <2>2
    <3>2. FormSound(q)' /\ Spared(q)' /\ Fresh(q)'
      BY <1>3, <3>1
    <3>3. form'[x].op # "execute"
      BY <2>1, <3>1, BlankIs
    <3>4. ~Executing(x)'
      BY <3>3 DEF Executing, Handling
    <3> QED
      BY <2>1, <3>2, <3>4
  <2>3. CASE x # d
    <3>1. q = Overtake(p, r)
      BY <1>1, <2>1, <2>3
    <3>2. /\ FormSound(r) /\ IsForm(r) /\ FormShape(r)
          /\ MovedAlone => Spared(r)
          /\ AliveOnce => Fresh(r)
      BY <2>1, FormIs
    <3>3. FormSound(q)' /\ SeatOf(q)' = SeatOf(r)
      BY <1>2, <3>1, <3>2, OvertakenSees
    <3>4. MovedAlone' => Spared(q)'
      BY <3>1, <3>2, OvertakenSpared, Outdating
    <3>5. AliveOnce' => Fresh(q)'
      BY <1>2, <3>1, <3>2, OvertakenFresh, Outdating
    <3>6. /\ q.op = r.op /\ r.overtaken \subseteq q.overtaken
          /\ r.op # "none" /\ p.op # "pay" /\ SeatOf(p) = SeatOf(r) => p.op \in q.overtaken
      BY <3>1, <3>2, OvertakeIs
    <3>7. Executing(x)' <=> q.op = "execute" /\ "execute" \notin q.overtaken
      BY <2>1 DEF Executing, Handling
    <3>8. Executing(x) <=> r.op = "execute" /\ "execute" \notin r.overtaken
      BY <2>1 DEF Executing, Handling
    <3>9. Executing(x)' => Executing(x) /\ ~(p.op = "execute" /\ SeatOf(p) = SeatOf(r))
      BY <3>6, <3>7, <3>8
    <3>10. SeatOf(form[x])' = SeatOf(form[x])
      BY <2>1, <3>3
    <3>11. FormSound(form[x])' /\ (MovedAlone' => Spared(form[x])') /\ (AliveOnce' => Fresh(form[x])')
      BY <2>1, <3>3, <3>4, <3>5
    <3> QED
      BY <2>1, <3>9, <3>10, <3>11
  <2> QED
    BY <2>2, <2>3
<1>5. FormsSound'
  BY <1>1, <1>4 DEF FormsSound
<1> QED
  BY <1>4, <1>5

-----------------------------------------------------------------------------
(* Commits that leave lines and money alone. *)

Steady ==
    /\ lines' = lines /\ receipts' = receipts /\ rows' = rows
    /\ DOMAIN seats' = DOMAIN seats
    /\ \A t \in DOMAIN transfers :
          /\ t \in DOMAIN transfers' /\ transfers'[t].from = transfers[t].from
          /\ transfers'[t].to = transfers[t].to /\ transfers'[t].cohort = transfers[t].cohort
    /\ \A t \in DOMAIN transfers' : t \notin DOMAIN transfers => transfers'[t].to = 0
    /\ <<"execute", "execute">> \in outdated => <<"execute", "execute">> \in outdated'

LEMMA SteadyKeeps ==
    ASSUME TransferInv, Steady
    PROVE  /\ LinesTyped' /\ MoneyTyped' /\ MovesTell' /\ MoneyStays' /\ Priced'
           /\ \A e : ExecutedFrom(e)' <=> ExecutedFrom(e)
           /\ \A e : LinesOf(e)' = LinesOf(e)
           /\ \A e : Collected(e)' = Collected(e)
<1>1. lines' = lines /\ receipts' = receipts /\ rows' = rows /\ DOMAIN seats' = DOMAIN seats
  BY DEF Steady
<1>2. LinesTyped' /\ MoneyTyped'
  BY <1>1 DEF TransferInv, MoveTables, LinesTyped, MoneyTyped
<1>3. ASSUME NEW e PROVE ExecutedFrom(e)' <=> ExecutedFrom(e)
  BY DEF Steady, ExecutedFrom
<1>4. \A e : LinesOf(e)' = LinesOf(e)
  BY <1>1 DEF LinesOf
<1>5. \A e : Collected(e)' = Collected(e)
  BY <1>1 DEF Collected, Allocated, RowsOf
<1>6. MovesTell'
  <2>1. ASSUME NEW i \in DOMAIN rows, rows[i].why = "move", rows[i].amount < 0
        PROVE  ExecutedFrom(rows[i].enrolment)'
    <3>1. PICK e : e = rows[i].enrolment
      OBVIOUS
    <3>2. ExecutedFrom(e)'
      BY <1>3, <2>1, <3>1 DEF TransferInv, MovesTell
    <3>3. rows'[i].enrolment = e
      BY <1>1, <3>1
    <3> QED
      BY <1>1, <3>1, <3>2, <3>3 DEF ExecutedFrom
  <2>2. \A i \in DOMAIN rows' : /\ rows'[i].why = "payment" => rows'[i].amount > 0
                                /\ rows'[i].why = "refund" => rows'[i].amount = -1
    BY <1>1 DEF TransferInv, MovesTell
  <2> QED
    BY <1>1, <2>1, <2>2 DEF MovesTell, ExecutedFrom
<1>7. Priced'
  <2>1. FirstLines'
    BY <1>1 DEF TransferInv, Priced, FirstLines
  <2>2. \A S : Gross(S)' = Gross(S)
    BY <1>1 DEF Gross
  <2>3. ASSUME NEW e PROVE TuitionOf(e)' = TuitionOf(e)
    <3>1. PICK S : S = {l \in LinesOf(e) : lines[l].type # "REGISTRATION"}
      OBVIOUS
    <3>2. S = {l \in LinesOf(e) : lines[l].type # "REGISTRATION"}'
      BY <1>1, <1>4, <3>1
    <3>3. Gross(S)' = Gross(S)
      BY <2>2
    <3> QED
      BY <3>1, <3>2, <3>3 DEF TuitionOf
  <2>4. ASSUME <<"execute", "execute">> \notin outdated',
               NEW t \in DOMAIN transfers', transfers'[t].from = 1, transfers'[t].to # 0
        PROVE  (LinesOf(transfers[t].to) = {} \/ TuitionOf(transfers[t].to) = Price[transfers[t].cohort])'
    <3>1. /\ t \in DOMAIN transfers /\ transfers[t].from = 1 /\ transfers[t].cohort = transfers'[t].cohort
          /\ transfers[t].to = transfers'[t].to /\ <<"execute", "execute">> \notin outdated
      BY <2>4 DEF Steady
    <3>2. PICK e, c : e = transfers[t].to /\ c = transfers[t].cohort
      OBVIOUS
    <3>3. LinesOf(e) = {} \/ TuitionOf(e) = Price[c]
      BY <2>4, <3>1, <3>2 DEF TransferInv, Priced, PricedAtFirst
    <3>4. LinesOf(e)' = {} \/ TuitionOf(e)' = Price[c]
      BY <1>4, <2>3, <3>3
    <3>5. transfers'[t].to = e /\ transfers'[t].cohort = c
      BY <3>1, <3>2
    <3> QED
      BY <3>4, <3>5
  <2>5. PricedAtFirst'
    BY <2>4 DEF PricedAtFirst
  <2>6. ExecutedFrom(1)' \/ (~lines'[1].voided /\ ~lines'[2].voided)
    BY <1>1, <1>3 DEF TransferInv, Priced
  <2> QED
    BY <2>1, <2>5, <2>6 DEF Priced
<1>8. MoneyStays'
  <2>1. \A e : Refunded(e)' <=> Refunded(e)
    BY <1>1 DEF Refunded
  <2>2. CASE \E e \in DOMAIN seats : ExecutedFrom(e) /\ Refunded(e)
    <3>1. PICK e \in DOMAIN seats : ExecutedFrom(e) /\ Refunded(e)
      BY <2>2
    <3>2. ExecutedFrom(e)' /\ Refunded(e)'
      BY <1>3, <2>1, <3>1
    <3> QED
      BY <1>1, <3>2 DEF MoneyStays
  <2>3. CASE <<"execute", "execute">> \in outdated
    BY <2>3 DEF MoneyStays, Steady
  <2>4. CASE \A r \in DOMAIN receipts :
                 Allocated({i \in DOMAIN rows : rows[i].receipt = r})
                     = receipts[r] - Cardinality(RefundedOf(r))
    BY <1>1, <2>4 DEF MoneyStays, Allocated, RefundedOf
  <2> QED
    BY <2>2, <2>3, <2>4 DEF TransferInv, MoneyStays
<1> QED
  BY <1>2, <1>3, <1>4, <1>5, <1>6, <1>7, <1>8

LEMMA EmptiedStays ==
    ASSUME Emptied, DOMAIN seats' = DOMAIN seats, MovedAlone' => MovedAlone,
           \A e : ExecutedFrom(e)' <=> ExecutedFrom(e),
           \A e : LinesOf(e)' = LinesOf(e),
           \A e : Collected(e)' = Collected(e),
           MovedAlone' => \A d \in Desks : Spared(form[d])'
    PROVE  Emptied'
  BY DEF Emptied

LEMMA SeatedStays ==
    ASSUME Seated, LiveSeats' \subseteq LiveSeats, MovedOnce' => MovedOnce,
           \A x \in Desks : Executing(x)' => Executing(x) /\ SeatOf(form[x])' = SeatOf(form[x])
    PROVE  Seated'
<1>1. ASSUME MovedOnce', NEW e \in LiveSeats', NEW f \in LiveSeats' PROVE e = f
  BY <1>1 DEF Seated
<1>2. ASSUME MovedOnce', NEW x \in Desks, Executing(x)', NEW e \in LiveSeats'
      PROVE  e = SeatOf(form[x])'
  BY <1>2 DEF Seated
<1>3. ASSUME MovedOnce', NEW x \in Desks, NEW y \in Desks, Executing(x)', Executing(y)'
      PROVE  SeatOf(form[x])' = SeatOf(form[y])'
  BY <1>3 DEF Seated
<1> QED
  BY <1>1, <1>2, <1>3 DEF Seated

LEMMA LeaveKept ==
    ASSUME TransferInv, NEW d \in Desks, WriteLeave(d)
    PROVE  TransferInv'
<1>1. PICK p, e : p = form[d] /\ e = p.on
  OBVIOUS
<1>2. /\ p.op = "leave" /\ p.op \in TransferOps /\ EndForm(d)
      /\ seats' = [seats EXCEPT ![e].status = "LEFT"]
      /\ approved' = approved /\ lines' = lines /\ receipts' = receipts /\ rows' = rows
      /\ claims' = claims /\ owed' = owed /\ transfers' = transfers
  BY <1>1 DEF WriteLeave, Handling, money, partner, TransferOps
<1>3. e \in DOMAIN seats
  BY <1>1, <1>2, FormIs DEF FormFits
<1>4. seats \in Seq(SeatRow) /\ Len(seats) \in 1 .. MaxSeats
  BY DEF TransferInv, MoveTables, PlacesTyped
<1>5. PICK row : row = [seats[e] EXCEPT !.status = "LEFT"]
  OBVIOUS
<1>6. row \in SeatRow /\ row.status = "LEFT"
  BY <1>3, <1>5, SeatsThere DEF SeatRow
<1>7. seats' = [seats EXCEPT ![e] = row]
  BY <1>2, <1>3, <1>5
<1>8. /\ seats' \in Seq(SeatRow) /\ DOMAIN seats' = DOMAIN seats /\ Len(seats') = Len(seats)
      /\ \A f \in DOMAIN seats : seats'[f] = IF f = e THEN row ELSE seats[f]
  BY <1>3, <1>4, <1>6, <1>7, RowSaved
<1>9. Writes(p)
  <2>1. \A f : LinesOf(f)' = LinesOf(f) /\ (ExecutedFrom(f)' <=> ExecutedFrom(f))
    BY <1>2, <1>8, SameForms
  <2> QED
    BY <1>2, <1>8, <2>1 DEF Writes
<1>10. Steady
  BY <1>1, <1>2, <1>8, Outdating DEF Steady, TransferInv, MoveTables, TransfersTyped
<1>11. /\ LinesTyped' /\ MoneyTyped' /\ MovesTell' /\ MoneyStays' /\ Priced'
       /\ \A f : ExecutedFrom(f)' <=> ExecutedFrom(f)
       /\ \A f : LinesOf(f)' = LinesOf(f)
       /\ \A f : Collected(f)' = Collected(f)
  BY <1>10, SteadyKeeps
<1>12. MoveTables'
  <2>1. PlacesTyped'
    BY <1>4, <1>8 DEF PlacesTyped
  <2>2. TransfersTyped'
    BY <1>2, <1>6, <1>8 DEF TransferInv, MoveTables, TransfersTyped
  <2>3. OwedTyped'
    BY <1>2 DEF TransferInv, MoveTables, OwedTyped
  <2> QED
    BY <1>2, <1>11, <2>1, <2>2, <2>3 DEF TransferInv, MoveTables
<1>13. /\ FormsSound'
       /\ MovedAlone' => \A x \in Desks : Spared(form[x])'
       /\ AliveOnce' => \A x \in Desks : Fresh(form[x])'
       /\ \A x \in Desks : Executing(x)' => Executing(x) /\ SeatOf(form[x])' = SeatOf(form[x])
  BY <1>1, <1>2, <1>9, CommitForms
<1>14. /\ outdated' \in SUBSET (TransferOps \X TransferOps)
       /\ MovedAlone' => MovedAlone
       /\ MovedOnce' => MovedOnce
       /\ AliveOnce' => AliveOnce
  BY <1>1, <1>2, Outdating
<1>15. Emptied'
  BY <1>8, <1>11, <1>13, <1>14, EmptiedStays DEF TransferInv
<1>16. LiveSeats' \subseteq LiveSeats
  BY <1>6, <1>8 DEF LiveSeats
<1>17. Seated'
  BY <1>13, <1>14, <1>16, SeatedStays DEF TransferInv
<1>18. Alive'
  <2>1. \A t : Dead(t)' <=> Dead(t)
    BY <1>2 DEF Dead
  <2> QED
    BY <1>2, <1>13, <1>14, <2>1 DEF TransferInv, Alive
<1> QED
  BY <1>11, <1>12, <1>13, <1>14, <1>15, <1>17, <1>18 DEF TransferInv

LEMMA RequestKept ==
    ASSUME TransferInv, NEW d \in Desks, WriteRequest(d)
    PROVE  TransferInv'
<1>1. PICK p, n : p = form[d] /\ n = Len(transfers) + 1
  OBVIOUS
<1>2. PICK row : row = [from |-> p.on, cohort |-> p.cohort, to |-> 0, waived |-> p.waived,
                        status |-> "PENDING_MANAGER"]
  OBVIOUS
<1>3. /\ p.op = "request" /\ p.op \in TransferOps /\ EndForm(d)
      /\ transfers' = Append(transfers, row)
      /\ approved' = approved /\ lines' = lines /\ receipts' = receipts /\ rows' = rows
      /\ claims' = claims /\ owed' = owed /\ seats' = seats
  BY <1>1, <1>2 DEF WriteRequest, Handling, money, partner, TransferOps
<1>4. p.on \in DOMAIN seats /\ p.cohort \in Cohorts /\ p.waived \in BOOLEAN
  BY <1>1, <1>3, FormIs DEF FormFits, IsForm
<1>5. row \in TransferRow /\ row.from = p.on /\ row.to = 0 /\ row.status = "PENDING_MANAGER"
  <2>1. p.on \in Nat \ {0}
    BY <1>4, SeatsThere
  <2> QED
    BY <1>2, <1>4, <2>1 DEF TransferRow
<1>6. transfers \in Seq(TransferRow)
  BY DEF TransferInv, MoveTables, TransfersTyped
<1>7. /\ transfers' \in Seq(TransferRow)
      /\ DOMAIN transfers' = DOMAIN transfers \cup {n} /\ n \notin DOMAIN transfers
      /\ \A t \in DOMAIN transfers : transfers'[t] = transfers[t]
      /\ transfers'[n] = row
  BY <1>1, <1>3, <1>5, <1>6, RowAdded
<1>8. Steady
  BY <1>1, <1>3, <1>5, <1>7, Outdating DEF Steady
<1>9. /\ LinesTyped' /\ MoneyTyped' /\ MovesTell' /\ MoneyStays' /\ Priced'
      /\ \A f : ExecutedFrom(f)' <=> ExecutedFrom(f)
      /\ \A f : LinesOf(f)' = LinesOf(f)
      /\ \A f : Collected(f)' = Collected(f)
  BY <1>8, SteadyKeeps
<1>10. Writes(p)
  BY <1>3, <1>5, <1>7, <1>9 DEF Writes
<1>11. MoveTables'
  <2>1. PlacesTyped'
    BY <1>3 DEF TransferInv, MoveTables, PlacesTyped
  <2>2. TransfersTyped'
    <3>1. \A t \in DOMAIN transfers' :
              /\ transfers'[t].from \in DOMAIN seats
              /\ transfers'[t].to \in DOMAIN seats \cup {0}
              /\ transfers'[t].status = "EXECUTED" => transfers'[t].to # 0
              /\ transfers'[t].to # 0 => seats[transfers'[t].from].status # "LIVE"
      BY <1>4, <1>5, <1>7 DEF TransferInv, MoveTables, TransfersTyped
    <3> QED
      BY <1>3, <1>7, <3>1 DEF TransfersTyped
  <2>3. OwedTyped'
    BY <1>3, <1>7 DEF TransferInv, MoveTables, OwedTyped
  <2> QED
    BY <1>3, <1>9, <2>1, <2>2, <2>3 DEF TransferInv, MoveTables
<1>12. /\ FormsSound'
       /\ MovedAlone' => \A x \in Desks : Spared(form[x])'
       /\ AliveOnce' => \A x \in Desks : Fresh(form[x])'
       /\ \A x \in Desks : Executing(x)' => Executing(x) /\ SeatOf(form[x])' = SeatOf(form[x])
  BY <1>1, <1>3, <1>10, CommitForms
<1>13. /\ outdated' \in SUBSET (TransferOps \X TransferOps)
       /\ MovedAlone' => MovedAlone
       /\ MovedOnce' => MovedOnce
       /\ AliveOnce' => AliveOnce /\ "request" \notin p.overtaken
  BY <1>1, <1>3, Outdating
<1>14. Emptied'
  BY <1>3, <1>9, <1>12, <1>13, EmptiedStays DEF TransferInv
<1>15. LiveSeats' \subseteq LiveSeats
  BY <1>3 DEF LiveSeats
<1>16. Seated'
  BY <1>12, <1>13, <1>15, SeatedStays DEF TransferInv
<1>17. Alive'
  <2>1. \A t \in DOMAIN transfers : Dead(t)' <=> Dead(t)
    BY <1>7 DEF Dead
  <2>2. ASSUME AliveOnce', NEW t \in DOMAIN transfers', NEW u \in DOMAIN transfers',
               transfers'[t].from = transfers'[u].from, t # u
        PROVE  Dead(t)' \/ Dead(u)'
    <3>1. \A v \in DOMAIN transfers : transfers[v].from = p.on => Dead(v)
      BY <1>1, <1>3, <1>13, <2>2, FormIs DEF Fresh
    <3>2. CASE t # n /\ u # n
      BY <1>7, <1>13, <2>1, <2>2, <3>2 DEF TransferInv, Alive
    <3>3. CASE t = n
      BY <1>5, <1>7, <2>1, <2>2, <3>1, <3>3
    <3>4. CASE u = n
      BY <1>5, <1>7, <2>1, <2>2, <3>1, <3>4
    <3> QED
      BY <3>2, <3>3, <3>4
  <2> QED
    BY <1>12, <2>2 DEF Alive
<1> QED
  BY <1>9, <1>11, <1>12, <1>13, <1>14, <1>16, <1>17 DEF TransferInv

(***************************************************************************)
(* A recommendation or a rejection.                                        *)
(***************************************************************************)
LEMMA StatusKept ==
    ASSUME TransferInv, NEW d \in Desks,
           \/ SaveStatus(d, "recommend", "PENDING_FINANCE")
           \/ SaveStatus(d, "reject", "REJECTED")
    PROVE  TransferInv'
<1>1. PICK p, n : p = form[d] /\ n = p.on
  OBVIOUS
<1>2. PICK status : /\ \/ p.op = "recommend" /\ status = "PENDING_FINANCE"
                       \/ p.op = "reject" /\ status = "REJECTED"
                    /\ transfers' = [transfers EXCEPT ![n].status = status]
  BY <1>1 DEF SaveStatus, Handling
<1>3. /\ p.op \in TransferOps /\ p.op \in Decisions /\ p.op \in {"recommend", "reject"} /\ EndForm(d)
      /\ approved' = approved /\ lines' = lines /\ receipts' = receipts /\ rows' = rows
      /\ claims' = claims /\ owed' = owed /\ seats' = seats
  BY <1>2 DEF SaveStatus, money, partner, TransferOps, Decisions
<1>4. n \in DOMAIN transfers
  BY <1>1, <1>3, FormIs DEF FormFits
<1>5. PICK row : row = [transfers[n] EXCEPT !.status = status]
  OBVIOUS
<1>6. transfers[n] \in TransferRow
  BY <1>4, TransfersThere
<1>7. /\ row \in TransferRow /\ row.status = status /\ row.from = transfers[n].from
      /\ row.to = transfers[n].to /\ row.cohort = transfers[n].cohort
  BY <1>2, <1>5, <1>6 DEF TransferRow
<1>8. transfers \in Seq(TransferRow)
  BY DEF TransferInv, MoveTables, TransfersTyped
<1>9. /\ transfers' \in Seq(TransferRow) /\ DOMAIN transfers' = DOMAIN transfers
      /\ \A t \in DOMAIN transfers : transfers'[t] = IF t = n THEN row ELSE transfers[t]
  <2>1. transfers' = [transfers EXCEPT ![n] = row]
    BY <1>2, <1>4, <1>5
  <2> QED
    BY <1>4, <1>7, <1>8, <2>1, RowSaved
<1>10. \A t \in DOMAIN transfers :
           /\ transfers'[t].from = transfers[t].from /\ transfers'[t].to = transfers[t].to
           /\ transfers'[t].cohort = transfers[t].cohort
  BY <1>7, <1>9
<1>11. Steady
  BY <1>1, <1>3, <1>9, <1>10, Outdating DEF Steady
<1>12. /\ LinesTyped' /\ MoneyTyped' /\ MovesTell' /\ MoneyStays' /\ Priced'
       /\ \A f : ExecutedFrom(f)' <=> ExecutedFrom(f)
       /\ \A f : LinesOf(f)' = LinesOf(f)
       /\ \A f : Collected(f)' = Collected(f)
  BY <1>11, SteadyKeeps
<1>13. Writes(p)
  <2>1. \A t \in DOMAIN transfers : transfers'[t] = transfers[t] \/ (p.op \in Decisions /\ p.on = t)
    BY <1>1, <1>3, <1>9
  <2>2. p.op \in {"recommend", "execute"} => transfers'[p.on].status # "REJECTED"
    BY <1>1, <1>2, <1>3, <1>4, <1>7, <1>9
  <2>3. p.op = "reject" => transfers'[p.on].status = "REJECTED" /\ transfers'[p.on].to = transfers[p.on].to
    BY <1>1, <1>2, <1>4, <1>7, <1>9
  <2> QED
    BY <1>3, <1>9, <1>10, <1>12, <2>1, <2>2, <2>3 DEF Writes
<1>14. MoveTables'
  <2>1. PlacesTyped'
    BY <1>3 DEF TransferInv, MoveTables, PlacesTyped
  <2>2. TransfersTyped'
    <3>1. status # "EXECUTED"
      BY <1>2
    <3>2. \A t \in DOMAIN transfers' :
              /\ transfers'[t].from \in DOMAIN seats
              /\ transfers'[t].to \in DOMAIN seats \cup {0}
              /\ transfers'[t].status = "EXECUTED" => transfers'[t].to # 0
              /\ transfers'[t].to # 0 => seats[transfers'[t].from].status # "LIVE"
      BY <1>7, <1>9, <1>10, <3>1 DEF TransferInv, MoveTables, TransfersTyped
    <3> QED
      BY <1>3, <1>9, <3>2 DEF TransfersTyped
  <2>3. OwedTyped'
    BY <1>3, <1>9, <1>10 DEF TransferInv, MoveTables, OwedTyped
  <2> QED
    BY <1>3, <1>12, <2>1, <2>2, <2>3 DEF TransferInv, MoveTables
<1>15. /\ FormsSound'
       /\ MovedAlone' => \A x \in Desks : Spared(form[x])'
       /\ AliveOnce' => \A x \in Desks : Fresh(form[x])'
       /\ \A x \in Desks : Executing(x)' => Executing(x) /\ SeatOf(form[x])' = SeatOf(form[x])
  BY <1>1, <1>3, <1>13, CommitForms
<1>16. /\ outdated' \in SUBSET (TransferOps \X TransferOps)
       /\ MovedAlone' => MovedAlone
       /\ MovedOnce' => MovedOnce
       /\ AliveOnce' => AliveOnce /\ ~Revives(p)
  BY <1>1, <1>3, Outdating
<1>17. Emptied'
  BY <1>3, <1>12, <1>15, <1>16, EmptiedStays DEF TransferInv
<1>18. LiveSeats' \subseteq LiveSeats
  BY <1>3 DEF LiveSeats
<1>19. Seated'
  BY <1>15, <1>16, <1>18, SeatedStays DEF TransferInv
<1>20. Alive'
  <2>1. FormSound(p)
    BY <1>1, FormIs
  <2>2. ASSUME AliveOnce' PROVE \A t \in DOMAIN transfers : Dead(t) => Dead(t)'
    BY <1>13, <1>16, <2>1, <2>2, DeadStays
  <2>3. ASSUME AliveOnce', NEW t \in DOMAIN transfers', NEW u \in DOMAIN transfers',
               transfers'[t].from = transfers'[u].from, t # u
        PROVE  Dead(t)' \/ Dead(u)'
    <3>1. t \in DOMAIN transfers /\ u \in DOMAIN transfers /\ transfers[t].from = transfers[u].from
      BY <1>9, <1>10, <2>3
    <3>2. Dead(t) \/ Dead(u)
      BY <1>16, <2>3, <3>1 DEF TransferInv, Alive
    <3> QED
      BY <2>2, <2>3, <3>1, <3>2
  <2> QED
    BY <1>15, <2>3 DEF Alive
<1> QED
  BY <1>12, <1>14, <1>15, <1>16, <1>17, <1>19, <1>20 DEF TransferInv

-----------------------------------------------------------------------------
(* What goes on around a transfer without a form. *)

LEMMA FormsStay ==
    ASSUME TransferInv, form' = form, outdated' = outdated,
           DOMAIN seats' = DOMAIN seats, lines' = lines, transfers' = transfers
    PROVE  /\ FormsSound'
           /\ MovedAlone' => MovedAlone /\ \A x \in Desks : Spared(form[x])'
           /\ MovedOnce' => MovedOnce
           /\ Alive'
           /\ \A x \in Desks : Executing(x)' => Executing(x) /\ SeatOf(form[x])' = SeatOf(form[x])
           /\ outdated' \in SUBSET (TransferOps \X TransferOps)
           /\ <<"execute", "execute">> \in outdated => <<"execute", "execute">> \in outdated'
<1>1. /\ \A q : FormSound(q)' <=> FormSound(q)
      /\ \A q : Fresh(q)' <=> Fresh(q)
      /\ \A q : Spared(q)' <=> Spared(q)
      /\ \A q : SeatOf(q)' = SeatOf(q)
  BY SameForms
<1>2. ASSUME NEW x \in Desks
      PROVE  /\ FormSound(form[x])' <=> FormSound(form[x])
             /\ Fresh(form[x])' <=> Fresh(form[x])
             /\ Spared(form[x])' <=> Spared(form[x])
             /\ SeatOf(form[x])' = SeatOf(form[x])
             /\ Executing(x)' <=> Executing(x)
  <2>1. PICK r : r = form[x] /\ r = form'[x]
    OBVIOUS
  <2>2. Executing(x)' <=> Executing(x)
    BY DEF Executing, Handling
  <2>3. (FormSound(r)' <=> FormSound(r)) /\ (Fresh(r)' <=> Fresh(r)) /\ (Spared(r)' <=> Spared(r))
        /\ SeatOf(r)' = SeatOf(r)
    BY <1>1
  <2> QED
    BY <2>1, <2>2, <2>3
<1>3. FormsSound'
  BY <1>2 DEF TransferInv, FormsSound
<1>4. MovedAlone' => MovedAlone /\ \A x \in Desks : Spared(form[x])'
  BY <1>2 DEF TransferInv, Emptied, MovedAlone
<1>5. Alive'
  <2>1. \A t : Dead(t)' <=> Dead(t)
    BY DEF Dead
  <2>2. AliveOnce' <=> AliveOnce
    BY DEF AliveOnce
  <2> QED
    BY <1>2, <2>1, <2>2 DEF TransferInv, Alive
<1>6. MovedOnce' => MovedOnce
  BY DEF MovedOnce
<1>7. outdated' \in SUBSET (TransferOps \X TransferOps)
  BY DEF TransferInv
<1> QED
  BY <1>2, <1>3, <1>4, <1>5, <1>6, <1>7

(***************************************************************************)
(* A step that leaves lines, money, transfers and forms alone.             *)
(***************************************************************************)
LEMMA AsideKept ==
    ASSUME TransferInv, form' = form, outdated' = outdated, transfers' = transfers, owed' = owed,
           lines' = lines, receipts' = receipts, rows' = rows,
           DOMAIN seats' = DOMAIN seats, \A e \in DOMAIN seats : seats'[e].status = seats[e].status,
           PlacesTyped', approved' \in SUBSET Cohorts, claims' \in [1 .. MaxSeats -> Nat]
    PROVE  TransferInv'
<1>1. /\ FormsSound'
      /\ MovedAlone' => MovedAlone /\ \A x \in Desks : Spared(form[x])'
      /\ MovedOnce' => MovedOnce
      /\ Alive'
      /\ \A x \in Desks : Executing(x)' => Executing(x) /\ SeatOf(form[x])' = SeatOf(form[x])
      /\ outdated' \in SUBSET (TransferOps \X TransferOps)
  BY FormsStay
<1>2. Steady
  <2>1. \A t \in DOMAIN transfers' : t \in DOMAIN transfers
    OBVIOUS
  <2> QED
    BY <2>1 DEF Steady
<1>3. /\ LinesTyped' /\ MoneyTyped' /\ MovesTell' /\ MoneyStays' /\ Priced'
      /\ \A f : ExecutedFrom(f)' <=> ExecutedFrom(f)
      /\ \A f : LinesOf(f)' = LinesOf(f)
      /\ \A f : Collected(f)' = Collected(f)
  BY <1>2, SteadyKeeps
<1>4. MoveTables'
  <2>1. TransfersTyped'
    BY DEF TransferInv, MoveTables, TransfersTyped
  <2>2. OwedTyped'
    BY DEF TransferInv, MoveTables, OwedTyped
  <2> QED
    BY <1>3, <2>1, <2>2 DEF MoveTables
<1>5. Emptied'
  BY <1>1, <1>3, EmptiedStays DEF TransferInv
<1>6. Seated'
  <2>1. LiveSeats' \subseteq LiveSeats
    BY DEF LiveSeats
  <2> QED
    BY <1>1, <2>1, SeatedStays DEF TransferInv
<1> QED
  BY <1>1, <1>3, <1>4, <1>5, <1>6 DEF TransferInv

LEMMA AttendanceKept ==
    ASSUME TransferInv, NEW e \in DOMAIN seats, RecordAttendance(e)
    PROVE  TransferInv'
<1>1. /\ seats' = [seats EXCEPT ![e].documented = TRUE]
      /\ form' = form /\ outdated' = outdated /\ transfers' = transfers /\ owed' = owed
      /\ lines' = lines /\ receipts' = receipts /\ rows' = rows
      /\ approved' = approved /\ claims' = claims
  BY DEF RecordAttendance, money, partner
<1>2. seats \in Seq(SeatRow) /\ Len(seats) \in 1 .. MaxSeats
  BY DEF TransferInv, MoveTables, PlacesTyped
<1>3. PICK row : row = [seats[e] EXCEPT !.documented = TRUE]
  OBVIOUS
<1>4. row \in SeatRow /\ row.status = seats[e].status
  BY <1>3, SeatsThere DEF SeatRow
<1>5. seats' = [seats EXCEPT ![e] = row]
  BY <1>1, <1>3
<1>6. /\ seats' \in Seq(SeatRow) /\ DOMAIN seats' = DOMAIN seats /\ Len(seats') = Len(seats)
      /\ \A f \in DOMAIN seats : seats'[f] = IF f = e THEN row ELSE seats[f]
  BY <1>2, <1>4, <1>5, RowSaved
<1>7. PlacesTyped'
  BY <1>2, <1>6 DEF PlacesTyped
<1>8. \A f \in DOMAIN seats : seats'[f].status = seats[f].status
  BY <1>4, <1>6
<1>9. approved' \in SUBSET Cohorts /\ claims' \in [1 .. MaxSeats -> Nat]
  BY <1>1 DEF TransferInv, MoveTables
<1> QED
  BY <1>1, <1>6, <1>7, <1>8, <1>9, AsideKept

LEMMA RejectionKept ==
    ASSUME TransferInv, NEW c \in Cohorts, RejectCohort(c)
    PROVE  TransferInv'
<1>1. /\ approved' = approved \ {c} /\ seats' = seats
      /\ form' = form /\ outdated' = outdated /\ transfers' = transfers /\ owed' = owed
      /\ lines' = lines /\ receipts' = receipts /\ rows' = rows /\ claims' = claims
  BY DEF RejectCohort, money, partner
<1>2. approved' \in SUBSET Cohorts /\ claims' \in [1 .. MaxSeats -> Nat] /\ PlacesTyped'
  BY <1>1 DEF TransferInv, MoveTables, PlacesTyped
<1> QED
  BY <1>1, <1>2, AsideKept

LEMMA ClaimKept ==
    ASSUME TransferInv, NEW e \in DOMAIN seats, ApproveClaim(e)
    PROVE  TransferInv'
<1>1. /\ claims' = [claims EXCEPT ![e] = ShareableCollected(e)] /\ ShareableCollected(e) > 0
      /\ form' = form /\ outdated' = outdated /\ transfers' = transfers /\ owed' = owed
      /\ lines' = lines /\ receipts' = receipts /\ rows' = rows
      /\ approved' = approved /\ seats' = seats
  BY DEF ApproveClaim, money
<1>2. ShareableCollected(e) \in Int
  <2>1. PICK I : I = {i \in RowsOf(e) : rows[i].line # 0 /\ lines[rows[i].line].type # "REGISTRATION"}
    OBVIOUS
  <2>2. I \subseteq DOMAIN rows
    BY <2>1 DEF RowsOf
  <2>3. Allocated(I) \in Int
    BY <2>2, AllocatedTyped DEF TransferInv, MoveTables
  <2> QED
    BY <2>1, <2>3 DEF ShareableCollected
<1>3. PICK share : share = ShareableCollected(e)
  OBVIOUS
<1>4. claims' = [claims EXCEPT ![e] = share] /\ share \in Nat
  BY <1>1, <1>2, <1>3
<1>5. approved' \in SUBSET Cohorts /\ claims' \in [1 .. MaxSeats -> Nat] /\ PlacesTyped'
  BY <1>1, <1>4 DEF TransferInv, MoveTables, PlacesTyped
<1> QED
  BY <1>1, <1>5, AsideKept

-----------------------------------------------------------------------------
(* Tables joined to tables. *)

LEMMA JoinedRows ==
    ASSUME NEW T, NEW t \in Seq(T), NEW u \in Seq(T), NEW w, Onto(w, t, u)
    PROVE  /\ w \in Seq(T) /\ Len(w) = Len(t) + Len(u)
           /\ DOMAIN t \subseteq DOMAIN w
           /\ \A i \in DOMAIN t : w[i] = t[i]
           /\ \A i \in DOMAIN w : i \notin DOMAIN t => \E k \in DOMAIN u : w[i] = u[k]
           /\ \A k \in DOMAIN u : Len(t) + k \in DOMAIN w /\ w[Len(t) + k] = u[k]
<1>1. PICK m, n : m = Len(t) /\ n = Len(u)
  OBVIOUS
<1>2. Longer(T, w, t, u, m, n)
  BY <1>1, TableJoined
<1>3. /\ w \in Seq(T) /\ Len(w) = m + n /\ m \in Nat /\ n \in Nat
      /\ DOMAIN t = 1 .. m /\ DOMAIN u = 1 .. n /\ DOMAIN w = 1 .. (m + n)
      /\ \A i \in 1 .. m : w[i] = t[i]
      /\ \A k \in 1 .. n : w[m + k] = u[k]
  BY <1>2 DEF Longer
<1>4. ASSUME NEW i \in DOMAIN w, i \notin DOMAIN t PROVE \E k \in DOMAIN u : w[i] = u[k]
  <2>1. i - m \in 1 .. n /\ i = m + (i - m)
    BY <1>3, <1>4
  <2>2. w[m + (i - m)] = u[i - m]
    BY <1>3, <2>1
  <2> QED
    BY <1>3, <2>1, <2>2
<1>5. DOMAIN t \subseteq DOMAIN w
  BY <1>3
<1>6. \A k \in 1 .. n : m + k \in 1 .. (m + n)
  BY <1>3
<1> QED
  BY <1>1, <1>3, <1>4, <1>5, <1>6

AmountOf == [a \in Allocation |-> a.amount]

OfReceipt(r) == {a \in Allocation : a.receipt = r}

OfSeat(e) == {a \in Allocation : a.enrolment = e}

LEMMA AmountsAre ==
    /\ Values(AmountOf, Allocation)
    /\ \A a \in Allocation : AmountOf[a] = a.amount
  BY DEF Values, AmountOf, Allocation

(***************************************************************************)
(* What listed allocations come to.                                        *)
(***************************************************************************)
LEMMA AmountsListed ==
    ASSUME NEW f, NEW S, NEW u, Lists(u, f, S, Allocation),
           NEW amount, \A x \in S : amount[x] = f[x].amount
    PROVE  \A Q : SumIn(AmountOf, u, Q) = SumFunctionOnSet(amount, {x \in S : f[x] \in Q})
<1> SUFFICES ASSUME NEW Q
             PROVE  SumIn(AmountOf, u, Q) = SumFunctionOnSet(amount, {x \in S : f[x] \in Q})
  OBVIOUS
<1>1. PICK P : P = {x \in S : f[x] \in Q}
  OBVIOUS
<1>2. Values(AmountOf, Allocation) /\ \A x \in S : amount[x] = AmountOf[f[x]]
  BY AmountsAre DEF Lists
<1>3. SumIn(AmountOf, u, Q) = SumFunctionOnSet(amount, P)
  BY <1>1, <1>2, ListedSum
<1> QED
  BY <1>1, <1>3

LEMMA SumsAre ==
    MoneyTyped => /\ \A r : Allocated({i \in DOMAIN rows : rows[i].receipt = r})
                               = SumIn(AmountOf, rows, OfReceipt(r))
                 /\ \A e : Collected(e) = SumIn(AmountOf, rows, OfSeat(e))
<1> SUFFICES ASSUME MoneyTyped
             PROVE  /\ \A r : Allocated({i \in DOMAIN rows : rows[i].receipt = r})
                                  = SumIn(AmountOf, rows, OfReceipt(r))
                    /\ \A e : Collected(e) = SumIn(AmountOf, rows, OfSeat(e))
  OBVIOUS
<1>1. \A i \in DOMAIN rows : rows[i] \in Allocation
  BY RowsThere
<1>2. Valued(AmountOf, rows) = [i \in DOMAIN rows |-> rows[i].amount]
  <2>1. \A i \in DOMAIN rows : AmountOf[rows[i]] = rows[i].amount
    BY <1>1, AmountsAre
  <2> QED
    BY <2>1 DEF Valued
<1>3. ASSUME NEW r PROVE {i \in DOMAIN rows : rows[i].receipt = r} = OfKind(rows, OfReceipt(r))
  BY <1>1 DEF OfKind, OfReceipt
<1>4. ASSUME NEW e PROVE RowsOf(e) = OfKind(rows, OfSeat(e))
  BY <1>1 DEF OfKind, OfSeat, RowsOf
<1>5. \A Q : SumIn(AmountOf, rows, Q) = Allocated(OfKind(rows, Q))
  BY <1>2 DEF SumIn, Allocated
<1> QED
  BY <1>3, <1>4, <1>5 DEF Collected

LEMMA SumsAreLater ==
    MoneyTyped' => /\ \A r : Allocated({i \in DOMAIN rows : rows[i].receipt = r})'
                               = SumIn(AmountOf, rows', OfReceipt(r))
                  /\ \A e : Collected(e)' = SumIn(AmountOf, rows', OfSeat(e))
<1>1. (MoneyTyped => /\ \A r : Allocated({i \in DOMAIN rows : rows[i].receipt = r})
                                  = SumIn(AmountOf, rows, OfReceipt(r))
                    /\ \A e : Collected(e) = SumIn(AmountOf, rows, OfSeat(e)))'
  BY SumsAre, PTL
<1> QED
  BY <1>1

(***************************************************************************)
(* Allocations added: where what they come to for a receipt is known, and  *)
(* none is a refund, money stays.                                          *)
(***************************************************************************)
LEMMA RefundsStay ==
    ASSUME NEW u \in Seq(Allocation), rows \in Seq(Allocation), Onto(rows', rows, u),
           \A k \in DOMAIN u : u[k].why # "refund", NEW r
    PROVE  RefundedOf(r)' = RefundedOf(r)
<1>1. /\ DOMAIN rows \subseteq DOMAIN rows'
      /\ \A i \in DOMAIN rows : rows'[i] = rows[i]
      /\ \A i \in DOMAIN rows' : i \notin DOMAIN rows => \E k \in DOMAIN u : rows'[i] = u[k]
  BY JoinedRows
<1>2. \A i \in DOMAIN rows' : rows'[i].why = "refund" => i \in DOMAIN rows
  BY <1>1
<1> QED
  BY <1>1, <1>2 DEF RefundedOf

(***************************************************************************)
(* The allocation that a refund adds: on the books of the receipt and the  *)
(* enrolment it is taken from, one less.                                   *)
(***************************************************************************)
LEMMA RefundAdds ==
    ASSUME MoneyTyped, MoneyTyped', NEW row \in Allocation, rows' = Append(rows, row),
           row.amount = -1, row.why = "refund"
    PROVE  /\ \A r : Allocated({i \in DOMAIN rows : rows[i].receipt = r})'
                         = Allocated({i \in DOMAIN rows : rows[i].receipt = r})
                               + (IF row.receipt = r THEN -1 ELSE 0)
           /\ \A r : Cardinality(RefundedOf(r)') = Cardinality(RefundedOf(r))
                                                       + (IF row.receipt = r THEN 1 ELSE 0)
           /\ \A r : Cardinality(RefundedOf(r)) \in Nat
           /\ \A e : e # row.enrolment => Collected(e)' = Collected(e)
<1>1. rows \in Seq(Allocation)
  BY DEF MoneyTyped
<1>2. Lengthened(rows', rows, row)
  BY DEF Lengthened
<1>3. \A Q : SumIn(AmountOf, rows', Q) = SumIn(AmountOf, rows, Q) + ValueIn(AmountOf, row, Q)
  <2>1. PICK table, longer : table = rows /\ longer = rows'
    OBVIOUS
  <2>2. \A Q : SumIn(AmountOf, longer, Q) = SumIn(AmountOf, table, Q) + ValueIn(AmountOf, row, Q)
    BY <1>1, <1>2, <2>1, AmountsAre, SumAppended
  <2> QED
    BY <2>1, <2>2
<1>4. AmountOf[row] = -1
  BY AmountsAre
<1>5. \A r : ValueIn(AmountOf, row, OfReceipt(r)) = IF row.receipt = r THEN -1 ELSE 0
  BY <1>4 DEF ValueIn, OfReceipt
<1>6. \A e : e # row.enrolment => ValueIn(AmountOf, row, OfSeat(e)) = 0
  BY DEF ValueIn, OfSeat
<1>7. \A Q : SumIn(AmountOf, rows, Q) \in Int
  BY <1>1, AmountsAre, KindsAre
<1>8. ASSUME NEW r
      PROVE  /\ Cardinality(RefundedOf(r)') = Cardinality(RefundedOf(r)) + (IF row.receipt = r THEN 1 ELSE 0)
             /\ Cardinality(RefundedOf(r)) \in Nat
  <2>1. PICK n : n = Len(rows) + 1
    OBVIOUS
  <2>2. /\ DOMAIN rows' = DOMAIN rows \cup {n} /\ n \notin DOMAIN rows
        /\ \A i \in DOMAIN rows : rows'[i] = rows[i]
        /\ rows'[n] = row
    BY <1>1, <2>1, RowAdded
  <2>3. RefundedOf(r) \subseteq DOMAIN rows /\ IsFiniteSet(RefundedOf(r))
    <3>1. RefundedOf(r) \subseteq DOMAIN rows
      BY DEF RefundedOf
    <3> QED
      BY <3>1, RowsThere, FS_Subset
  <2>4. RefundedOf(r)' = IF row.receipt = r THEN RefundedOf(r) \cup {n} ELSE RefundedOf(r)
    BY <2>2 DEF RefundedOf
  <2>5. Cardinality(RefundedOf(r) \cup {n}) = Cardinality(RefundedOf(r)) + 1
    <3>1. n \notin RefundedOf(r)
      BY <2>2, <2>3
    <3> QED
      BY <2>3, <3>1, FS_AddElement
  <2>6. Cardinality(RefundedOf(r)) \in Nat
    BY <2>3, FS_CardinalityType
  <2> QED
    BY <2>4, <2>5, <2>6
<1>9. ASSUME NEW r
      PROVE  Allocated({i \in DOMAIN rows : rows[i].receipt = r})'
                 = Allocated({i \in DOMAIN rows : rows[i].receipt = r})
                       + (IF row.receipt = r THEN -1 ELSE 0)
  <2>1. Allocated({i \in DOMAIN rows : rows[i].receipt = r})' = SumIn(AmountOf, rows', OfReceipt(r))
    BY SumsAreLater, Zenon
  <2>2. Allocated({i \in DOMAIN rows : rows[i].receipt = r}) = SumIn(AmountOf, rows, OfReceipt(r))
    BY SumsAre, Zenon
  <2> QED
    BY <1>3, <1>5, <2>1, <2>2, Zenon
<1>10. \A e : e # row.enrolment => Collected(e)' = Collected(e)
  BY <1>3, <1>6, <1>7, SumsAre, SumsAreLater
<1> QED
  BY <1>8, <1>9, <1>10

LEMMA RefundKept ==
    ASSUME TransferInv, NEW e \in DOMAIN seats, Refund(e)
    PROVE  TransferInv'
<1>1. /\ approved' = approved /\ seats' = seats /\ lines' = lines /\ receipts' = receipts
      /\ claims' = claims /\ transfers' = transfers /\ form' = form /\ outdated' = outdated
      /\ Collected(e) > 0
  BY DEF Refund
<1>2. PICK i \in Received(e) : rows' = Append(rows, [rows[i] EXCEPT !.amount = -1, !.why = "refund"])
  BY DEF Refund
<1>3. LinesTyped /\ MoneyTyped /\ rows \in Seq(Allocation)
  BY DEF TransferInv, MoveTables, MoneyTyped
<1>4. i \in DOMAIN rows /\ rows[i].enrolment = e /\ rows[i] \in Allocation
  BY <1>3, RowsThere DEF Received, RowsOf
<1>5. PICK row : row = [rows[i] EXCEPT !.amount = -1, !.why = "refund"]
  OBVIOUS
<1>6. /\ row \in Allocation /\ row.amount = -1 /\ row.why = "refund"
      /\ row.receipt = rows[i].receipt /\ row.line = rows[i].line /\ row.enrolment = e
  <2>1. PICK a : a = rows[i]
    OBVIOUS
  <2>2. a = [receipt |-> a.receipt, line |-> a.line, enrolment |-> a.enrolment, amount |-> a.amount,
             why |-> a.why]
        /\ a.receipt \in Nat \ {0} /\ a.line \in Nat /\ a.enrolment \in Nat \ {0}
    BY <1>4, <2>1 DEF Allocation
  <2>3. row = [receipt |-> a.receipt, line |-> a.line, enrolment |-> a.enrolment, amount |-> -1,
               why |-> "refund"]
    BY <1>5, <2>1, <2>2
  <2>4. row.amount = -1 /\ row.why = "refund"
        /\ row.receipt = a.receipt /\ row.line = a.line /\ row.enrolment = a.enrolment
    BY <2>3
  <2>5. row \in Allocation
    BY <2>2, <2>3 DEF Allocation
  <2> QED
    BY <1>4, <2>1, <2>4, <2>5
<1>7. rows' = Append(rows, row)
  BY <1>2, <1>5
<1>8. PICK n : n = Len(rows) + 1
  OBVIOUS
<1>9. /\ rows' \in Seq(Allocation) /\ DOMAIN rows' = DOMAIN rows \cup {n} /\ n \notin DOMAIN rows
      /\ \A j \in DOMAIN rows : rows'[j] = rows[j]
      /\ rows'[n] = row
  BY <1>3, <1>6, <1>7, <1>8, RowAdded
<1>10. MoneyTyped'
  <2>1. \A j \in DOMAIN rows' : /\ rows'[j].receipt \in DOMAIN receipts
                                /\ rows'[j].line \in DOMAIN lines \cup {0}
                                /\ rows'[j].enrolment \in DOMAIN seats
    BY <1>3, <1>4, <1>6, <1>9, RowsThere
  <2>2. receipts \in Seq(Nat \ {0})
    BY <1>3 DEF MoneyTyped
  <2> QED
    BY <1>1, <1>9, <2>1, <2>2 DEF MoneyTyped
<1>11. /\ FormsSound'
       /\ MovedAlone' => MovedAlone /\ \A x \in Desks : Spared(form[x])'
       /\ MovedOnce' => MovedOnce
       /\ Alive'
       /\ \A x \in Desks : Executing(x)' => Executing(x) /\ SeatOf(form[x])' = SeatOf(form[x])
       /\ outdated' \in SUBSET (TransferOps \X TransferOps)
  BY <1>1, FormsStay
<1>12. /\ \A f : ExecutedFrom(f)' <=> ExecutedFrom(f)
       /\ \A f : LinesOf(f)' = LinesOf(f)
  BY <1>1, SameForms
<1>13. MoveTables'
  <2>1. LinesTyped' /\ PlacesTyped' /\ TransfersTyped'
    BY <1>1 DEF TransferInv, MoveTables, LinesTyped, PlacesTyped, TransfersTyped
  <2>2. OwedTyped'
    <3>1. OwedTyped
      BY DEF TransferInv, MoveTables
    <3>2. CASE owed' = owed
      BY <1>1, <3>1, <3>2 DEF OwedTyped
    <3>3. CASE owed' = Append(owed, [enrolment |-> e, amount |-> 1, transfer |-> 0])
      <4>1. PICK o, k : o = [enrolment |-> e, amount |-> 1, transfer |-> 0] /\ k = Len(owed) + 1
        OBVIOUS
      <4>2. o \in Obligation /\ o.transfer = 0
        BY <4>1, SeatsThere DEF Obligation
      <4>3. owed \in Seq(Obligation)
        BY <3>1 DEF OwedTyped
      <4>4. /\ owed' \in Seq(Obligation) /\ DOMAIN owed' = DOMAIN owed \cup {k}
            /\ \A j \in DOMAIN owed : owed'[j] = owed[j]
            /\ owed'[k] = o
        BY <3>3, <4>1, <4>2, <4>3, RowAdded
      <4>5. \A j \in DOMAIN owed' : owed'[j].transfer # 0 => j \in DOMAIN owed /\ owed'[j] = owed[j]
        BY <4>2, <4>4
      <4> QED
        BY <1>1, <3>1, <4>4, <4>5 DEF OwedTyped
    <3> QED
      BY <3>2, <3>3 DEF Refund
  <2> QED
    BY <1>1, <1>10, <2>1, <2>2 DEF TransferInv, MoveTables
<1>14. MovesTell'
  <2>1. ASSUME NEW j \in DOMAIN rows'
        PROVE  /\ rows'[j].why = "payment" => rows'[j].amount > 0
               /\ rows'[j].why = "refund" => rows'[j].amount = -1
               /\ rows'[j].why = "move" /\ rows'[j].amount < 0 => ExecutedFrom(rows[j].enrolment)'
    <3>1. CASE j \in DOMAIN rows
      <4>1. PICK f : f = rows[j].enrolment /\ f = rows'[j].enrolment
        BY <1>9, <3>1
      <4>2. /\ rows[j].why = "payment" => rows[j].amount > 0
            /\ rows[j].why = "refund" => rows[j].amount = -1
            /\ rows[j].why = "move" /\ rows[j].amount < 0 => ExecutedFrom(f)
        BY <3>1, <4>1 DEF TransferInv, MovesTell
      <4>3. ExecutedFrom(rows[j].enrolment)' <=> ExecutedFrom(f)'
        BY <4>1
      <4> QED
        BY <1>9, <1>12, <3>1, <4>2, <4>3
    <3>2. CASE j = n
      BY <1>6, <1>9, <3>2
    <3> QED
      BY <1>9, <3>1, <3>2
  <2> QED
    BY <2>1 DEF MovesTell
<1>15. /\ \A r : Allocated({j \in DOMAIN rows : rows[j].receipt = r})'
                     = Allocated({j \in DOMAIN rows : rows[j].receipt = r})
                           + (IF row.receipt = r THEN -1 ELSE 0)
       /\ \A r : Cardinality(RefundedOf(r)') = Cardinality(RefundedOf(r))
                                                   + (IF row.receipt = r THEN 1 ELSE 0)
       /\ \A r : Cardinality(RefundedOf(r)) \in Nat
       /\ \A f : f # e => Collected(f)' = Collected(f)
  BY <1>3, <1>6, <1>7, <1>10, RefundAdds
<1>16. MoneyStays'
  <2>1. CASE \E f \in DOMAIN seats : ExecutedFrom(f) /\ Refunded(f)
    <3>1. PICK f \in DOMAIN seats : ExecutedFrom(f) /\ Refunded(f)
      BY <2>1
    <3>2. Refunded(f)'
      BY <1>9, <3>1 DEF Refunded
    <3> QED
      BY <1>1, <1>12, <3>1, <3>2 DEF MoneyStays
  <2>2. CASE <<"execute", "execute">> \in outdated
    BY <1>1, <2>2 DEF MoneyStays
  <2>3. CASE \A r \in DOMAIN receipts :
                 Allocated({j \in DOMAIN rows : rows[j].receipt = r})
                     = receipts[r] - Cardinality(RefundedOf(r))
    <3>1. ASSUME NEW r \in DOMAIN receipts
          PROVE  Allocated({j \in DOMAIN rows : rows[j].receipt = r})'
                     = receipts[r] - Cardinality(RefundedOf(r))'
      <4>1. PICK was, now, k, m : /\ was = Allocated({j \in DOMAIN rows : rows[j].receipt = r})
                                  /\ now = Allocated({j \in DOMAIN rows : rows[j].receipt = r})'
                                  /\ k = Cardinality(RefundedOf(r)) /\ m = Cardinality(RefundedOf(r)')
        OBVIOUS
      <4>2. k \in Nat /\ m = k + (IF row.receipt = r THEN 1 ELSE 0)
        BY <1>15, <4>1
      <4>3. now = was + (IF row.receipt = r THEN -1 ELSE 0)
        BY <1>15, <4>1, Zenon
      <4>4. was = receipts[r] - k
        BY <2>3, <4>1
      <4>5. receipts[r] \in Int
        BY <1>3, ReceiptsThere
      <4>6. now = receipts[r] - m
        BY <4>2, <4>3, <4>4, <4>5
      <4> QED
        BY <4>1, <4>6
    <3> QED
      BY <1>1, <3>1 DEF MoneyStays
  <2> QED
    BY <2>1, <2>2, <2>3 DEF TransferInv, MoneyStays
<1>17. Emptied'
  <2>1. ASSUME MovedAlone', NEW f \in DOMAIN seats', ExecutedFrom(f)'
        PROVE  Collected(f)' = 0 /\ LinesOf(f)' = {}
    <3>1. MovedAlone /\ ExecutedFrom(f) /\ f \in DOMAIN seats
      BY <1>1, <1>11, <1>12, <2>1
    <3>2. Collected(f) = 0 /\ LinesOf(f) = {}
      BY <3>1 DEF TransferInv, Emptied
    <3>3. f # e
      BY <1>1, <3>2
    <3> QED
      BY <1>12, <1>15, <3>2, <3>3
  <2> QED
    BY <1>11, <2>1 DEF Emptied
<1>18. Seated'
  <2>1. LiveSeats' \subseteq LiveSeats
    BY <1>1 DEF LiveSeats
  <2> QED
    BY <1>11, <2>1, SeatedStays DEF TransferInv
<1>19. Priced'
  <2>1. FirstLines' /\ PricedAtFirst'
    BY <1>1 DEF TransferInv, Priced, FirstLines, PricedAtFirst, TuitionOf, LinesOf, Gross
  <2> QED
    BY <1>1, <1>12, <2>1 DEF TransferInv, Priced
<1> QED
  BY <1>11, <1>13, <1>14, <1>16, <1>17, <1>18, <1>19 DEF TransferInv

-----------------------------------------------------------------------------
(* A payment. *)

(***************************************************************************)
(* A payment's allocations are all of its receipt and of its enrolment,    *)
(* and come to the amount paid.                                            *)
(***************************************************************************)
LEMMA PaidIs ==
    ASSUME LinesTyped, MoneyTyped, NEW e \in DOMAIN seats, NEW shares, NEW amount, NEW u, NEW n,
           n = Len(receipts) + 1, e \in Nat \ {0},
           DOMAIN shares \subseteq DOMAIN lines \cup {0},
           \A l \in DOMAIN shares : shares[l] \in Nat \ {0},
           SumFunction(shares) = amount, u = Listed(Paid(shares, e))
    PROVE  /\ u \in Seq(Allocation)
           /\ \A k \in DOMAIN u : /\ u[k].receipt = n /\ u[k].line \in DOMAIN lines \cup {0}
                                  /\ u[k].enrolment = e /\ u[k].amount > 0 /\ u[k].why = "payment"
           /\ SumIn(AmountOf, u, OfReceipt(n)) = amount
           /\ \A r : r # n => SumIn(AmountOf, u, OfReceipt(r)) = 0
           /\ \A f : f # e => SumIn(AmountOf, u, OfSeat(f)) = 0
<1>1. PICK S, f : S = DOMAIN shares /\ f = Paid(shares, e)
  OBVIOUS
<1>2. n \in Nat \ {0}
  BY ReceiptsThere
<1>3. S \subseteq Nat /\ S \in SUBSET Nat /\ IsFiniteSet(S)
  <2>1. IsFiniteSet(DOMAIN lines \cup {0})
    BY LinesThere, FS_AddElement
  <2> QED
    BY <1>1, <2>1, LinesThere, FS_Subset
<1>4. f = [l \in S |-> [receipt |-> n, line |-> l, enrolment |-> e, amount |-> shares[l],
                        why |-> "payment"]]
  BY <1>1 DEF Paid
<1>5. S = DOMAIN f
  BY <1>4
<1>6. \A l \in S : /\ f[l] \in Allocation /\ f[l].receipt = n /\ f[l].line = l
                   /\ f[l].enrolment = e /\ f[l].amount = shares[l] /\ f[l].why = "payment"
  <2> SUFFICES ASSUME NEW l \in S
               PROVE  /\ f[l] \in Allocation /\ f[l].receipt = n /\ f[l].line = l
                      /\ f[l].enrolment = e /\ f[l].amount = shares[l] /\ f[l].why = "payment"
    OBVIOUS
  <2>1. f[l] = [receipt |-> n, line |-> l, enrolment |-> e, amount |-> shares[l], why |-> "payment"]
    BY <1>4
  <2>2. l \in Nat /\ shares[l] \in Int \ {0}
    BY <1>1, <1>3
  <2> QED
    BY <1>2, <2>1, <2>2 DEF Allocation
<1>7. u = Listed(f)
  BY <1>1
<1>8. u \in Seq(Allocation) /\ \A k \in DOMAIN u : \E x \in S : u[k] = f[x]
  <2>1. Lists(u, f, S, Allocation)
    BY <1>3, <1>5, <1>6, <1>7 DEF Lists
  <2> QED
    BY <2>1, ListedRows
<1>9. ASSUME NEW k \in DOMAIN u
      PROVE  /\ u[k].receipt = n /\ u[k].line \in DOMAIN lines \cup {0}
             /\ u[k].enrolment = e /\ u[k].amount > 0 /\ u[k].why = "payment"
  <2>1. PICK x \in S : u[k] = f[x]
    BY <1>8
  <2>2. shares[x] \in Nat \ {0} /\ x \in DOMAIN lines \cup {0}
    BY <1>1
  <2> QED
    BY <1>6, <2>1, <2>2
<1>11. \A Q : SumIn(AmountOf, u, Q) = SumFunctionOnSet(shares, {x \in S : f[x] \in Q})
  <2>1. Lists(u, f, S, Allocation) /\ \A x \in S : shares[x] = f[x].amount
    BY <1>3, <1>5, <1>6, <1>7 DEF Lists
  <2> QED
    BY <2>1, AmountsListed
<1>13. SumIn(AmountOf, u, OfReceipt(n)) = amount
  <2>1. {x \in S : f[x] \in OfReceipt(n)} = S
    BY <1>6 DEF OfReceipt
  <2>3. SumFunctionOnSet(shares, S) = amount
    BY <1>1, SumIsOnSet
  <2> QED
    BY <1>11, <2>1, <2>3
<1>14. SumFunctionOnSet(shares, {}) = 0
  BY SumFirst, FS_EmptySet
<1>15. ASSUME NEW r, r # n PROVE SumIn(AmountOf, u, OfReceipt(r)) = 0
  <2>1. {x \in S : f[x] \in OfReceipt(r)} = {}
    BY <1>6, <1>15 DEF OfReceipt
  <2> QED
    BY <1>11, <1>14, <2>1
<1>16. ASSUME NEW x, x # e PROVE SumIn(AmountOf, u, OfSeat(x)) = 0
  <2>1. {y \in S : f[y] \in OfSeat(x)} = {}
    BY <1>6, <1>16 DEF OfSeat
  <2> QED
    BY <1>11, <1>14, <2>1
<1> QED
  BY <1>8, <1>9, <1>13, <1>15, <1>16

LEMMA PaymentKept ==
    ASSUME TransferInv, NEW d \in Desks, WritePayment(d)
    PROVE  TransferInv'
<1>1. PICK p, e, n : p = form[d] /\ e = p.on /\ n = Len(receipts) + 1
  OBVIOUS
<1>2. PICK u : u = Listed(Paid(p.shares, e))
  OBVIOUS
<1>3. /\ p.op = "pay" /\ p.op \in TransferOps /\ p.started /\ EndForm(d)
      /\ receipts' = Append(receipts, p.amount)
      /\ approved' = approved /\ seats' = seats /\ lines' = lines
      /\ claims' = claims /\ owed' = owed /\ transfers' = transfers
  BY <1>1 DEF WritePayment, Handling, partner, TransferOps
<1>4. Onto(rows', rows, u)
  BY <1>1, <1>2 DEF WritePayment, Onto
<1>5. /\ e \in DOMAIN seats /\ p.amount \in Nat \ {0}
      /\ SumFunction(p.shares) = p.amount /\ DOMAIN p.shares \subseteq DOMAIN lines \cup {0}
      /\ \A l \in DOMAIN p.shares : p.shares[l] \in Nat \ {0}
  <2>1. FormFits(p) /\ IsForm(p)
    BY <1>1, FormIs
  <2>2. p.amount \in Nat /\ \A l \in DOMAIN p.shares : p.shares[l] \in Nat \ {0}
    BY <2>1 DEF IsForm
  <2> QED
    BY <1>1, <1>3, <2>1, <2>2 DEF FormFits
<1>6. LinesTyped /\ MoneyTyped /\ rows \in Seq(Allocation) /\ receipts \in Seq(Nat \ {0})
  BY DEF TransferInv, MoveTables, MoneyTyped
<1>7. e \in Nat \ {0}
  BY <1>5, SeatsThere
<1>8. /\ u \in Seq(Allocation)
      /\ \A k \in DOMAIN u : /\ u[k].receipt = n /\ u[k].line \in DOMAIN lines \cup {0}
                             /\ u[k].enrolment = e /\ u[k].amount > 0 /\ u[k].why = "payment"
      /\ SumIn(AmountOf, u, OfReceipt(n)) = p.amount
      /\ \A r : r # n => SumIn(AmountOf, u, OfReceipt(r)) = 0
      /\ \A f : f # e => SumIn(AmountOf, u, OfSeat(f)) = 0
  BY <1>1, <1>2, <1>5, <1>6, <1>7, PaidIs
<1>9. /\ rows' \in Seq(Allocation)
      /\ DOMAIN rows \subseteq DOMAIN rows'
      /\ \A i \in DOMAIN rows : rows'[i] = rows[i]
      /\ \A i \in DOMAIN rows' : i \notin DOMAIN rows => \E k \in DOMAIN u : rows'[i] = u[k]
  BY <1>4, <1>6, <1>8, JoinedRows
<1>10. /\ receipts' \in Seq(Nat \ {0}) /\ DOMAIN receipts' = DOMAIN receipts \cup {n}
       /\ n \notin DOMAIN receipts
       /\ \A r \in DOMAIN receipts : receipts'[r] = receipts[r]
       /\ receipts'[n] = p.amount
  BY <1>1, <1>3, <1>5, <1>6, RowAdded
<1>11. MoneyTyped'
  <2>1. ASSUME NEW i \in DOMAIN rows'
        PROVE  /\ rows'[i].receipt \in DOMAIN receipts'
               /\ rows'[i].line \in DOMAIN lines \cup {0}
               /\ rows'[i].enrolment \in DOMAIN seats
    <3>1. CASE i \in DOMAIN rows
      BY <1>6, <1>9, <1>10, <3>1, RowsThere
    <3>2. CASE i \notin DOMAIN rows
      BY <1>5, <1>8, <1>9, <1>10, <3>2
    <3> QED
      BY <3>1, <3>2
  <2> QED
    BY <1>3, <1>9, <1>10, <2>1 DEF MoneyTyped
<1>12. /\ \A f : ExecutedFrom(f)' <=> ExecutedFrom(f)
       /\ \A f : LinesOf(f)' = LinesOf(f)
  BY <1>3, SameForms
<1>13. MoveTables'
  <2>1. LinesTyped' /\ PlacesTyped' /\ TransfersTyped' /\ OwedTyped'
    BY <1>3 DEF TransferInv, MoveTables, LinesTyped, PlacesTyped, TransfersTyped, OwedTyped
  <2> QED
    BY <1>3, <1>11, <2>1 DEF TransferInv, MoveTables
<1>14. MovesTell'
  <2>1. ASSUME NEW i \in DOMAIN rows'
        PROVE  /\ rows'[i].why = "payment" => rows'[i].amount > 0
               /\ rows'[i].why = "refund" => rows'[i].amount = -1
               /\ rows'[i].why = "move" /\ rows'[i].amount < 0 => ExecutedFrom(rows[i].enrolment)'
    <3>1. CASE i \in DOMAIN rows
      <4>1. PICK f : f = rows[i].enrolment /\ f = rows'[i].enrolment
        BY <1>9, <3>1
      <4>2. /\ rows[i].why = "payment" => rows[i].amount > 0
            /\ rows[i].why = "refund" => rows[i].amount = -1
            /\ rows[i].why = "move" /\ rows[i].amount < 0 => ExecutedFrom(f)
        BY <3>1, <4>1 DEF TransferInv, MovesTell
      <4>3. ExecutedFrom(rows[i].enrolment)' <=> ExecutedFrom(f)'
        BY <4>1
      <4> QED
        BY <1>9, <1>12, <3>1, <4>2, <4>3
    <3>2. CASE i \notin DOMAIN rows
      BY <1>8, <1>9, <3>2
    <3> QED
      BY <3>1, <3>2
  <2> QED
    BY <2>1 DEF MovesTell
<1>15. \A Q : SumIn(AmountOf, rows', Q) = SumIn(AmountOf, rows, Q) + SumIn(AmountOf, u, Q)
  <2>1. PICK table, longer : table = rows /\ longer = rows'
    OBVIOUS
  <2>2. \A Q : SumIn(AmountOf, longer, Q) = SumIn(AmountOf, table, Q) + SumIn(AmountOf, u, Q)
    BY <1>4, <1>6, <1>8, <2>1, AmountsAre, SumJoined
  <2> QED
    BY <2>1, <2>2
<1>16. \A Q : SumIn(AmountOf, rows, Q) \in Int
  BY <1>6, AmountsAre, KindsAre
<1>17. \A f : f # e => Collected(f)' = Collected(f)
  <2>1. \A f : Collected(f)' = SumIn(AmountOf, rows', OfSeat(f))
    BY <1>11, SumsAreLater
  <2>2. \A f : Collected(f) = SumIn(AmountOf, rows, OfSeat(f))
    BY <1>6, SumsAre
  <2> QED
    BY <1>8, <1>15, <1>16, <2>1, <2>2
<1>18. /\ FormsSound'
       /\ MovedAlone' => \A x \in Desks : Spared(form[x])'
       /\ AliveOnce' => \A x \in Desks : Fresh(form[x])'
       /\ \A x \in Desks : Executing(x)' => Executing(x) /\ SeatOf(form[x])' = SeatOf(form[x])
  <2>1. Writes(p)
    BY <1>3, <1>12 DEF Writes
  <2> QED
    BY <1>1, <1>3, <2>1, CommitForms
<1>19. /\ outdated' \in SUBSET (TransferOps \X TransferOps)
       /\ MovedAlone' => MovedAlone /\ "execute" \notin p.overtaken
       /\ MovedOnce' => MovedOnce
       /\ AliveOnce' => AliveOnce
       /\ <<"execute", "execute">> \in outdated => <<"execute", "execute">> \in outdated'
  BY <1>1, <1>3, Outdating
<1>20. MoneyStays'
  <2>1. CASE \E f \in DOMAIN seats : ExecutedFrom(f) /\ Refunded(f)
    <3>1. PICK f \in DOMAIN seats : ExecutedFrom(f) /\ Refunded(f)
      BY <2>1
    <3>2. Refunded(f)'
      BY <1>9, <3>1 DEF Refunded
    <3> QED
      BY <1>3, <1>12, <3>1, <3>2 DEF MoneyStays
  <2>2. CASE <<"execute", "execute">> \in outdated
    BY <1>19, <2>2 DEF MoneyStays
  <2>3. CASE \A r \in DOMAIN receipts :
                 Allocated({j \in DOMAIN rows : rows[j].receipt = r})
                     = receipts[r] - Cardinality(RefundedOf(r))
    <3>1. ASSUME NEW r \in DOMAIN receipts'
          PROVE  Allocated({j \in DOMAIN rows : rows[j].receipt = r})'
                     = receipts'[r] - Cardinality(RefundedOf(r)')
      <4>1. Allocated({j \in DOMAIN rows : rows[j].receipt = r})' = SumIn(AmountOf, rows', OfReceipt(r))
        BY <1>11, SumsAreLater, Zenon
      <4>2. Allocated({j \in DOMAIN rows : rows[j].receipt = r}) = SumIn(AmountOf, rows, OfReceipt(r))
        BY <1>6, SumsAre, Zenon
      <4>3. RefundedOf(r)' = RefundedOf(r)
        <5>1. \A k \in DOMAIN u : u[k].why # "refund"
          BY <1>8
        <5> QED
          BY <1>4, <1>6, <1>8, <5>1, RefundsStay
      <4>4. SumIn(AmountOf, rows', OfReceipt(r)) = receipts'[r] - Cardinality(RefundedOf(r))
        <5>1. CASE r # n
          <6>1. SumIn(AmountOf, rows', OfReceipt(r)) = SumIn(AmountOf, rows, OfReceipt(r))
            BY <1>8, <1>15, <1>16, <5>1
          <6>2. r \in DOMAIN receipts /\ receipts'[r] = receipts[r]
            BY <1>10, <5>1
          <6>3. Allocated({j \in DOMAIN rows : rows[j].receipt = r}) = receipts[r] - Cardinality(RefundedOf(r))
            BY <2>3, <6>2
          <6> QED
            BY <4>2, <6>1, <6>2, <6>3, Zenon
        <5>2. CASE r = n
          <6>1. RefundedOf(n) = {}
            BY <1>6, <1>10, RowsThere DEF RefundedOf
          <6>2. SumIn(AmountOf, rows, OfReceipt(n)) = 0
            <7>1. OfKind(rows, OfReceipt(n)) = {}
              BY <1>6, <1>10, RowsThere DEF OfKind, OfReceipt
            <7>2. SumFunctionOnSet(Valued(AmountOf, rows), {}) = 0
              BY SumFirst, FS_EmptySet
            <7> QED
              BY <7>1, <7>2 DEF SumIn
          <6>3. SumIn(AmountOf, rows', OfReceipt(n)) = p.amount
            BY <1>5, <1>8, <1>15, <6>2
          <6> QED
            BY <1>5, <1>10, <5>2, <6>1, <6>3, FS_EmptySet
        <5> QED
          BY <5>1, <5>2
      <4> QED
        BY <4>1, <4>3, <4>4, Zenon
    <3> QED
      BY <3>1 DEF MoneyStays
  <2> QED
    BY <2>1, <2>2, <2>3 DEF TransferInv, MoneyStays
<1>21. Emptied'
  <2>1. ASSUME MovedAlone', NEW f \in DOMAIN seats', ExecutedFrom(f)'
        PROVE  Collected(f)' = 0 /\ LinesOf(f)' = {}
    <3>1. MovedAlone /\ ExecutedFrom(f) /\ f \in DOMAIN seats
      BY <1>3, <1>12, <1>19, <2>1
    <3>2. Collected(f) = 0 /\ LinesOf(f) = {}
      BY <3>1 DEF TransferInv, Emptied
    <3>3. Spared(p) /\ "execute" \notin p.overtaken
      BY <1>1, <1>19, <2>1, FormIs
    <3>4. f # e
      BY <1>1, <1>3, <3>1, <3>3 DEF Spared
    <3> QED
      BY <1>12, <1>17, <3>2, <3>4
  <2> QED
    BY <1>18, <2>1 DEF Emptied
<1>22. Seated'
  <2>1. LiveSeats' \subseteq LiveSeats
    BY <1>3 DEF LiveSeats
  <2> QED
    BY <1>18, <1>19, <2>1, SeatedStays DEF TransferInv
<1>23. Priced'
  <2>1. FirstLines'
    BY <1>3 DEF TransferInv, Priced, FirstLines
  <2>2. PricedAtFirst'
    BY <1>3, <1>19 DEF TransferInv, Priced, PricedAtFirst, TuitionOf, LinesOf, Gross
  <2> QED
    BY <1>3, <1>12, <2>1, <2>2 DEF TransferInv, Priced
<1>24. Alive'
  <2>1. \A t : Dead(t)' <=> Dead(t)
    BY <1>3 DEF Dead
  <2> QED
    BY <1>3, <1>18, <1>19, <2>1 DEF TransferInv, Alive
<1> QED
  BY <1>13, <1>14, <1>18, <1>19, <1>20, <1>21, <1>22, <1>23, <1>24 DEF TransferInv

-----------------------------------------------------------------------------
(* The rows an execution writes. *)

(***************************************************************************)
(* Allocations laid anew, each on the receipt of the one it is made from.  *)
(***************************************************************************)
Relays(u, S, on, to, amount, L) ==
    /\ S \subseteq DOMAIN rows /\ to \in Nat \ {0}
    /\ \A i \in S : on[i] \in Nat /\ on[i] \in L /\ amount[i] \in Int \ {0}
    /\ u = Listed([i \in S |-> Relaid(i, on[i], to, amount[i])])

RelaidFrom(u, S, to, amount, L) ==
    /\ u \in Seq(Allocation)
    /\ \A k \in DOMAIN u : /\ u[k].receipt \in DOMAIN receipts /\ u[k].line \in L
                           /\ u[k].enrolment = to /\ u[k].why = "move"
                           /\ \E i \in S : u[k].amount = amount[i]
    /\ \A r : SumIn(AmountOf, u, OfReceipt(r))
                   = SumFunctionOnSet(amount, {i \in S : rows[i].receipt = r})
    /\ SumIn(AmountOf, u, OfSeat(to)) = SumFunctionOnSet(amount, S)
    /\ \A e : e # to => SumIn(AmountOf, u, OfSeat(e)) = 0

LEMMA RelaidIs ==
    ASSUME MoneyTyped, NEW S, NEW to, NEW on, NEW amount, NEW L, NEW u,
           Relays(u, S, on, to, amount, L)
    PROVE  RelaidFrom(u, S, to, amount, L)
<1>0. PICK f : f = [i \in S |-> Relaid(i, on[i], to, amount[i])]
  OBVIOUS
<1>1. S = DOMAIN f /\ S \in SUBSET Nat /\ IsFiniteSet(S)
  <2>1. S \subseteq DOMAIN rows
    BY DEF Relays
  <2> QED
    BY <1>0, <2>1, RowsThere, FS_Subset
<1>2. \A i \in S : rows[i].receipt \in Nat \ {0} /\ rows[i].receipt \in DOMAIN receipts
  BY RowsThere, ReceiptsThere DEF Relays
<1>3. \A i \in S : /\ f[i] \in Allocation /\ f[i].receipt = rows[i].receipt /\ f[i].line = on[i]
                   /\ f[i].enrolment = to /\ f[i].amount = amount[i] /\ f[i].why = "move"
  <2> SUFFICES ASSUME NEW i \in S
               PROVE  /\ f[i] \in Allocation /\ f[i].receipt = rows[i].receipt /\ f[i].line = on[i]
                      /\ f[i].enrolment = to /\ f[i].amount = amount[i] /\ f[i].why = "move"
    OBVIOUS
  <2>1. f[i] = [receipt |-> rows[i].receipt, line |-> on[i], enrolment |-> to, amount |-> amount[i],
                why |-> "move"]
    BY <1>0 DEF Relaid
  <2>2. on[i] \in Nat /\ amount[i] \in Int \ {0} /\ to \in Nat \ {0}
    BY DEF Relays
  <2> QED
    BY <1>2, <2>1, <2>2 DEF Allocation
<1>4. /\ u \in Seq(Allocation)
      /\ \A k \in DOMAIN u : \E x \in S : u[k] = f[x]
      /\ \A Q : SumIn(AmountOf, u, Q) = SumFunctionOnSet(amount, {x \in S : f[x] \in Q})
  <2>1. Lists(u, f, S, Allocation) /\ \A x \in S : amount[x] = f[x].amount
    BY <1>0, <1>1, <1>3 DEF Lists, Relays
  <2>2. u \in Seq(Allocation) /\ \A k \in DOMAIN u : \E x \in S : u[k] = f[x]
    BY <2>1, ListedRows
  <2>3. \A Q : SumIn(AmountOf, u, Q) = SumFunctionOnSet(amount, {x \in S : f[x] \in Q})
    BY <2>1, AmountsListed
  <2> QED
    BY <2>2, <2>3
<1>5. ASSUME NEW k \in DOMAIN u
      PROVE  /\ u[k].receipt \in DOMAIN receipts /\ u[k].line \in L /\ u[k].enrolment = to
             /\ u[k].why = "move" /\ \E i \in S : u[k].amount = amount[i]
  <2>1. PICK i \in S : u[k] = f[i]
    BY <1>4
  <2>2. on[i] \in L
    BY DEF Relays
  <2> QED
    BY <1>2, <1>3, <2>1, <2>2
<1>10. ASSUME NEW r
       PROVE  SumIn(AmountOf, u, OfReceipt(r)) = SumFunctionOnSet(amount, {i \in S : rows[i].receipt = r})
  <2>1. {x \in S : f[x] \in OfReceipt(r)} = {i \in S : rows[i].receipt = r}
    BY <1>3 DEF OfReceipt
  <2> QED
    BY <1>4, <2>1
<1>11. SumIn(AmountOf, u, OfSeat(to)) = SumFunctionOnSet(amount, S)
  <2>1. {x \in S : f[x] \in OfSeat(to)} = S
    BY <1>3 DEF OfSeat
  <2> QED
    BY <1>4, <2>1
<1>12. ASSUME NEW e, e # to PROVE SumIn(AmountOf, u, OfSeat(e)) = 0
  <2>1. {x \in S : f[x] \in OfSeat(e)} = {}
    BY <1>3, <1>12 DEF OfSeat
  <2>2. SumFunctionOnSet(amount, {}) = 0
    BY SumFirst, FS_EmptySet
  <2> QED
    BY <1>4, <2>1, <2>2
<1> QED
  BY <1>4, <1>5, <1>10, <1>11, <1>12 DEF RelaidFrom

LEMMA PriceIs == ASSUME NEW c \in Cohorts PROVE Price[c] \in Nat /\ Price[c] > 0
  BY TransferAssumption

(***************************************************************************)
(* What is carried over is priced, and laid within the line carried to.    *)
(***************************************************************************)
LEMMA RaisedIs ==
    ASSUME LinesTyped, NEW old, old \subseteq DOMAIN lines, NEW c \in Cohorts
    PROVE  /\ Difference(old, c) \in Int
           /\ \A l \in old : RaisedAt(l, old, c) \in Nat
<1>1. PICK L : L = {l \in old : lines[l].type = "TUITION"}
  OBVIOUS
<1>2. Gross(L) \in Nat
  BY <1>1, GrossTyped
<1>3. Difference(old, c) \in Int
  BY <1>1, <1>2, PriceIs DEF Difference, OldTuition
<1>4. \A l \in old : RaisedAt(l, old, c) \in Nat
  BY PriceIs, LinesThere DEF RaisedAt
<1> QED
  BY <1>3, <1>4

LEMMA LaidWithin ==
    ASSUME LinesTyped, MoneyTyped, NEW old, old \subseteq DOMAIN lines, NEW c \in Cohorts,
           NEW i \in DOMAIN rows
    PROVE  /\ OnMirror(i, old, c) \in Int /\ Remaining(i, old, c) \in Int
           /\ OnMirror(i, old, c) > 0 => rows[i].line \in old
           /\ rows[i].amount > 0 =>
                 /\ OnMirror(i, old, c) >= 0 /\ Remaining(i, old, c) >= 0
                 /\ Remaining(i, old, c) = rows[i].amount - OnMirror(i, old, c)
<1>1. PICK a, b : a = rows[i].amount /\ b = RaisedAt(rows[i].line, old, c)
  OBVIOUS
<1>2. a \in Int /\ (rows[i].line \in old => b \in Nat)
  BY <1>1, RowsThere, RaisedIs
<1>3. PICK m, x, y : m = Min({a, b}) /\ x = OnMirror(i, old, c) /\ y = Max({0, x})
  OBVIOUS
<1>4. rows[i].line \in old => m \in Int /\ m = IF a < b THEN a ELSE b
  <2>1. CASE rows[i].line \in old
    <3>1. a \in Int /\ b \in Int
      BY <1>2, <2>1
    <3> QED
      BY <1>3, <3>1, TheLess
  <2> QED
    BY <2>1
<1>5. x = IF rows[i].line \in old THEN m ELSE 0
  BY <1>1, <1>3 DEF OnMirror
<1>6. x \in Int /\ (x > 0 => rows[i].line \in old) /\ (a > 0 => x >= 0 /\ x <= a)
  BY <1>2, <1>4, <1>5
<1>7. y \in Nat /\ y = IF x > 0 THEN x ELSE 0
  BY <1>3, <1>6, AtLeastZero
<1>8. Remaining(i, old, c) = a - y
  BY <1>1, <1>3 DEF Remaining
<1> QED
  BY <1>1, <1>2, <1>3, <1>6, <1>7, <1>8

LEMMA MirrorWithin ==
    ASSUME LinesTyped, NEW old, old \subseteq DOMAIN lines, NEW l \in old
    PROVE  /\ MirrorOf(l, old) \in Nat /\ Cardinality(old) \in Nat
           /\ Len(lines) < MirrorOf(l, old) /\ MirrorOf(l, old) <= Len(lines) + Cardinality(old)
<1>1. PICK up, n, m : up = {k \in old : k <= l} /\ n = Cardinality(old) /\ m = Cardinality(up)
  OBVIOUS
<1>2. IsFiniteSet(old) /\ l \in Nat
  BY LinesThere, FS_Subset
<1>3. up \subseteq old /\ l \in up
  BY <1>1, <1>2
<1>4. IsFiniteSet(up) /\ m <= n /\ m \in Nat /\ n \in Nat
  BY <1>1, <1>2, <1>3, FS_Subset, FS_CardinalityType
<1>5. m # 0
  BY <1>1, <1>3, <1>4, FS_EmptySet
<1>6. MirrorOf(l, old) = Len(lines) + m
  BY <1>1 DEF MirrorOf
<1> QED
  BY <1>1, <1>4, <1>5, <1>6, LinesThere

-----------------------------------------------------------------------------
(* An execution: the seat, the transfer, the share taken back. *)

LEMMA ReseatIs ==
    ASSUME TransferInv, NEW e \in DOMAIN seats, NEW c \in Cohorts, NEW new, new = Len(seats) + 1,
           new <= MaxSeats, seats' = Reseat(e, c)
    PROVE  /\ PlacesTyped'
           /\ DOMAIN seats' = DOMAIN seats \cup {new} /\ new \notin DOMAIN seats /\ new \in Nat \ {0}
           /\ seats'[e].status = "TRANSFERRED_OUT"
           /\ \A f \in DOMAIN seats : f # e => seats'[f] = seats[f]
<1>1. PICK row, none, gone : /\ row = [seats[e] EXCEPT !.status = "TRANSFERRED_OUT"]
                             /\ none = [cohort |-> c, status |-> "LIVE", documented |-> FALSE]
                             /\ gone = [seats EXCEPT ![e].status = "TRANSFERRED_OUT"]
  OBVIOUS
<1>2. seats \in Seq(SeatRow) /\ Len(seats) \in Nat /\ MaxSeats \in Nat /\ seats[e] \in SeatRow
  BY SeatsThere DEF TransferInv, MoveTables, PlacesTyped
<1>3. row \in SeatRow /\ row.status = "TRANSFERRED_OUT" /\ none \in SeatRow
  BY <1>1, <1>2 DEF SeatRow
<1>4. /\ gone \in Seq(SeatRow) /\ DOMAIN gone = DOMAIN seats /\ Len(gone) = Len(seats)
      /\ \A f \in DOMAIN seats : gone[f] = IF f = e THEN row ELSE seats[f]
  <2>1. gone = [seats EXCEPT ![e] = row]
    BY <1>1, <1>2
  <2> QED
    BY <1>2, <1>3, <2>1, RowSaved
<1>5. seats' = Append(gone, none)
  BY <1>1 DEF Reseat
<1>6. /\ seats' \in Seq(SeatRow) /\ Len(seats') = Len(seats) + 1
      /\ DOMAIN seats' = DOMAIN seats \cup {new} /\ new \notin DOMAIN seats
      /\ \A f \in DOMAIN seats : seats'[f] = gone[f]
  BY <1>3, <1>4, <1>5, RowAdded
<1>7. Len(seats') \in 1 .. MaxSeats /\ new \in Nat \ {0}
  BY <1>2, <1>6
<1> QED
  BY <1>3, <1>4, <1>6, <1>7 DEF PlacesTyped

LEMMA ExecutedIs ==
    ASSUME TransferInv, NEW t \in DOMAIN transfers, NEW new \in Nat \ {0},
           transfers' = [transfers EXCEPT ![t].status = "EXECUTED", ![t].to = new]
    PROVE  /\ transfers' \in Seq(TransferRow) /\ DOMAIN transfers' = DOMAIN transfers
           /\ \A u \in DOMAIN transfers : transfers'[u].from = transfers[u].from
           /\ \A u \in DOMAIN transfers : u # t => transfers'[u] = transfers[u]
           /\ transfers'[t].to = new /\ transfers'[t].status = "EXECUTED"
           /\ transfers'[t].cohort = transfers[t].cohort
<1>1. PICK row : row = [transfers[t] EXCEPT !.status = "EXECUTED", !.to = new]
  OBVIOUS
<1>2. transfers \in Seq(TransferRow) /\ transfers[t] \in TransferRow
  BY TransfersThere DEF TransferInv, MoveTables, TransfersTyped
<1>3. /\ row \in TransferRow /\ row.status = "EXECUTED" /\ row.to = new
      /\ row.from = transfers[t].from /\ row.cohort = transfers[t].cohort
  BY <1>1, <1>2 DEF TransferRow
<1>4. transfers' = [transfers EXCEPT ![t] = row]
  BY <1>1, <1>2
<1>5. /\ transfers' \in Seq(TransferRow) /\ DOMAIN transfers' = DOMAIN transfers
      /\ \A u \in DOMAIN transfers : transfers'[u] = IF u = t THEN row ELSE transfers[u]
  <2>1. PICK table, after : table = transfers /\ after = transfers'
    OBVIOUS
  <2>2. table \in Seq(TransferRow) /\ t \in DOMAIN table /\ after = [table EXCEPT ![t] = row]
    BY <1>2, <1>4, <2>1
  <2>3. /\ after \in Seq(TransferRow) /\ DOMAIN after = DOMAIN table
        /\ \A u \in DOMAIN table : after[u] = IF u = t THEN row ELSE table[u]
    BY <1>3, <2>2, RowSaved
  <2> QED
    BY <2>1, <2>3
<1> QED
  BY <1>3, <1>5

(***************************************************************************)
(* A share is taken back once for a transfer: its code is free.            *)
(***************************************************************************)
LEMMA RecoverKeeps ==
    ASSUME TransferInv, NEW t \in DOMAIN transfers, NEW e \in DOMAIN seats, transfers[t].from = e,
           Recover(e, t), DOMAIN transfers' = DOMAIN transfers,
           \A u \in DOMAIN transfers : transfers'[u].from = transfers[u].from,
           \A u \in DOMAIN transfers : u # t => transfers'[u] = transfers[u],
           transfers'[t].to # 0
    PROVE  OwedTyped'
<1>1. /\ owed \in Seq(Obligation)
      /\ \A o \in DOMAIN owed :
            owed[o].transfer # 0 => /\ owed[o].transfer \in DOMAIN transfers
                                    /\ transfers[owed[o].transfer].from = owed[o].enrolment
                                    /\ transfers[owed[o].transfer].to # 0
      /\ \A o, p \in DOMAIN owed : owed[o].transfer # 0 /\ owed[o].transfer = owed[p].transfer => o = p
  BY DEF TransferInv, MoveTables, OwedTyped
<1>2. \A u \in DOMAIN transfers : transfers[u].to # 0 => transfers'[u].to # 0
  OBVIOUS
<1>3. CASE owed' = owed
  BY <1>1, <1>2, <1>3 DEF OwedTyped
<1>4. CASE claims[e] > 0
  <2>1. PICK row, n : row = [enrolment |-> e, amount |-> claims[e], transfer |-> t] /\ n = Len(owed) + 1
    OBVIOUS
  <2>2. CodeIsFree(t) /\ owed' = Append(owed, row)
    BY <1>4, <2>1 DEF Recover
  <2>3. e \in Nat \ {0} /\ t \in Nat \ {0} /\ claims[e] \in Nat
    BY SeatsThere, TransfersThere DEF TransferInv, MoveTables
  <2>4. row \in Obligation /\ row.enrolment = e /\ row.transfer = t
    BY <1>4, <2>1, <2>3 DEF Obligation
  <2>5. /\ owed' \in Seq(Obligation) /\ DOMAIN owed' = DOMAIN owed \cup {n}
        /\ \A o \in DOMAIN owed : owed'[o] = owed[o]
        /\ owed'[n] = row
    BY <1>1, <2>1, <2>2, <2>4, RowAdded
  <2>6. \A o \in DOMAIN owed : owed[o].transfer # t
    BY <2>2 DEF CodeIsFree
  <2>7. ASSUME NEW o \in DOMAIN owed', owed'[o].transfer # 0
        PROVE  /\ owed'[o].transfer \in DOMAIN transfers'
               /\ transfers'[owed'[o].transfer].from = owed'[o].enrolment
               /\ transfers'[owed'[o].transfer].to # 0
    <3>1. CASE o = n
      BY <2>4, <2>5, <3>1
    <3>2. CASE o \in DOMAIN owed
      BY <1>1, <1>2, <2>5, <2>7, <3>2
    <3> QED
      BY <2>5, <3>1, <3>2
  <2>8. ASSUME NEW o \in DOMAIN owed', NEW p \in DOMAIN owed', owed'[o].transfer # 0,
               owed'[o].transfer = owed'[p].transfer
        PROVE  o = p
    BY <1>1, <2>4, <2>5, <2>6, <2>8
  <2> QED
    BY <2>5, <2>7, <2>8 DEF OwedTyped
<1> QED
  BY <1>3, <1>4 DEF Recover

-----------------------------------------------------------------------------
(* The lines an execution carries over. *)

Carried(old, new) ==
    /\ lines' \in Seq(ChargeLine)
    /\ DOMAIN lines \subseteq DOMAIN lines'
    /\ \A l \in DOMAIN lines : /\ lines'[l].enrolment = lines[l].enrolment
                               /\ lines'[l].type = lines[l].type /\ lines'[l].gross = lines[l].gross
                               /\ lines'[l].voided <=> lines[l].voided \/ l \in old
    /\ \A l \in DOMAIN lines' : l \notin DOMAIN lines => lines'[l].enrolment = new
    /\ \A n \in Nat : Len(lines) < n /\ n <= Len(lines) + Cardinality(old) => n \in DOMAIN lines'

(***************************************************************************)
(* lines' in three: kept as they were but voided where they are carried    *)
(* over, the copies, and the difference.                                   *)
(***************************************************************************)
Kept(kept, old) == kept = [l \in DOMAIN lines |-> [lines[l] EXCEPT !.voided = @ \/ l \in old]]

Parts(kept, all, u, v, old, new, c) ==
    /\ Kept(kept, old)
    /\ u = Listed(Mirror(old, new, c))
    /\ v = DifferenceLine(old, new, c)
    /\ Onto(all, kept, u) /\ Onto(lines', all, v)

LEMMA KeptIs ==
    ASSUME LinesTyped, NEW old, NEW kept, Kept(kept, old)
    PROVE  /\ kept \in Seq(ChargeLine) /\ Len(kept) = Len(lines) /\ DOMAIN kept = DOMAIN lines
           /\ \A l \in DOMAIN lines : /\ kept[l].enrolment = lines[l].enrolment
                                      /\ kept[l].type = lines[l].type /\ kept[l].gross = lines[l].gross
                                      /\ kept[l].voided <=> lines[l].voided \/ l \in old
<1>1. ASSUME NEW l \in DOMAIN lines
      PROVE  /\ kept[l] \in ChargeLine /\ kept[l].enrolment = lines[l].enrolment
             /\ kept[l].type = lines[l].type /\ kept[l].gross = lines[l].gross
             /\ kept[l].voided <=> lines[l].voided \/ l \in old
  <2>1. lines[l] \in ChargeLine
    BY LinesThere
  <2>2. kept[l] = [lines[l] EXCEPT !.voided = lines[l].voided \/ l \in old]
    BY DEF Kept
  <2> QED
    BY <2>1, <2>2 DEF ChargeLine
<1>2. DOMAIN kept = DOMAIN lines
  BY DEF Kept
<1>3. kept \in Seq(ChargeLine) /\ Len(kept) = Len(lines)
  <2>1. lines \in Seq(ChargeLine) /\ kept = [l \in DOMAIN lines |-> kept[l]]
    BY DEF LinesTyped, Kept
  <2> QED
    BY <1>1, <1>2, <2>1, RowsMapped
<1> QED
  BY <1>1, <1>2, <1>3

Mirrors(f, old, new, c) ==
    f = Mirror(old, new, c) /\ old \subseteq DOMAIN lines /\ new \in Nat \ {0} /\ c \in Cohorts

LEMMA MirrorIs ==
    ASSUME LinesTyped, NEW old, NEW new, NEW c, NEW f, Mirrors(f, old, new, c)
    PROVE  /\ old = DOMAIN f /\ old \in SUBSET Nat /\ IsFiniteSet(old)
           /\ \A l \in old : /\ f[l] \in ChargeLine /\ f[l].enrolment = new /\ f[l].type = lines[l].type
                             /\ f[l].gross = RaisedAt(l, old, c) /\ ~f[l].voided
<1>1. f = [l \in old |-> [enrolment |-> new, type |-> lines[l].type, gross |-> RaisedAt(l, old, c),
                          voided |-> FALSE]]
  BY DEF Mirrors, Mirror
<1>2. old = DOMAIN f /\ old \in SUBSET Nat /\ IsFiniteSet(old)
  BY <1>1, LinesThere, FS_Subset DEF Mirrors
<1>3. ASSUME NEW l \in old
      PROVE  /\ f[l] \in ChargeLine /\ f[l].enrolment = new /\ f[l].type = lines[l].type
             /\ f[l].gross = RaisedAt(l, old, c) /\ ~f[l].voided
  <2>1. f[l] = [enrolment |-> new, type |-> lines[l].type, gross |-> RaisedAt(l, old, c), voided |-> FALSE]
    BY <1>1
  <2>2. lines[l].type \in Range(AllocationOrder) /\ RaisedAt(l, old, c) \in Nat
    BY LinesThere, RaisedIs DEF Mirrors
  <2> QED
    BY <2>1, <2>2 DEF ChargeLine, Mirrors
<1> QED
  BY <1>2, <1>3

DifferenceRow(new, n) ==
    [enrolment |-> new, type |-> "TRANSFER_DIFFERENCE", gross |-> n, voided |-> FALSE]

LEMMA DifferenceIs ==
    ASSUME LinesTyped, NEW old, old \subseteq DOMAIN lines, NEW new \in Nat \ {0}, NEW c \in Cohorts,
           NEW v, v = DifferenceLine(old, new, c), NEW n, n = Difference(old, c)
    PROVE  /\ v \in Seq(ChargeLine)
           /\ \A k \in DOMAIN v : v[k].enrolment = new
           /\ n > 0 => v = <<DifferenceRow(new, n)>>
           /\ ~(n > 0) => v = <<>>
<1>1. n \in Int
  BY RaisedIs
<1>2. CASE n > 0
  <2>1. PICK row : row = DifferenceRow(new, n)
    OBVIOUS
  <2>2. "TRANSFER_DIFFERENCE" \in Range(AllocationOrder)
    BY DEF Range, AllocationOrder
  <2>3. row \in ChargeLine /\ row.enrolment = new
    BY <1>1, <1>2, <2>1, <2>2 DEF ChargeLine, DifferenceRow
  <2>4. v = <<row>>
    BY <1>2, <2>1 DEF DifferenceLine, DifferenceRow
  <2>5. v \in Seq(ChargeLine) /\ DOMAIN v = {1} /\ v[1] = row
    BY <2>3, <2>4
  <2> QED
    BY <1>2, <2>1, <2>3, <2>4, <2>5
<1>3. CASE ~(n > 0)
  <2>1. v = <<>>
    BY <1>3 DEF DifferenceLine
  <2> QED
    BY <1>3, <2>1
<1> QED
  BY <1>2, <1>3

LEMMA CarriedIs ==
    ASSUME LinesTyped, NEW old, old \subseteq DOMAIN lines, NEW new \in Nat \ {0}, NEW c \in Cohorts,
           NEW kept, NEW all, NEW u, NEW v, Parts(kept, all, u, v, old, new, c)
    PROVE  Carried(old, new)
<1>0. /\ Kept(kept, old) /\ u = Listed(Mirror(old, new, c)) /\ v = DifferenceLine(old, new, c)
      /\ Onto(all, kept, u) /\ Onto(lines', all, v)
  BY DEF Parts
<1>1. /\ kept \in Seq(ChargeLine) /\ Len(kept) = Len(lines) /\ DOMAIN kept = DOMAIN lines
      /\ \A l \in DOMAIN lines : /\ kept[l].enrolment = lines[l].enrolment
                                 /\ kept[l].type = lines[l].type /\ kept[l].gross = lines[l].gross
                                 /\ kept[l].voided <=> lines[l].voided \/ l \in old
  BY <1>0, KeptIs
<1>2. PICK f : f = Mirror(old, new, c)
  OBVIOUS
<1>3. /\ old = DOMAIN f /\ old \in SUBSET Nat /\ IsFiniteSet(old)
      /\ \A l \in old : /\ f[l] \in ChargeLine /\ f[l].enrolment = new /\ f[l].type = lines[l].type
                        /\ f[l].gross = RaisedAt(l, old, c) /\ ~f[l].voided
  <2>1. Mirrors(f, old, new, c)
    BY <1>2 DEF Mirrors
  <2> QED
    BY <2>1, MirrorIs
<1>4. u = Listed(f)
  BY <1>0, <1>2
<1>5. /\ u \in Seq(ChargeLine) /\ Len(u) = Cardinality(old) /\ Len(u) \in Nat
      /\ \A k \in DOMAIN u : \E x \in old : u[k] = f[x]
  <2>1. Lists(u, f, old, ChargeLine)
    BY <1>3, <1>4 DEF Lists
  <2> QED
    BY <2>1, ListedRows
<1>6. \A k \in DOMAIN u : u[k].enrolment = new
  BY <1>3, <1>5
<1>7. v \in Seq(ChargeLine) /\ \A k \in DOMAIN v : v[k].enrolment = new
  BY <1>0, DifferenceIs
<1>8. /\ all \in Seq(ChargeLine) /\ Len(all) = Len(lines) + Cardinality(old)
      /\ DOMAIN lines \subseteq DOMAIN all
      /\ \A l \in DOMAIN lines : all[l] = kept[l]
      /\ \A l \in DOMAIN all : l \notin DOMAIN lines => \E k \in DOMAIN u : all[l] = u[k]
  <2>1. kept \in Seq(ChargeLine) /\ u \in Seq(ChargeLine) /\ Onto(all, kept, u)
    BY <1>0, <1>1, <1>5
  <2>2. /\ all \in Seq(ChargeLine) /\ Len(all) = Len(kept) + Len(u)
        /\ DOMAIN kept \subseteq DOMAIN all
        /\ \A i \in DOMAIN kept : all[i] = kept[i]
        /\ \A i \in DOMAIN all : i \notin DOMAIN kept => \E k \in DOMAIN u : all[i] = u[k]
    BY <2>1, JoinedRows
  <2> QED
    BY <1>1, <1>5, <2>2
<1>9. /\ lines' \in Seq(ChargeLine) /\ DOMAIN all \subseteq DOMAIN lines'
      /\ \A l \in DOMAIN all : lines'[l] = all[l]
      /\ \A l \in DOMAIN lines' : l \notin DOMAIN all => \E k \in DOMAIN v : lines'[l] = v[k]
  <2>1. PICK after : after = lines'
    OBVIOUS
  <2>2. v \in Seq(ChargeLine) /\ all \in Seq(ChargeLine) /\ Onto(after, all, v)
    BY <1>0, <1>7, <1>8, <2>1
  <2>3. /\ after \in Seq(ChargeLine) /\ DOMAIN all \subseteq DOMAIN after
        /\ \A l \in DOMAIN all : after[l] = all[l]
        /\ \A l \in DOMAIN after : l \notin DOMAIN all => \E k \in DOMAIN v : after[l] = v[k]
    BY <2>2, JoinedRows
  <2> QED
    BY <2>1, <2>3
<1>10. \A n \in Nat : Len(lines) < n /\ n <= Len(lines) + Cardinality(old) => n \in DOMAIN lines'
  <2>1. DOMAIN all = 1 .. Len(all) /\ Len(lines) \in Nat
    BY <1>8, LenProperties, LinesThere
  <2>2. ASSUME NEW n \in Nat, Len(lines) < n, n <= Len(lines) + Cardinality(old) PROVE n \in 1 .. Len(all)
    BY <1>8, <2>1, <2>2
  <2> QED
    BY <1>9, <2>1, <2>2
<1>11. \A l \in DOMAIN lines' : l \notin DOMAIN lines => lines'[l].enrolment = new
  BY <1>6, <1>7, <1>8, <1>9
<1>12. \A l \in DOMAIN lines : lines'[l] = kept[l] /\ l \in DOMAIN lines'
  BY <1>8, <1>9
<1> QED
  BY <1>1, <1>9, <1>10, <1>11, <1>12 DEF Carried

-----------------------------------------------------------------------------
(* The allocations an execution takes back, lays on copies and leaves over. *)

Copies(old) == {n \in Nat : Len(lines) < n /\ n <= Len(lines) + Cardinality(old)}

Back == [i \in DOMAIN rows |-> -rows[i].amount]

Onwards(old, c) == [i \in DOMAIN rows |-> OnMirror(i, old, c)]

Rest(old, c) == [i \in DOMAIN rows |-> Remaining(i, old, c)]

LEMMA TakenIs ==
    ASSUME MoneyTyped, NEW e, e \in Nat \ {0}, NEW a, a = Listed(Taken(e))
    PROVE  RelaidFrom(a, RowsOf(e), e, Back, DOMAIN lines \cup {0})
<1>1. PICK on, back, S : on = [i \in DOMAIN rows |-> rows[i].line] /\ back = Back /\ S = RowsOf(e)
  OBVIOUS
<1>2. S \subseteq DOMAIN rows
  BY <1>1 DEF RowsOf
<1>3. \A i \in S : on[i] = rows[i].line /\ back[i] = -rows[i].amount
  BY <1>1, <1>2 DEF Back
<1>4. [i \in S |-> Relaid(i, on[i], e, back[i])] = Taken(e)
  BY <1>1, <1>3 DEF Taken
<1>5. \A i \in S : on[i] \in Nat /\ on[i] \in DOMAIN lines \cup {0} /\ back[i] \in Int \ {0}
  <2> SUFFICES ASSUME NEW i \in S
               PROVE  on[i] \in Nat /\ on[i] \in DOMAIN lines \cup {0} /\ back[i] \in Int \ {0}
    OBVIOUS
  <2>1. /\ rows[i] \in Allocation /\ rows[i].amount \in Int /\ rows[i].amount # 0
        /\ rows[i].line \in DOMAIN lines \cup {0}
    BY <1>2, RowsThere
  <2>2. rows[i].line \in Nat
    BY <2>1 DEF Allocation
  <2> QED
    BY <1>3, <2>1, <2>2
<1>6. Relays(a, S, on, e, back, DOMAIN lines \cup {0})
  BY <1>2, <1>4, <1>5 DEF Relays
<1> QED
  BY <1>1, <1>6, RelaidIs

LEMMA LaidIs ==
    ASSUME LinesTyped, MoneyTyped, NEW e, NEW new \in Nat \ {0}, NEW old, old \subseteq DOMAIN lines,
           NEW c \in Cohorts, NEW b, b = Listed(Laid(e, old, new, c))
    PROVE  RelaidFrom(b, {j \in RowsOf(e) : OnMirror(j, old, c) > 0}, new, Onwards(old, c), Copies(old))
<1>1. PICK on, up, S : /\ on = [i \in DOMAIN rows |-> MirrorOf(rows[i].line, old)]
                       /\ up = Onwards(old, c)
                       /\ S = {j \in RowsOf(e) : OnMirror(j, old, c) > 0}
  OBVIOUS
<1>2. S \subseteq DOMAIN rows
  BY <1>1 DEF RowsOf
<1>3. \A i \in S : on[i] = MirrorOf(rows[i].line, old) /\ up[i] = OnMirror(i, old, c) /\ OnMirror(i, old, c) > 0
  BY <1>1, <1>2 DEF Onwards
<1>4. [i \in S |-> Relaid(i, on[i], new, up[i])] = Laid(e, old, new, c)
  BY <1>1, <1>3 DEF Laid
<1>5. \A i \in S : on[i] \in Nat /\ on[i] \in Copies(old) /\ up[i] \in Int \ {0}
  <2> SUFFICES ASSUME NEW i \in S
               PROVE  on[i] \in Nat /\ on[i] \in Copies(old) /\ up[i] \in Int \ {0}
    OBVIOUS
  <2>1. OnMirror(i, old, c) \in Int /\ rows[i].line \in old
    BY <1>2, <1>3, LaidWithin
  <2>2. PICK l \in old : l = rows[i].line
    BY <2>1
  <2>3. MirrorOf(l, old) \in Copies(old)
    BY MirrorWithin DEF Copies
  <2>4. on[i] \in Copies(old)
    BY <1>3, <2>2, <2>3
  <2> QED
    BY <1>3, <2>1, <2>4 DEF Copies
<1>6. Relays(b, S, on, new, up, Copies(old))
  BY <1>2, <1>4, <1>5 DEF Relays
<1> QED
  BY <1>1, <1>6, RelaidIs

LEMMA LeftIs ==
    ASSUME LinesTyped, MoneyTyped, NEW e, NEW new \in Nat \ {0}, NEW old, old \subseteq DOMAIN lines,
           NEW c \in Cohorts, NEW z, z = Listed(Left(e, old, new, c))
    PROVE  RelaidFrom(z, {j \in RowsOf(e) : Remaining(j, old, c) > 0}, new, Rest(old, c), {0})
<1>1. PICK on, rest, S : /\ on = [i \in DOMAIN rows |-> 0] /\ rest = Rest(old, c)
                         /\ S = {j \in RowsOf(e) : Remaining(j, old, c) > 0}
  OBVIOUS
<1>2. S \subseteq DOMAIN rows
  BY <1>1 DEF RowsOf
<1>3. \A i \in S : on[i] = 0 /\ rest[i] = Remaining(i, old, c) /\ Remaining(i, old, c) > 0
  BY <1>1, <1>2 DEF Rest
<1>4. [i \in S |-> Relaid(i, on[i], new, rest[i])] = Left(e, old, new, c)
  BY <1>1, <1>3 DEF Left
<1>5. \A i \in S : on[i] \in Nat /\ on[i] \in {0} /\ rest[i] \in Int \ {0}
  BY <1>2, <1>3, LaidWithin
<1>6. Relays(z, S, on, new, rest, {0})
  BY <1>2, <1>4, <1>5 DEF Relays
<1> QED
  BY <1>1, <1>6, RelaidIs

(***************************************************************************)
(* What is taken back of money received is what is laid anew.              *)
(***************************************************************************)
Spread(back, up, rest, on, off, e, old, c) ==
    /\ back = Back /\ up = Onwards(old, c) /\ rest = Rest(old, c)
    /\ on = {j \in RowsOf(e) : OnMirror(j, old, c) > 0}
    /\ off = {j \in RowsOf(e) : Remaining(j, old, c) > 0}

OfRows(S, r) == {i \in S : rows[i].receipt = r}

LEMMA RelaidWhole ==
    ASSUME LinesTyped, MoneyTyped, NEW e, NEW old, old \subseteq DOMAIN lines, NEW c \in Cohorts,
           \A i \in RowsOf(e) : rows[i].amount > 0,
           NEW back, NEW up, NEW rest, NEW on, NEW off, Spread(back, up, rest, on, off, e, old, c), NEW r
    PROVE  SumFunctionOnSet(back, OfRows(RowsOf(e), r)) + SumFunctionOnSet(up, OfRows(on, r))
               + SumFunctionOnSet(rest, OfRows(off, r)) = 0
<1>0. /\ back = Back /\ up = Onwards(old, c) /\ rest = Rest(old, c)
      /\ on = {j \in RowsOf(e) : OnMirror(j, old, c) > 0}
      /\ off = {j \in RowsOf(e) : Remaining(j, old, c) > 0}
  BY DEF Spread
<1>1. PICK R, U, V, was :
          /\ R = OfRows(RowsOf(e), r) /\ U = OfRows(on, r) /\ V = OfRows(off, r)
          /\ was = [i \in DOMAIN rows |-> rows[i].amount]
  OBVIOUS
<1>2. R \subseteq DOMAIN rows /\ R \subseteq RowsOf(e) /\ U \subseteq R /\ V \subseteq R /\ IsFiniteSet(R)
  <2>1. R \subseteq DOMAIN rows /\ R \subseteq RowsOf(e) /\ U \subseteq R /\ V \subseteq R
    BY <1>0, <1>1 DEF RowsOf, OfRows
  <2> QED
    BY <2>1, RowsThere, FS_Subset
<1>3. ASSUME NEW i \in R
      PROVE  /\ was[i] \in Int /\ up[i] \in Int /\ rest[i] \in Int
             /\ was[i] = up[i] + rest[i] /\ back[i] = -was[i]
             /\ (i \in U <=> up[i] > 0) /\ (i \in V <=> rest[i] > 0)
             /\ up[i] >= 0 /\ rest[i] >= 0
  <2>1. i \in DOMAIN rows /\ i \in RowsOf(e)
    BY <1>2
  <2>2. /\ was[i] = rows[i].amount /\ back[i] = -rows[i].amount
        /\ up[i] = OnMirror(i, old, c) /\ rest[i] = Remaining(i, old, c)
    BY <1>0, <1>1, <2>1 DEF Back, Onwards, Rest
  <2>3. rows[i].amount \in Int /\ rows[i].amount > 0
    BY <2>1, RowsThere
  <2>4. /\ OnMirror(i, old, c) \in Int /\ Remaining(i, old, c) \in Int
        /\ OnMirror(i, old, c) >= 0 /\ Remaining(i, old, c) >= 0
        /\ Remaining(i, old, c) = rows[i].amount - OnMirror(i, old, c)
    BY <2>1, <2>3, LaidWithin
  <2>5. (i \in U <=> up[i] > 0) /\ (i \in V <=> rest[i] > 0)
    BY <1>0, <1>1, <2>1, <2>2 DEF OfRows
  <2> QED
    BY <2>2, <2>3, <2>4, <2>5
<1>4. SumFunctionOnSet(up, R) = SumFunctionOnSet(up, U)
  <2>1. \A i \in U : up[i] \in Int /\ up[i] = up[i]
    BY <1>2, <1>3
  <2>2. \A i \in R \ U : up[i] = 0
    BY <1>3
  <2> QED
    BY <1>2, <2>1, <2>2, SumWithZeros
<1>5. SumFunctionOnSet(rest, R) = SumFunctionOnSet(rest, V)
  <2>1. \A i \in V : rest[i] \in Int /\ rest[i] = rest[i]
    BY <1>2, <1>3
  <2>2. \A i \in R \ V : rest[i] = 0
    BY <1>3
  <2> QED
    BY <1>2, <2>1, <2>2, SumWithZeros
<1>6. SumFunctionOnSet(was, R) = SumFunctionOnSet(up, R) + SumFunctionOnSet(rest, R)
  BY <1>2, <1>3, SumOfSums
<1>7. SumFunctionOnSet(back, R) = -SumFunctionOnSet(was, R)
  BY <1>2, <1>3, SumOfOpposites
<1>8. SumFunctionOnSet(up, R) \in Int /\ SumFunctionOnSet(rest, R) \in Int
  BY <1>2, <1>3, SumTyped
<1>9. SumFunctionOnSet(back, R) + SumFunctionOnSet(up, U) + SumFunctionOnSet(rest, V) = 0
  BY <1>4, <1>5, <1>6, <1>7, <1>8
<1> QED
  BY <1>1, <1>9, Zenon

(***************************************************************************)
(* What becomes of the allocations.                                        *)
(***************************************************************************)
Moved(e, old, new) ==
    /\ rows' \in Seq(Allocation)
    /\ DOMAIN rows \subseteq DOMAIN rows' /\ \A i \in DOMAIN rows : rows'[i] = rows[i]
    /\ \A i \in DOMAIN rows' : i \notin DOMAIN rows =>
          /\ rows'[i].receipt \in DOMAIN receipts
          /\ rows'[i].line \in DOMAIN lines \cup {0} \cup Copies(old)
          /\ rows'[i].enrolment \in {e, new} /\ rows'[i].why = "move"
          /\ rows'[i].amount < 0 => rows'[i].enrolment = e
    /\ SumIn(AmountOf, rows', OfSeat(e)) = 0
    /\ \A f : f \notin {e, new} => SumIn(AmountOf, rows', OfSeat(f)) = SumIn(AmountOf, rows, OfSeat(f))
    /\ (\A i \in RowsOf(e) : rows[i].amount > 0) =>
          \A r : SumIn(AmountOf, rows', OfReceipt(r)) = SumIn(AmountOf, rows, OfReceipt(r))

Relaying(w1, w2, a, b, z, e, old, new, c) ==
    /\ a = Listed(Taken(e)) /\ b = Listed(Laid(e, old, new, c)) /\ z = Listed(Left(e, old, new, c))
    /\ Onto(w1, rows, a) /\ Onto(w2, w1, b) /\ Onto(rows', w2, z)

Grew(w3, table, a, b, z) ==
    /\ w3 \in Seq(Allocation)
    /\ DOMAIN table \subseteq DOMAIN w3 /\ \A i \in DOMAIN table : w3[i] = table[i]
    /\ \A i \in DOMAIN w3 : i \notin DOMAIN table =>
          \/ \E k \in DOMAIN a : w3[i] = a[k]
          \/ \E k \in DOMAIN b : w3[i] = b[k]
          \/ \E k \in DOMAIN z : w3[i] = z[k]
    /\ \A Q : SumIn(AmountOf, w3, Q) = SumIn(AmountOf, table, Q) + SumIn(AmountOf, a, Q)
                                           + SumIn(AmountOf, b, Q) + SumIn(AmountOf, z, Q)

LEMMA FourSums ==
    ASSUME NEW table, NEW a, NEW b, NEW z, NEW w1, NEW w2, NEW w3,
           table \in Seq(Allocation), a \in Seq(Allocation), b \in Seq(Allocation), z \in Seq(Allocation),
           Onto(w1, table, a), Onto(w2, w1, b), Onto(w3, w2, z)
    PROVE  Grew(w3, table, a, b, z)
<1>1. /\ w1 \in Seq(Allocation)
      /\ DOMAIN table \subseteq DOMAIN w1 /\ \A i \in DOMAIN table : w1[i] = table[i]
      /\ \A i \in DOMAIN w1 : i \notin DOMAIN table => \E k \in DOMAIN a : w1[i] = a[k]
  BY JoinedRows
<1>2. /\ w2 \in Seq(Allocation)
      /\ DOMAIN w1 \subseteq DOMAIN w2 /\ \A i \in DOMAIN w1 : w2[i] = w1[i]
      /\ \A i \in DOMAIN w2 : i \notin DOMAIN w1 => \E k \in DOMAIN b : w2[i] = b[k]
  BY <1>1, JoinedRows
<1>3. /\ w3 \in Seq(Allocation)
      /\ DOMAIN w2 \subseteq DOMAIN w3 /\ \A i \in DOMAIN w2 : w3[i] = w2[i]
      /\ \A i \in DOMAIN w3 : i \notin DOMAIN w2 => \E k \in DOMAIN z : w3[i] = z[k]
  BY <1>2, JoinedRows
<1>4. ASSUME NEW Q
      PROVE  SumIn(AmountOf, w3, Q) = SumIn(AmountOf, table, Q) + SumIn(AmountOf, a, Q)
                                          + SumIn(AmountOf, b, Q) + SumIn(AmountOf, z, Q)
  <2>1. SumIn(AmountOf, w1, Q) = SumIn(AmountOf, table, Q) + SumIn(AmountOf, a, Q)
    BY AmountsAre, SumJoined
  <2>2. SumIn(AmountOf, w2, Q) = SumIn(AmountOf, w1, Q) + SumIn(AmountOf, b, Q)
    BY <1>1, AmountsAre, SumJoined
  <2>3. SumIn(AmountOf, w3, Q) = SumIn(AmountOf, w2, Q) + SumIn(AmountOf, z, Q)
    BY <1>2, AmountsAre, SumJoined
  <2> QED
    BY <2>1, <2>2, <2>3
<1>5. ASSUME NEW i \in DOMAIN w3, i \notin DOMAIN table
      PROVE  \/ \E k \in DOMAIN a : w3[i] = a[k]
             \/ \E k \in DOMAIN b : w3[i] = b[k]
             \/ \E k \in DOMAIN z : w3[i] = z[k]
  <2>1. CASE i \notin DOMAIN w2
    BY <1>3, <2>1
  <2>2. CASE i \in DOMAIN w2 /\ i \notin DOMAIN w1
    BY <1>2, <1>3, <2>2
  <2>3. CASE i \in DOMAIN w1
    <3>1. i \in DOMAIN w2 /\ w3[i] = w1[i]
      BY <1>2, <1>3, <2>3
    <3> QED
      BY <1>1, <1>5, <2>3, <3>1
  <2> QED
    BY <2>1, <2>2, <2>3
<1>6. \A i \in DOMAIN table : i \in DOMAIN w3 /\ w3[i] = table[i]
  BY <1>1, <1>2, <1>3
<1> QED
  BY <1>3, <1>4, <1>5, <1>6 DEF Grew

LEMMA MovedIs ==
    ASSUME LinesTyped, MoneyTyped, NEW e, e \in Nat \ {0}, NEW new, new \in Nat \ {0}, e # new,
           NEW old, old \subseteq DOMAIN lines, NEW c \in Cohorts,
           NEW w1, NEW w2, NEW a, NEW b, NEW z, Relaying(w1, w2, a, b, z, e, old, new, c)
    PROVE  Moved(e, old, new)
<1>1. PICK table, after, back, up, rest, on, off :
          /\ table = rows /\ after = rows'
          /\ back = Back /\ up = Onwards(old, c) /\ rest = Rest(old, c)
          /\ on = {j \in RowsOf(e) : OnMirror(j, old, c) > 0}
          /\ off = {j \in RowsOf(e) : Remaining(j, old, c) > 0}
  OBVIOUS
<1>0. Spread(back, up, rest, on, off, e, old, c)
  BY <1>1 DEF Spread
<1>2. /\ RelaidFrom(a, RowsOf(e), e, back, DOMAIN lines \cup {0})
      /\ RelaidFrom(b, on, new, up, Copies(old))
      /\ RelaidFrom(z, off, new, rest, {0})
  BY <1>1, TakenIs, LaidIs, LeftIs DEF Relaying
<1>3. a \in Seq(Allocation) /\ b \in Seq(Allocation) /\ z \in Seq(Allocation)
  BY <1>2 DEF RelaidFrom
<1>4. table \in Seq(Allocation) /\ Onto(w1, table, a) /\ Onto(w2, w1, b) /\ Onto(after, w2, z)
  BY <1>1 DEF Relaying, MoneyTyped
<1>5. /\ after \in Seq(Allocation)
      /\ DOMAIN table \subseteq DOMAIN after /\ \A i \in DOMAIN table : after[i] = table[i]
      /\ \A i \in DOMAIN after : i \notin DOMAIN table =>
            \/ \E k \in DOMAIN a : after[i] = a[k]
            \/ \E k \in DOMAIN b : after[i] = b[k]
            \/ \E k \in DOMAIN z : after[i] = z[k]
      /\ \A Q : SumIn(AmountOf, after, Q) = SumIn(AmountOf, table, Q) + SumIn(AmountOf, a, Q)
                                                + SumIn(AmountOf, b, Q) + SumIn(AmountOf, z, Q)
  <2>1. Grew(after, table, a, b, z)
    BY <1>3, <1>4, FourSums
  <2> QED
    BY <2>1 DEF Grew
<1>6. \A k \in DOMAIN a : /\ a[k].receipt \in DOMAIN receipts /\ a[k].line \in DOMAIN lines \cup {0}
                          /\ a[k].enrolment = e /\ a[k].why = "move"
  BY <1>2 DEF RelaidFrom
<1>7. \A k \in DOMAIN b : /\ b[k].receipt \in DOMAIN receipts /\ b[k].line \in Copies(old)
                          /\ b[k].enrolment = new /\ b[k].why = "move" /\ b[k].amount > 0
  <2>1. \A i \in on : up[i] > 0
    BY <1>1 DEF Onwards, RowsOf
  <2> QED
    BY <1>2, <2>1 DEF RelaidFrom
<1>8. \A k \in DOMAIN z : /\ z[k].receipt \in DOMAIN receipts /\ z[k].line = 0
                          /\ z[k].enrolment = new /\ z[k].why = "move" /\ z[k].amount > 0
  <2>1. \A i \in off : rest[i] > 0
    BY <1>1 DEF Rest, RowsOf
  <2> QED
    BY <1>2, <2>1 DEF RelaidFrom
<1>9. ASSUME NEW i \in DOMAIN after, i \notin DOMAIN table
      PROVE  /\ after[i].receipt \in DOMAIN receipts
             /\ after[i].line \in DOMAIN lines \cup {0} \cup Copies(old)
             /\ after[i].enrolment \in {e, new} /\ after[i].why = "move"
             /\ after[i].amount < 0 => after[i].enrolment = e
  <2>1. CASE \E k \in DOMAIN a : after[i] = a[k]
    BY <1>6, <2>1
  <2>2. CASE \E k \in DOMAIN b : after[i] = b[k]
    <3>1. PICK k \in DOMAIN b : after[i] = b[k]
      BY <2>2
    <3>2. b[k].amount \in Int
      <4>1. b[k] \in Allocation
        BY <1>3, LenProperties
      <4> QED
        BY <4>1 DEF Allocation
    <3> QED
      BY <1>7, <3>1, <3>2
  <2>3. CASE \E k \in DOMAIN z : after[i] = z[k]
    <3>1. PICK k \in DOMAIN z : after[i] = z[k]
      BY <2>3
    <3>2. z[k].amount \in Int
      <4>1. z[k] \in Allocation
        BY <1>3, LenProperties
      <4> QED
        BY <4>1 DEF Allocation
    <3> QED
      BY <1>8, <3>1, <3>2
  <2> QED
    BY <1>5, <1>9, <2>1, <2>2, <2>3
<1>10. \A Q : SumIn(AmountOf, table, Q) \in Int
  BY <1>4, AmountsAre, KindsAre
<1>11. SumIn(AmountOf, after, OfSeat(e)) = 0
  <2>1. SumIn(AmountOf, b, OfSeat(e)) = 0 /\ SumIn(AmountOf, z, OfSeat(e)) = 0
    BY <1>2 DEF RelaidFrom
  <2>2. SumIn(AmountOf, a, OfSeat(e)) = SumFunctionOnSet(back, RowsOf(e))
    BY <1>2 DEF RelaidFrom
  <2>3. SumFunctionOnSet(back, RowsOf(e)) = -SumIn(AmountOf, table, OfSeat(e))
    <3>1. PICK was : was = [i \in DOMAIN rows |-> rows[i].amount]
      OBVIOUS
    <3>2. RowsOf(e) \subseteq DOMAIN rows /\ IsFiniteSet(RowsOf(e))
      <4>1. RowsOf(e) \subseteq DOMAIN rows
        BY DEF RowsOf
      <4> QED
        BY <4>1, RowsThere, FS_Subset
    <3>3. \A i \in RowsOf(e) : was[i] \in Int /\ back[i] = -was[i]
      BY <1>1, <3>1, <3>2, RowsThere DEF Back
    <3>4. SumFunctionOnSet(back, RowsOf(e)) = -SumFunctionOnSet(was, RowsOf(e))
      BY <3>2, <3>3, SumOfOpposites
    <3>5. SumFunctionOnSet(was, RowsOf(e)) = Collected(e)
      BY <3>1 DEF Collected, Allocated
    <3>6. Collected(e) = SumIn(AmountOf, table, OfSeat(e))
      BY <1>1, SumsAre
    <3> QED
      BY <3>4, <3>5, <3>6
  <2> QED
    BY <1>5, <1>10, <2>1, <2>2, <2>3
<1>12. ASSUME NEW f, f \notin {e, new} PROVE SumIn(AmountOf, after, OfSeat(f)) = SumIn(AmountOf, table, OfSeat(f))
  <2>1. /\ SumIn(AmountOf, a, OfSeat(f)) = 0
        /\ SumIn(AmountOf, b, OfSeat(f)) = 0 /\ SumIn(AmountOf, z, OfSeat(f)) = 0
    BY <1>2, <1>12 DEF RelaidFrom
  <2> QED
    BY <1>5, <1>10, <2>1
<1>13. ASSUME \A i \in RowsOf(e) : rows[i].amount > 0, NEW r
       PROVE  SumIn(AmountOf, after, OfReceipt(r)) = SumIn(AmountOf, table, OfReceipt(r))
  <2>1. PICK x, y, v : /\ x = SumFunctionOnSet(back, OfRows(RowsOf(e), r))
                       /\ y = SumFunctionOnSet(up, OfRows(on, r))
                       /\ v = SumFunctionOnSet(rest, OfRows(off, r))
    OBVIOUS
  <2>2. x + y + v = 0
    BY <1>0, <1>13, <2>1, RelaidWhole
  <2>3. /\ SumIn(AmountOf, a, OfReceipt(r)) = x /\ SumIn(AmountOf, b, OfReceipt(r)) = y
        /\ SumIn(AmountOf, z, OfReceipt(r)) = v
    BY <1>2, <2>1 DEF RelaidFrom, OfRows
  <2>4. x \in Int /\ y \in Int /\ v \in Int
    BY <1>3, <2>3, AmountsAre, KindsAre
  <2>5. SumIn(AmountOf, after, OfReceipt(r)) = SumIn(AmountOf, table, OfReceipt(r)) + x + y + v
    BY <1>5, <2>3
  <2> QED
    BY <1>10, <2>2, <2>4, <2>5
<1> QED
  BY <1>1, <1>5, <1>9, <1>11, <1>12, <1>13 DEF Moved

-----------------------------------------------------------------------------
(* Tuition on the new enrolment. *)

GrossOf == [l \in ChargeLine |-> l.gross]

OfTuition(e) == {l \in ChargeLine : l.enrolment = e /\ l.type # "REGISTRATION" /\ ~l.voided}

LEMMA GrossesAre ==
    /\ Values(GrossOf, ChargeLine)
    /\ \A l \in ChargeLine : GrossOf[l] = l.gross
  BY DEF Values, GrossOf, ChargeLine

LEMMA TuitionIs ==
    lines \in Seq(ChargeLine) => \A e : TuitionOf(e) = SumIn(GrossOf, lines, OfTuition(e))
<1> SUFFICES ASSUME lines \in Seq(ChargeLine), NEW e
             PROVE  TuitionOf(e) = SumIn(GrossOf, lines, OfTuition(e))
  OBVIOUS
<1>1. \A l \in DOMAIN lines : lines[l] \in ChargeLine
  BY LenProperties
<1>2. Valued(GrossOf, lines) = [l \in DOMAIN lines |-> lines[l].gross]
  <2>1. \A l \in DOMAIN lines : GrossOf[lines[l]] = lines[l].gross
    BY <1>1, GrossesAre
  <2> QED
    BY <2>1 DEF Valued
<1>3. {l \in LinesOf(e) : lines[l].type # "REGISTRATION"} = OfKind(lines, OfTuition(e))
  BY <1>1 DEF OfKind, OfTuition, LinesOf
<1> QED
  BY <1>2, <1>3 DEF TuitionOf, Gross, SumIn

LEMMA TuitionIsLater ==
    lines' \in Seq(ChargeLine) => \A e : TuitionOf(e)' = SumIn(GrossOf, lines', OfTuition(e))
<1>1. (lines \in Seq(ChargeLine) => \A e : TuitionOf(e) = SumIn(GrossOf, lines, OfTuition(e)))'
  BY TuitionIs, PTL
<1> QED
  BY <1>1

LEMMA SumOfSingle ==
    ASSUME NEW f, NEW x, f[x] \in Int
    PROVE  SumFunctionOnSet(f, {x}) = f[x]
<1>1. SumFunctionOnSet(f, {}) = 0 /\ IsFiniteSet({})
  BY SumFirst, FS_EmptySet
<1>2. SumFunctionOnSet(f, {} \cup {x}) = f[x] + SumFunctionOnSet(f, {})
  BY <1>1, SumAddOne
<1>3. {} \cup {x} = {x}
  OBVIOUS
<1> QED
  BY <1>1, <1>2, <1>3

(***************************************************************************)
(* What a move of the first enrolment's lines charges the new one.         *)
(***************************************************************************)
LEMMA FirstRaised ==
    ASSUME LinesTyped, FirstLines, NEW c \in Cohorts, NEW old, old = {1, 2}, NEW n, n = Difference(old, c)
    PROVE  /\ n \in Int /\ RaisedAt(1, old, c) \in Int
           /\ RaisedAt(1, old, c) + (IF n > 0 THEN n ELSE 0) = Price[c]
<1>1. PICK g : g = lines[1].gross
  OBVIOUS
<1>2. /\ g \in Nat /\ 1 \in DOMAIN lines /\ lines[1].type = "TUITION" /\ lines[2].type = "REGISTRATION"
      /\ old \subseteq DOMAIN lines
  BY <1>1, LinesThere DEF FirstLines
<1>3. OldTuition(old) = g
  <2>1. PICK f : f = [l \in DOMAIN lines |-> lines[l].gross]
    OBVIOUS
  <2>2. {l \in old : lines[l].type = "TUITION"} = {1}
    BY <1>2
  <2>3. f[1] = g
    BY <1>1, <1>2, <2>1
  <2>4. SumFunctionOnSet(f, {1}) = g
    BY <1>2, <2>3, SumOfSingle
  <2> QED
    BY <2>1, <2>2, <2>4 DEF OldTuition, Gross
<1>4. n = Price[c] - g /\ Price[c] \in Nat
  BY <1>3, PriceIs DEF Difference
<1>5. RaisedAt(1, old, c) = IF n < 0 THEN Price[c] ELSE g
  BY <1>1, <1>2 DEF RaisedAt
<1> QED
  BY <1>2, <1>4, <1>5

LEMMA TuitionMoved ==
    ASSUME LinesTyped, FirstLines, NEW new \in Nat \ {0}, new \notin DOMAIN seats, NEW c \in Cohorts,
           NEW old, old = {1, 2}, NEW kept, NEW all, NEW u, NEW v, Parts(kept, all, u, v, old, new, c)
    PROVE  TuitionOf(new)' = Price[c]
<1>0. /\ Kept(kept, old) /\ u = Listed(Mirror(old, new, c)) /\ v = DifferenceLine(old, new, c)
      /\ Onto(all, kept, u) /\ Onto(lines', all, v)
  BY DEF Parts
<1>1. old \subseteq DOMAIN lines /\ lines[1].type = "TUITION" /\ lines[2].type = "REGISTRATION"
  BY DEF FirstLines
<1>2. PICK after, Q, f, n, h : /\ after = lines' /\ Q = OfTuition(new) /\ f = Mirror(old, new, c)
                               /\ n = Difference(old, c)
                               /\ h = [l \in old |-> RaisedAt(l, old, c)]
  OBVIOUS
<1>3. /\ n \in Int /\ RaisedAt(1, old, c) \in Int
      /\ RaisedAt(1, old, c) + (IF n > 0 THEN n ELSE 0) = Price[c]
  BY <1>2, FirstRaised
<1>4. /\ kept \in Seq(ChargeLine) /\ DOMAIN kept = DOMAIN lines
      /\ \A l \in DOMAIN lines : kept[l].enrolment = lines[l].enrolment
  BY <1>0, KeptIs
<1>5. /\ old = DOMAIN f /\ old \in SUBSET Nat /\ IsFiniteSet(old)
      /\ \A l \in old : /\ f[l] \in ChargeLine /\ f[l].enrolment = new /\ f[l].type = lines[l].type
                        /\ f[l].gross = RaisedAt(l, old, c) /\ ~f[l].voided
  <2>1. Mirrors(f, old, new, c)
    BY <1>1, <1>2 DEF Mirrors
  <2> QED
    BY <2>1, MirrorIs
<1>6. Lists(u, f, old, ChargeLine)
  BY <1>0, <1>2, <1>5 DEF Lists
<1>7. u \in Seq(ChargeLine)
  BY <1>6, ListedRows
<1>8. /\ v \in Seq(ChargeLine)
      /\ \A k \in DOMAIN v : v[k].enrolment = new
      /\ n > 0 => v = <<DifferenceRow(new, n)>>
      /\ ~(n > 0) => v = <<>>
  BY <1>0, <1>1, <1>2, DifferenceIs
<1>9. all \in Seq(ChargeLine)
  BY <1>0, <1>4, <1>7, JoinedRows
<1>10. after \in Seq(ChargeLine) /\ Onto(after, all, v)
  <2>1. Onto(after, all, v)
    BY <1>0, <1>2
  <2> QED
    BY <1>8, <1>9, <2>1, JoinedRows
<1>11. SumIn(GrossOf, after, Q) = SumIn(GrossOf, kept, Q) + SumIn(GrossOf, u, Q) + SumIn(GrossOf, v, Q)
  <2>1. SumIn(GrossOf, after, Q) = SumIn(GrossOf, all, Q) + SumIn(GrossOf, v, Q)
    BY <1>8, <1>9, <1>10, GrossesAre, SumJoined
  <2>2. SumIn(GrossOf, all, Q) = SumIn(GrossOf, kept, Q) + SumIn(GrossOf, u, Q)
    BY <1>0, <1>4, <1>7, GrossesAre, SumJoined
  <2> QED
    BY <2>1, <2>2
<1>12. SumIn(GrossOf, kept, Q) = 0
  <2>1. \A l \in DOMAIN kept : kept[l].enrolment # new
    BY <1>4, LinesThere
  <2>2. OfKind(kept, Q) = {}
    BY <1>2, <2>1 DEF OfKind, OfTuition
  <2>3. SumFunctionOnSet(Valued(GrossOf, kept), {}) = 0
    BY SumFirst, FS_EmptySet
  <2> QED
    BY <2>2, <2>3 DEF SumIn
<1>13. SumIn(GrossOf, u, Q) = RaisedAt(1, old, c)
  <2>1. {x \in old : f[x] \in Q} = {1}
    BY <1>1, <1>2, <1>5 DEF OfTuition
  <2>2. PICK P : P = {x \in old : f[x] \in Q}
    OBVIOUS
  <2>3. \A x \in old : h[x] = GrossOf[f[x]]
    BY <1>2, <1>5, GrossesAre
  <2>4. SumIn(GrossOf, u, Q) = SumFunctionOnSet(h, P)
    BY <1>6, <2>2, <2>3, GrossesAre, ListedSum
  <2>5. h[1] = RaisedAt(1, old, c)
    BY <1>2
  <2>6. SumFunctionOnSet(h, {1}) = h[1]
    BY <1>3, <2>5, SumOfSingle
  <2> QED
    BY <2>1, <2>2, <2>4, <2>5, <2>6
<1>14. SumIn(GrossOf, v, Q) = IF n > 0 THEN n ELSE 0
  <2>1. CASE n > 0
    <3>1. PICK row, none : row = DifferenceRow(new, n) /\ none = <<>>
      OBVIOUS
    <3>2. "TRANSFER_DIFFERENCE" \in Range(AllocationOrder)
      BY DEF Range, AllocationOrder
    <3>3. row \in ChargeLine /\ row.gross = n /\ row \in Q
      BY <1>2, <1>3, <2>1, <3>1, <3>2 DEF ChargeLine, OfTuition, DifferenceRow
    <3>4. Single(v, none, row)
      BY <1>8, <2>1, <3>1 DEF Single
    <3>5. \A val, R : Values(val, ChargeLine) => SumIn(val, v, R) = IF row \in R THEN val[row] ELSE 0
      BY <3>3, <3>4, OneRow
    <3> QED
      BY <2>1, <3>3, <3>5, GrossesAre
  <2>2. CASE ~(n > 0)
    BY <1>8, <2>2, SumNone
  <2> QED
    BY <2>1, <2>2
<1>15. TuitionOf(new)' = SumIn(GrossOf, after, Q)
  BY <1>2, <1>10, TuitionIsLater
<1> QED
  BY <1>3, <1>11, <1>12, <1>13, <1>14, <1>15

(***************************************************************************)
(* Enrolments the move is not about keep their lines and their tuition.    *)
(***************************************************************************)
LEMMA OtherLines ==
    ASSUME LinesTyped, NEW old, NEW new, Carried(old, new), NEW f, f # new,
           \A l \in old : l \in DOMAIN lines => lines[l].enrolment # f
    PROVE  LinesOf(f)' = LinesOf(f) /\ TuitionOf(f)' = TuitionOf(f)
<1>1. LinesOf(f)' = LinesOf(f)
  BY DEF LinesOf, Carried
<1>2. PICK L, g, h : /\ L = {l \in LinesOf(f) : lines[l].type # "REGISTRATION"}
                     /\ g = [l \in DOMAIN lines |-> lines[l].gross]
                     /\ h = [l \in DOMAIN lines' |-> lines'[l].gross]
  OBVIOUS
<1>3. L \subseteq DOMAIN lines /\ IsFiniteSet(L)
  <2>1. L \subseteq DOMAIN lines
    BY <1>2 DEF LinesOf
  <2> QED
    BY <2>1, LinesThere, FS_Subset
<1>4. \A l \in L : g[l] \in Int /\ h[l] = g[l]
  BY <1>2, <1>3, LinesThere DEF Carried
<1>5. SumFunctionOnSet(h, L) = SumFunctionOnSet(g, L)
  BY <1>3, <1>4, SumSame
<1>6. TuitionOf(f) = SumFunctionOnSet(g, L)
  BY <1>2 DEF TuitionOf, Gross
<1>7. TuitionOf(f)' = SumFunctionOnSet(h, L)
  <2>1. \A l \in LinesOf(f) : lines'[l].type = lines[l].type
    BY DEF LinesOf, Carried
  <2>2. {l \in LinesOf(f)' : lines'[l].type # "REGISTRATION"} = L
    BY <1>1, <1>2, <2>1
  <2> QED
    BY <1>2, <2>2 DEF TuitionOf, Gross
<1> QED
  BY <1>1, <1>5, <1>6, <1>7

-----------------------------------------------------------------------------
(* What an execution does, as a whole. *)

Performs(p, t, e, c, old, new) ==
    /\ p.op = "execute" /\ p.on = t /\ SeatOf(p) = e
    /\ t \in DOMAIN transfers /\ transfers[t].from = e /\ transfers[t].cohort = c
    /\ e \in DOMAIN seats /\ e \in Nat \ {0} /\ c \in Cohorts
    /\ old \subseteq DOMAIN lines /\ \A l \in old : lines[l].enrolment = e
    /\ "execute" \notin p.overtaken => ~ExecutedFrom(e) /\ old = LinesOf(e)
    /\ DOMAIN seats' = DOMAIN seats \cup {new} /\ new \notin DOMAIN seats /\ new \in Nat \ {0}
    /\ seats'[e].status = "TRANSFERRED_OUT"
    /\ \A f \in DOMAIN seats : f # e => seats'[f] = seats[f]
    /\ DOMAIN transfers' = DOMAIN transfers
    /\ \A u \in DOMAIN transfers : transfers'[u].from = transfers[u].from
    /\ \A u \in DOMAIN transfers : u # t => transfers'[u] = transfers[u]
    /\ transfers'[t].to = new /\ transfers'[t].status = "EXECUTED" /\ transfers'[t].cohort = c
    /\ receipts' = receipts
    /\ Carried(old, new) /\ Moved(e, old, new)
    /\ old = {1, 2} /\ FirstLines => TuitionOf(new)' = Price[c]

LEMMA ExecuteIs ==
    ASSUME TransferInv, NEW d \in Desks, WriteExecute(d), NEW p, p = form[d], NEW t, t = p.on,
           NEW e, e = transfers[t].from, NEW c, c = transfers[t].cohort, NEW old, old = p.lines,
           NEW new, new = Len(seats) + 1
    PROVE  /\ Performs(p, t, e, c, old, new)
           /\ PlacesTyped' /\ OwedTyped' /\ transfers' \in Seq(TransferRow)
<1>1. /\ p.op = "execute" /\ p.started /\ new <= MaxSeats
      /\ seats' = Reseat(e, c)
      /\ Recover(e, t)
      /\ transfers' = [transfers EXCEPT ![t].status = "EXECUTED", ![t].to = new]
      /\ receipts' = receipts
  BY DEF WriteExecute, Handling
<1>2. /\ lines' = [l \in DOMAIN lines |-> [lines[l] EXCEPT !.voided = @ \/ l \in old]]
                      \o Listed(Mirror(old, new, c)) \o DifferenceLine(old, new, c)
      /\ rows' = rows \o Listed(Taken(e)) \o Listed(Laid(e, old, new, c))
                      \o Listed(Left(e, old, new, c))
  BY DEF WriteExecute
<1>3. FormFits(p) /\ FormSees(p) /\ p.op \in Decisions
  BY <1>1, FormIs DEF Decisions
<1>4. /\ t \in DOMAIN transfers /\ SeatOf(p) = e
      /\ old \subseteq DOMAIN lines /\ \A l \in old : lines[l].enrolment = e
  BY <1>1, <1>3 DEF FormFits, SeatOf
<1>5. e \in DOMAIN seats /\ e \in Nat \ {0} /\ c \in Cohorts
  BY <1>4, TransfersThere, SeatsThere
<1>6. "execute" \notin p.overtaken => ~ExecutedFrom(e) /\ old = LinesOf(e)
  BY <1>1, <1>3, <1>4 DEF FormSees
<1>7. /\ PlacesTyped'
      /\ DOMAIN seats' = DOMAIN seats \cup {new} /\ new \notin DOMAIN seats /\ new \in Nat \ {0}
      /\ seats'[e].status = "TRANSFERRED_OUT"
      /\ \A f \in DOMAIN seats : f # e => seats'[f] = seats[f]
  BY <1>1, <1>5, ReseatIs
<1>8. /\ transfers' \in Seq(TransferRow) /\ DOMAIN transfers' = DOMAIN transfers
      /\ \A u \in DOMAIN transfers : transfers'[u].from = transfers[u].from
      /\ \A u \in DOMAIN transfers : u # t => transfers'[u] = transfers[u]
      /\ transfers'[t].to = new /\ transfers'[t].status = "EXECUTED"
      /\ transfers'[t].cohort = transfers[t].cohort
  <2>1. new \in Nat \ {0} /\ t \in DOMAIN transfers
    BY <1>4, <1>7
  <2>2. transfers' = [transfers EXCEPT ![t].status = "EXECUTED", ![t].to = new]
    BY <1>1
  <2> QED
    BY <2>1, <2>2, ExecutedIs
<1>9. OwedTyped'
  BY <1>1, <1>4, <1>5, <1>7, <1>8, RecoverKeeps
<1>10. LinesTyped /\ MoneyTyped
  BY DEF TransferInv, MoveTables
<1>11. PICK kept, all, u, v : Parts(kept, all, u, v, old, new, c)
  <2>1. PICK kept, all, u, v :
            /\ kept = [l \in DOMAIN lines |-> [lines[l] EXCEPT !.voided = @ \/ l \in old]]
            /\ u = Listed(Mirror(old, new, c)) /\ v = DifferenceLine(old, new, c) /\ all = kept \o u
    OBVIOUS
  <2>2. lines' = all \o v
    BY <1>2, <2>1
  <2> QED
    BY <2>1, <2>2 DEF Parts, Kept, Onto
<1>12. PICK w1, w2, a, b, z : Relaying(w1, w2, a, b, z, e, old, new, c)
  <2>1. PICK w1, w2, a, b, z :
            /\ a = Listed(Taken(e)) /\ b = Listed(Laid(e, old, new, c))
            /\ z = Listed(Left(e, old, new, c)) /\ w1 = rows \o a /\ w2 = w1 \o b
    OBVIOUS
  <2>2. rows' = w2 \o z
    BY <1>2, <2>1
  <2> QED
    BY <2>1, <2>2 DEF Relaying, Onto
<1>13. Carried(old, new)
  BY <1>4, <1>5, <1>7, <1>10, <1>11, CarriedIs
<1>14. Moved(e, old, new)
  BY <1>4, <1>5, <1>7, <1>10, <1>12, MovedIs
<1>15. old = {1, 2} /\ FirstLines => TuitionOf(new)' = Price[c]
  BY <1>5, <1>7, <1>10, <1>11, TuitionMoved
<1> QED
  BY <1>1, <1>4, <1>5, <1>6, <1>7, <1>8, <1>9, <1>13, <1>14, <1>15 DEF Performs

LEMMA ExecutedFroms ==
    ASSUME TransferInv, NEW p, NEW t, NEW e, NEW c, NEW old, NEW new, Performs(p, t, e, c, old, new)
    PROVE  /\ ExecutedFrom(e)'
           /\ \A f : f # e => (ExecutedFrom(f)' <=> ExecutedFrom(f))
           /\ \A f : ExecutedFrom(f) => f \in DOMAIN seats
<1>1. /\ t \in DOMAIN transfers /\ transfers[t].from = e /\ new # 0
      /\ DOMAIN transfers' = DOMAIN transfers
      /\ \A u \in DOMAIN transfers : transfers'[u].from = transfers[u].from
      /\ \A u \in DOMAIN transfers : u # t => transfers'[u] = transfers[u]
      /\ transfers'[t].to = new
  BY DEF Performs
<1>2. ExecutedFrom(e)'
  BY <1>1 DEF ExecutedFrom
<1>3. ASSUME NEW f, f # e PROVE ExecutedFrom(f)' <=> ExecutedFrom(f)
  <2>1. \A u \in DOMAIN transfers : transfers[u].from = f => transfers'[u] = transfers[u]
    BY <1>1, <1>3
  <2> QED
    BY <1>1, <2>1 DEF ExecutedFrom
<1>4. \A f : ExecutedFrom(f) => f \in DOMAIN seats
  BY TransfersThere DEF ExecutedFrom
<1> QED
  BY <1>2, <1>3, <1>4

LEMMA ExecuteLines ==
    ASSUME TransferInv, NEW p, NEW t, NEW e, NEW c, NEW old, NEW new, Performs(p, t, e, c, old, new)
    PROVE  /\ LinesTyped' /\ FirstLines'
           /\ \A f : f \notin {e, new} => LinesOf(f)' = LinesOf(f) /\ TuitionOf(f)' = TuitionOf(f)
           /\ "execute" \notin p.overtaken => LinesOf(e)' = {}
<1>1. /\ old \subseteq DOMAIN lines /\ \A l \in old : lines[l].enrolment = e
      /\ e \in DOMAIN seats /\ new \notin DOMAIN seats /\ DOMAIN seats' = DOMAIN seats \cup {new}
      /\ "execute" \notin p.overtaken => old = LinesOf(e)
      /\ Carried(old, new)
  BY DEF Performs
<1>2. LinesTyped /\ FirstLines /\ 1 \in DOMAIN seats
  BY SeatsThere DEF TransferInv, MoveTables, Priced
<1>3. \A l \in DOMAIN lines : lines[l].enrolment \in DOMAIN seats
  BY <1>2, LinesThere
<1>4. LinesTyped'
  BY <1>1, <1>3 DEF Carried, LinesTyped
<1>5. FirstLines'
  BY <1>1, <1>2 DEF Carried, FirstLines
<1>6. ASSUME NEW f, f \notin {e, new} PROVE LinesOf(f)' = LinesOf(f) /\ TuitionOf(f)' = TuitionOf(f)
  <2>1. f # new /\ \A l \in old : l \in DOMAIN lines => lines[l].enrolment # f
    BY <1>1, <1>6
  <2> QED
    BY <1>1, <1>2, <2>1, OtherLines
<1>7. "execute" \notin p.overtaken => LinesOf(e)' = {}
  BY <1>1 DEF LinesOf, Carried
<1> QED
  BY <1>4, <1>5, <1>6, <1>7

LEMMA ExecuteTables ==
    ASSUME TransferInv, NEW p, NEW t, NEW e, NEW c, NEW old, NEW new, Performs(p, t, e, c, old, new),
           transfers' \in Seq(TransferRow)
    PROVE  MoneyTyped' /\ TransfersTyped' /\ MovesTell'
<1>1. /\ t \in DOMAIN transfers /\ transfers[t].from = e /\ e \in DOMAIN seats
      /\ new \notin DOMAIN seats /\ DOMAIN seats' = DOMAIN seats \cup {new}
      /\ seats'[e].status = "TRANSFERRED_OUT"
      /\ \A f \in DOMAIN seats : f # e => seats'[f] = seats[f]
      /\ DOMAIN transfers' = DOMAIN transfers
      /\ \A u \in DOMAIN transfers : transfers'[u].from = transfers[u].from
      /\ \A u \in DOMAIN transfers : u # t => transfers'[u] = transfers[u]
      /\ transfers'[t].to = new /\ new # 0
      /\ receipts' = receipts
  BY DEF Performs
<1>2. /\ DOMAIN lines \subseteq DOMAIN lines'
      /\ \A n \in Copies(old) : n \in DOMAIN lines'
  BY DEF Performs, Carried, Copies
<1>3. /\ rows' \in Seq(Allocation)
      /\ DOMAIN rows \subseteq DOMAIN rows' /\ \A i \in DOMAIN rows : rows'[i] = rows[i]
      /\ \A i \in DOMAIN rows' : i \notin DOMAIN rows =>
            /\ rows'[i].receipt \in DOMAIN receipts
            /\ rows'[i].line \in DOMAIN lines \cup {0} \cup Copies(old)
            /\ rows'[i].enrolment \in {e, new} /\ rows'[i].why = "move"
            /\ rows'[i].amount < 0 => rows'[i].enrolment = e
  BY DEF Performs, Moved
<1>4. MoneyTyped /\ receipts \in Seq(Nat \ {0})
  BY DEF TransferInv, MoveTables, MoneyTyped
<1>5. MoneyTyped'
  <2>1. \A i \in DOMAIN rows' : /\ rows'[i].receipt \in DOMAIN receipts
                                /\ rows'[i].line \in DOMAIN lines' \cup {0}
                                /\ rows'[i].enrolment \in DOMAIN seats'
    BY <1>1, <1>2, <1>3, <1>4, RowsThere
  <2> QED
    BY <1>1, <1>3, <1>4, <2>1 DEF MoneyTyped
<1>6. TransfersTyped'
  <2>1. TransfersTyped
    BY DEF TransferInv, MoveTables
  <2>2. ASSUME NEW u \in DOMAIN transfers'
        PROVE  /\ transfers'[u].from \in DOMAIN seats'
               /\ transfers'[u].to \in DOMAIN seats' \cup {0}
               /\ transfers'[u].status = "EXECUTED" => transfers'[u].to # 0
               /\ transfers'[u].to # 0 => seats'[transfers'[u].from].status # "LIVE"
    <3>1. CASE u = t
      BY <1>1, <3>1
    <3>2. CASE u # t
      <4>1. u \in DOMAIN transfers /\ transfers'[u] = transfers[u]
        BY <1>1, <2>2, <3>2
      <4>2. /\ transfers[u].from \in DOMAIN seats /\ transfers[u].to \in DOMAIN seats \cup {0}
            /\ transfers[u].status = "EXECUTED" => transfers[u].to # 0
            /\ transfers[u].to # 0 => seats[transfers[u].from].status # "LIVE"
        BY <2>1, <4>1 DEF TransfersTyped
      <4>3. \A f \in DOMAIN seats : seats[f].status # "LIVE" => seats'[f].status # "LIVE"
        BY <1>1
      <4> QED
        BY <1>1, <4>1, <4>2, <4>3
    <3> QED
      BY <3>1, <3>2
  <2> QED
    BY <2>2 DEF TransfersTyped
<1>7. MovesTell'
  <2>1. ASSUME NEW i \in DOMAIN rows', rows'[i].why = "move", rows'[i].amount < 0, NEW f, f = rows'[i].enrolment
        PROVE  ExecutedFrom(f)'
    <3>1. CASE i \in DOMAIN rows
      <4>1. ExecutedFrom(f)
        BY <1>3, <2>1, <3>1 DEF TransferInv, MovesTell
      <4> QED
        BY <4>1, ExecutedFroms
    <3>2. CASE i \notin DOMAIN rows
      BY <1>3, <2>1, <3>2, ExecutedFroms
    <3> QED
      BY <3>1, <3>2
  <2>2. ASSUME NEW i \in DOMAIN rows'
        PROVE  /\ rows'[i].why = "payment" => rows'[i].amount > 0
               /\ rows'[i].why = "refund" => rows'[i].amount = -1
    BY <1>3 DEF TransferInv, MovesTell
  <2>3. \A i \in DOMAIN rows' : rows'[i].why = "move" /\ rows'[i].amount < 0 => ExecutedFrom(rows[i].enrolment)'
    <3>1. ASSUME NEW i \in DOMAIN rows', rows'[i].why = "move", rows'[i].amount < 0
          PROVE  ExecutedFrom(rows[i].enrolment)'
      <4>1. PICK f : f = rows'[i].enrolment
        OBVIOUS
      <4>2. ExecutedFrom(f)'
        BY <2>1, <3>1, <4>1
      <4> QED
        BY <4>1, <4>2 DEF ExecutedFrom
    <3> QED
      BY <3>1
  <2> QED
    BY <2>2, <2>3 DEF MovesTell
<1> QED
  BY <1>5, <1>6, <1>7

(***************************************************************************)
(* Money moved, neither made nor lost.                                     *)
(***************************************************************************)
LEMMA ExecuteMoney ==
    ASSUME TransferInv, MoneyTyped', NEW p, NEW t, NEW e, NEW c, NEW old, NEW new,
           Performs(p, t, e, c, old, new), MovedOnce' => MovedOnce /\ "execute" \notin p.overtaken
    PROVE  MoneyStays'
<1>1. /\ e \in DOMAIN seats /\ DOMAIN seats' = DOMAIN seats \cup {new} /\ receipts' = receipts
      /\ "execute" \notin p.overtaken => ~ExecutedFrom(e)
  BY DEF Performs
<1>2. /\ rows' \in Seq(Allocation)
      /\ DOMAIN rows \subseteq DOMAIN rows' /\ \A i \in DOMAIN rows : rows'[i] = rows[i]
      /\ \A i \in DOMAIN rows' : i \notin DOMAIN rows => rows'[i].why = "move"
      /\ (\A i \in RowsOf(e) : rows[i].amount > 0) =>
            \A r : SumIn(AmountOf, rows', OfReceipt(r)) = SumIn(AmountOf, rows, OfReceipt(r))
  BY DEF Performs, Moved
<1>3. ExecutedFrom(e)' /\ \A f : ExecutedFrom(f) => ExecutedFrom(f)'
  BY ExecutedFroms
<1>4. \A f : Refunded(f) => Refunded(f)'
  BY <1>2 DEF Refunded
<1>5. CASE ~MovedOnce'
  BY <1>5 DEF MovedOnce, MoneyStays
<1>6. CASE \E f \in DOMAIN seats : ExecutedFrom(f) /\ Refunded(f)
  <2>1. PICK f \in DOMAIN seats : ExecutedFrom(f)' /\ Refunded(f)'
    BY <1>3, <1>4, <1>6
  <2> QED
    BY <1>1, <2>1 DEF MoneyStays
<1>7. CASE Refunded(e)
  <2>1. Refunded(e)'
    BY <1>4, <1>7
  <2> QED
    BY <1>1, <1>3, <2>1 DEF MoneyStays
<1>8. CASE /\ MovedOnce' /\ ~Refunded(e)
           /\ ~ \E f \in DOMAIN seats : ExecutedFrom(f) /\ Refunded(f)
  <2>1. \A r \in DOMAIN receipts : Allocated({i \in DOMAIN rows : rows[i].receipt = r})
                                       = receipts[r] - Cardinality(RefundedOf(r))
    BY <1>8 DEF TransferInv, MoneyStays, MovedOnce
  <2>2. ~ExecutedFrom(e)
    BY <1>1, <1>8
  <2>3. ASSUME NEW i \in RowsOf(e) PROVE rows[i].amount > 0
    <3>1. i \in DOMAIN rows /\ rows[i].enrolment = e
      BY DEF RowsOf
    <3>2. rows[i].why \in {"payment", "refund", "move"} /\ rows[i].amount \in Int /\ rows[i].amount # 0
      BY <3>1, RowsThere DEF TransferInv, MoveTables
    <3>3. rows[i].why # "refund"
      BY <1>8, <3>1 DEF Refunded
    <3>4. /\ rows[i].why = "payment" => rows[i].amount > 0
          /\ rows[i].why = "move" => ~(rows[i].amount < 0)
      BY <2>2, <3>1 DEF TransferInv, MovesTell
    <3> QED
      BY <3>2, <3>3, <3>4
  <2>4. ASSUME NEW r \in DOMAIN receipts'
        PROVE  Allocated({i \in DOMAIN rows : rows[i].receipt = r})' = receipts'[r] - Cardinality(RefundedOf(r)')
    <3>1. Allocated({i \in DOMAIN rows : rows[i].receipt = r})' = SumIn(AmountOf, rows', OfReceipt(r))
      BY SumsAreLater, Zenon
    <3>2. Allocated({i \in DOMAIN rows : rows[i].receipt = r}) = SumIn(AmountOf, rows, OfReceipt(r))
      <4>1. MoneyTyped
        BY DEF TransferInv, MoveTables
      <4> QED
        BY <4>1, SumsAre, Zenon
    <3>3. RefundedOf(r)' = RefundedOf(r)
      BY <1>2 DEF RefundedOf
    <3>4. SumIn(AmountOf, rows', OfReceipt(r)) = SumIn(AmountOf, rows, OfReceipt(r))
      BY <1>2, <2>3
    <3>5. Allocated({i \in DOMAIN rows : rows[i].receipt = r}) = receipts[r] - Cardinality(RefundedOf(r))
      BY <1>1, <2>1
    <3> QED
      BY <1>1, <3>1, <3>2, <3>3, <3>4, <3>5, Zenon
  <2> QED
    BY <2>4 DEF MoneyStays
<1> QED
  BY <1>5, <1>6, <1>7, <1>8

LEMMA ExecuteEmptied ==
    ASSUME TransferInv, MoneyTyped', NEW p, NEW t, NEW e, NEW c, NEW old, NEW new,
           Performs(p, t, e, c, old, new), MovedAlone' => MovedAlone /\ "execute" \notin p.overtaken,
           MovedAlone' => \A x \in Desks : Spared(form[x])'
    PROVE  Emptied'
<1>1. /\ new \notin DOMAIN seats
      /\ SumIn(AmountOf, rows', OfSeat(e)) = 0
      /\ \A f : f \notin {e, new} => SumIn(AmountOf, rows', OfSeat(f)) = SumIn(AmountOf, rows, OfSeat(f))
  BY DEF Performs, Moved
<1>2. MoneyTyped
  BY DEF TransferInv, MoveTables
<1>3. ASSUME MovedAlone', NEW f \in DOMAIN seats', ExecutedFrom(f)'
      PROVE  Collected(f)' = 0 /\ LinesOf(f)' = {}
  <2>1. Collected(f)' = SumIn(AmountOf, rows', OfSeat(f)) /\ Collected(f) = SumIn(AmountOf, rows, OfSeat(f))
    BY <1>2, SumsAre, SumsAreLater
  <2>2. CASE f = e
    <3>1. Collected(f)' = 0
      BY <1>1, <2>1, <2>2
    <3>2. LinesOf(e)' = {}
      BY <1>3, ExecuteLines
    <3> QED
      BY <2>2, <3>1, <3>2
  <2>3. CASE f # e
    <3>1. ExecutedFrom(f) /\ f \in DOMAIN seats /\ f # new
      BY <1>1, <1>3, <2>3, ExecutedFroms
    <3>2. Collected(f) = 0 /\ LinesOf(f) = {}
      BY <1>3, <3>1 DEF TransferInv, Emptied
    <3>3. LinesOf(f)' = LinesOf(f)
      BY <2>3, <3>1, ExecuteLines
    <3> QED
      BY <1>1, <2>1, <2>3, <3>1, <3>2, <3>3
  <2> QED
    BY <2>2, <2>3
<1> QED
  BY <1>3 DEF Emptied

LEMMA ExecuteSeated ==
    ASSUME TransferInv, NEW d \in Desks, NEW p, p = form[d],
           NEW t, NEW e, NEW c, NEW old, NEW new, Performs(p, t, e, c, old, new),
           MovedOnce' => MovedOnce /\ "execute" \notin p.overtaken,
           \A x \in Desks : Executing(x)' => /\ Executing(x)
                                             /\ ~(p.op = "execute" /\ SeatOf(p) = SeatOf(form[x]))
    PROVE  Seated'
<1>1. /\ p.op = "execute" /\ SeatOf(p) = e
      /\ DOMAIN seats' = DOMAIN seats \cup {new}
      /\ seats'[e].status = "TRANSFERRED_OUT"
      /\ \A f \in DOMAIN seats : f # e => seats'[f] = seats[f]
  BY DEF Performs
<1> SUFFICES ASSUME MovedOnce' PROVE Seated'
  BY DEF Seated
<1>2. Executing(d) /\ MovedOnce
  BY <1>1 DEF Executing, Handling
<1>3. /\ \A f \in LiveSeats : f = e
      /\ \A x \in Desks : Executing(x) => SeatOf(form[x]) = e
  BY <1>1, <1>2 DEF TransferInv, Seated
<1>4. \A f \in LiveSeats' : f = new
  BY <1>1, <1>3 DEF LiveSeats
<1>5. \A x \in Desks : ~Executing(x)'
  BY <1>1, <1>3
<1> QED
  BY <1>4, <1>5 DEF Seated

LEMMA ExecutePriced ==
    ASSUME TransferInv, NEW p, NEW t, NEW e, NEW c, NEW old, NEW new, Performs(p, t, e, c, old, new),
           MovedOnce' => MovedOnce /\ "execute" \notin p.overtaken
    PROVE  Priced'
<1>1. /\ t \in DOMAIN transfers /\ transfers[t].from = e /\ e \in DOMAIN seats
      /\ old \subseteq DOMAIN lines /\ \A l \in old : lines[l].enrolment = e
      /\ "execute" \notin p.overtaken => ~ExecutedFrom(e) /\ old = LinesOf(e)
      /\ new \notin DOMAIN seats /\ new \in Nat \ {0}
      /\ DOMAIN transfers' = DOMAIN transfers
      /\ \A u \in DOMAIN transfers : transfers'[u].from = transfers[u].from
      /\ \A u \in DOMAIN transfers : u # t => transfers'[u] = transfers[u]
      /\ transfers'[t].to = new /\ transfers'[t].cohort = c
      /\ old = {1, 2} /\ FirstLines => TuitionOf(new)' = Price[c]
      /\ \A l \in DOMAIN lines : lines'[l].voided <=> lines[l].voided \/ l \in old
  BY DEF Performs, Carried
<1>2. FirstLines /\ PricedAtFirst /\ (ExecutedFrom(1) \/ (~lines[1].voided /\ ~lines[2].voided))
  BY DEF TransferInv, Priced
<1>3. FirstLines'
  BY ExecuteLines
<1>4. ExecutedFrom(1)' \/ (~lines'[1].voided /\ ~lines'[2].voided)
  <2>1. CASE e = 1 \/ ExecutedFrom(1)
    BY <2>1, ExecutedFroms
  <2>2. CASE e # 1 /\ ~ExecutedFrom(1)
    <3>1. 1 \in DOMAIN lines /\ 2 \in DOMAIN lines /\ 1 \notin old /\ 2 \notin old
      BY <1>1, <1>2, <2>2 DEF FirstLines
    <3> QED
      BY <1>1, <1>2, <2>2, <3>1
  <2> QED
    BY <2>1, <2>2
<1>5. ASSUME MovedOnce', NEW u \in DOMAIN transfers', transfers'[u].from = 1, transfers'[u].to # 0,
             NEW g, g = transfers'[u].to, NEW k, k = transfers'[u].cohort
      PROVE  LinesOf(g)' = {} \/ TuitionOf(g)' = Price[k]
  <2>1. ~ExecutedFrom(e) /\ old = LinesOf(e) /\ LinesOf(e)' = {} /\ MovedOnce
    BY <1>1, <1>5, ExecuteLines
  <2>2. CASE u = t
    <3>1. e = 1 /\ g = new /\ k = c
      BY <1>1, <1>5, <2>2
    <3>2. LinesOf(1) = {1, 2}
      BY <1>2, <2>1, <3>1 DEF LinesOf, FirstLines
    <3> QED
      BY <1>1, <1>2, <2>1, <3>1, <3>2
  <2>3. CASE u # t
    <3>1. /\ u \in DOMAIN transfers /\ transfers[u].from = 1
          /\ transfers[u].to = g /\ g # 0 /\ transfers[u].cohort = k
      BY <1>1, <1>5, <2>3
    <3>2. g \in DOMAIN seats /\ g # new
      BY <1>1, <3>1, TransfersThere
    <3>3. LinesOf(g) = {} \/ TuitionOf(g) = Price[k]
      BY <1>2, <2>1, <3>1 DEF PricedAtFirst, MovedOnce
    <3>4. CASE g = e
      BY <2>1, <3>4
    <3>5. CASE g # e
      <4>1. LinesOf(g)' = LinesOf(g) /\ TuitionOf(g)' = TuitionOf(g)
        BY <3>2, <3>5, ExecuteLines
      <4> QED
        BY <3>3, <4>1
    <3> QED
      BY <3>4, <3>5
  <2> QED
    BY <2>2, <2>3
<1>6. PricedAtFirst'
  <2>1. ASSUME MovedOnce', NEW u \in DOMAIN transfers', transfers'[u].from = 1, transfers'[u].to # 0
        PROVE  (LinesOf(transfers[u].to) = {} \/ TuitionOf(transfers[u].to) = Price[transfers[u].cohort])'
    <3>1. PICK g, k : g = transfers'[u].to /\ k = transfers'[u].cohort
      OBVIOUS
    <3>2. LinesOf(g)' = {} \/ TuitionOf(g)' = Price[k]
      BY <1>5, <2>1, <3>1
    <3> QED
      BY <3>1, <3>2
  <2> QED
    BY <2>1 DEF PricedAtFirst, MovedOnce
<1> QED
  BY <1>3, <1>4, <1>6 DEF Priced

LEMMA ExecuteKept ==
    ASSUME TransferInv, NEW d \in Desks, WriteExecute(d)
    PROVE  TransferInv'
<1>1. PICK p, t, e, c, old, new :
          /\ p = form[d] /\ t = p.on /\ e = transfers[t].from /\ c = transfers[t].cohort
          /\ old = p.lines /\ new = Len(seats) + 1
  OBVIOUS
<1>2. /\ Performs(p, t, e, c, old, new)
      /\ PlacesTyped' /\ OwedTyped' /\ transfers' \in Seq(TransferRow)
  BY <1>1, ExecuteIs
<1>3. /\ EndForm(d) /\ p.op = "execute" /\ p.op \in TransferOps /\ p.op \in Decisions
      /\ approved' = approved /\ claims' = claims
  BY <1>1 DEF WriteExecute, Handling, TransferOps, Decisions
<1>4. /\ LinesTyped' /\ FirstLines'
      /\ \A f : f \notin {e, new} => LinesOf(f)' = LinesOf(f)
  BY <1>2, ExecuteLines
<1>5. MoneyTyped' /\ TransfersTyped' /\ MovesTell'
  BY <1>2, ExecuteTables
<1>6. Writes(p)
  <2>1. /\ p.on = t /\ SeatOf(p) = e /\ t \in DOMAIN transfers /\ e \in DOMAIN seats
        /\ new \notin DOMAIN seats /\ DOMAIN seats' = DOMAIN seats \cup {new}
        /\ DOMAIN transfers' = DOMAIN transfers
        /\ \A u \in DOMAIN transfers : transfers'[u].from = transfers[u].from
        /\ \A u \in DOMAIN transfers : u # t => transfers'[u] = transfers[u]
        /\ transfers'[t].status = "EXECUTED"
        /\ DOMAIN lines \subseteq DOMAIN lines'
        /\ \A l \in DOMAIN lines : lines'[l].enrolment = lines[l].enrolment
    BY <1>2 DEF Performs, Carried
  <2>2. \A f \in DOMAIN seats : f # e => LinesOf(f)' = LinesOf(f) /\ (ExecutedFrom(f)' <=> ExecutedFrom(f))
    BY <1>2, <1>4, <2>1, ExecutedFroms
  <2> QED
    BY <1>3, <2>1, <2>2 DEF Writes
<1>7. /\ FormsSound'
      /\ MovedAlone' => \A x \in Desks : Spared(form[x])'
      /\ AliveOnce' => \A x \in Desks : Fresh(form[x])'
      /\ \A x \in Desks : Executing(x)' => /\ Executing(x)
                                           /\ ~(p.op = "execute" /\ SeatOf(p) = SeatOf(form[x]))
  BY <1>1, <1>3, <1>6, CommitForms
<1>8. /\ outdated' \in SUBSET (TransferOps \X TransferOps)
      /\ MovedAlone' => MovedAlone /\ "execute" \notin p.overtaken
      /\ MovedOnce' => MovedOnce /\ "execute" \notin p.overtaken
      /\ AliveOnce' => AliveOnce /\ ~Revives(p)
  BY <1>1, <1>3, Outdating
<1>9. MoveTables'
  BY <1>2, <1>3, <1>4, <1>5 DEF TransferInv, MoveTables
<1>10. MoneyStays'
  BY <1>2, <1>5, <1>8, ExecuteMoney
<1>11. Emptied'
  BY <1>2, <1>5, <1>7, <1>8, ExecuteEmptied
<1>12. Seated'
  BY <1>1, <1>2, <1>7, <1>8, ExecuteSeated
<1>13. Priced'
  BY <1>2, <1>8, ExecutePriced
<1>14. Alive'
  <2>1. FormSound(p)
    BY <1>1, FormIs
  <2>2. ASSUME AliveOnce' PROVE \A u \in DOMAIN transfers : Dead(u) => Dead(u)'
    BY <1>6, <1>8, <2>1, <2>2, DeadStays
  <2>3. /\ DOMAIN transfers' = DOMAIN transfers
        /\ \A u \in DOMAIN transfers : transfers'[u].from = transfers[u].from
    BY <1>2 DEF Performs
  <2>4. ASSUME AliveOnce', NEW u \in DOMAIN transfers', NEW v \in DOMAIN transfers',
               transfers'[u].from = transfers'[v].from, u # v
        PROVE  Dead(u)' \/ Dead(v)'
    <3>1. u \in DOMAIN transfers /\ v \in DOMAIN transfers /\ transfers[u].from = transfers[v].from
      BY <2>3, <2>4
    <3>2. Dead(u) \/ Dead(v)
      BY <1>8, <2>4, <3>1 DEF TransferInv, Alive
    <3> QED
      BY <2>2, <2>4, <3>1, <3>2
  <2> QED
    BY <1>7, <2>4 DEF Alive
<1> QED
  BY <1>5, <1>7, <1>8, <1>9, <1>10, <1>11, <1>12, <1>13, <1>14 DEF TransferInv

-----------------------------------------------------------------------------
(* The invariant. *)

LEMMA TransferBegins == TransferInit => TransferInv
<1> SUFFICES ASSUME TransferInit PROVE TransferInv
  OBVIOUS
<1>1. PICK c \in Cohorts :
          /\ approved = Cohorts
          /\ seats = <<[cohort |-> c, status |-> "LIVE", documented |-> TRUE]>>
          /\ lines = <<[enrolment |-> 1, type |-> "TUITION", gross |-> Price[c], voided |-> FALSE],
                       [enrolment |-> 1, type |-> "REGISTRATION", gross |-> Registration,
                        voided |-> FALSE]>>
          /\ receipts = <<>> /\ rows = <<>>
          /\ claims = [e \in 1 .. MaxSeats |-> 0]
          /\ owed = <<>> /\ transfers = <<>>
          /\ form = [d \in Desks |-> Blank] /\ outdated = {}
  BY DEF TransferInit
<1>2. /\ DOMAIN receipts = {} /\ DOMAIN rows = {} /\ DOMAIN owed = {} /\ DOMAIN transfers = {}
      /\ receipts \in Seq(Nat \ {0}) /\ rows \in Seq(Allocation)
      /\ owed \in Seq(Obligation) /\ transfers \in Seq(TransferRow)
  BY <1>1
<1>3. /\ seats \in Seq(SeatRow) /\ DOMAIN seats = {1} /\ Len(seats) = 1
  <2>1. PICK row : row = [cohort |-> c, status |-> "LIVE", documented |-> TRUE]
    OBVIOUS
  <2>2. row \in SeatRow
    BY <2>1 DEF SeatRow
  <2>3. seats = <<row>>
    BY <1>1, <2>1
  <2> QED
    BY <2>2, <2>3
<1>4. PlacesTyped
  <2>1. MaxSeats \in Nat /\ MaxSeats # 0
    BY TransferAssumption
  <2> QED
    BY <1>3, <2>1 DEF PlacesTyped
<1>5. /\ lines \in Seq(ChargeLine) /\ DOMAIN lines = {1, 2}
      /\ lines[1].enrolment = 1 /\ lines[1].type = "TUITION" /\ ~lines[1].voided
      /\ lines[2].enrolment = 1 /\ lines[2].type = "REGISTRATION" /\ ~lines[2].voided
  <2>1. PICK a, b : /\ a = [enrolment |-> 1, type |-> "TUITION", gross |-> Price[c], voided |-> FALSE]
                    /\ b = [enrolment |-> 1, type |-> "REGISTRATION", gross |-> Registration,
                            voided |-> FALSE]
    OBVIOUS
  <2>2. Price[c] \in Nat /\ Registration \in Nat
    BY TransferAssumption
  <2>3. {"TUITION", "REGISTRATION"} \subseteq Range(AllocationOrder)
    BY DEF Range, AllocationOrder
  <2>4. /\ a \in ChargeLine /\ a.enrolment = 1 /\ a.type = "TUITION" /\ ~a.voided
        /\ b \in ChargeLine /\ b.enrolment = 1 /\ b.type = "REGISTRATION" /\ ~b.voided
    BY <2>1, <2>2, <2>3 DEF ChargeLine
  <2>5. lines = <<a, b>>
    BY <1>1, <2>1
  <2>6. lines \in Seq(ChargeLine) /\ DOMAIN lines = {1, 2} /\ lines[1] = a /\ lines[2] = b
    BY <2>4, <2>5
  <2> QED
    BY <2>4, <2>6
<1>6. MoveTables
  <2>1. LinesTyped
    BY <1>3, <1>5 DEF LinesTyped
  <2>2. MoneyTyped /\ TransfersTyped /\ OwedTyped
    BY <1>2 DEF MoneyTyped, TransfersTyped, OwedTyped
  <2>3. claims \in [1 .. MaxSeats -> Nat]
    BY <1>1
  <2> QED
    BY <1>1, <1>4, <2>1, <2>2, <2>3 DEF MoveTables
<1>7. \A e : ~ExecutedFrom(e)
  BY <1>2 DEF ExecutedFrom
<1>8. \A d \in Desks : FormSound(form[d]) /\ Spared(form[d]) /\ Fresh(form[d]) /\ form[d].op = "none"
  BY <1>1, BlankSound, BlankIs
<1>9. FormsSound
  BY <1>1, <1>8 DEF FormsSound
<1>10. MovesTell /\ MoneyStays
  BY <1>2 DEF MovesTell, MoneyStays
<1>11. Emptied
  BY <1>7, <1>8 DEF Emptied
<1>12. Seated
  <2>1. \A d \in Desks : ~Executing(d)
    BY <1>8 DEF Executing, Handling
  <2>2. \A e, f \in LiveSeats : e = f
    BY <1>3 DEF LiveSeats
  <2> QED
    BY <2>1, <2>2 DEF Seated
<1>13. Priced
  <2>1. FirstLines
    BY <1>5 DEF FirstLines
  <2>2. PricedAtFirst
    BY <1>2 DEF PricedAtFirst
  <2> QED
    BY <1>5, <2>1, <2>2 DEF Priced
<1>14. Alive
  BY <1>2, <1>8 DEF Alive
<1> QED
  BY <1>1, <1>6, <1>9, <1>10, <1>11, <1>12, <1>13, <1>14 DEF TransferInv

LEMMA TransferStands == TransferInv /\ UNCHANGED transferVars => TransferInv'
<1> SUFFICES ASSUME TransferInv, UNCHANGED transferVars PROVE TransferInv'
  OBVIOUS
<1>1. /\ form' = form /\ outdated' = outdated /\ transfers' = transfers /\ owed' = owed
      /\ lines' = lines /\ receipts' = receipts /\ rows' = rows
      /\ seats' = seats /\ approved' = approved /\ claims' = claims
  BY DEF transferVars, money, partner
<1>2. PlacesTyped' /\ approved' \in SUBSET Cohorts /\ claims' \in [1 .. MaxSeats -> Nat]
  BY <1>1 DEF TransferInv, MoveTables, PlacesTyped
<1> QED
  BY <1>1, <1>2, AsideKept

LEMMA TransferKept == TransferInv /\ [TransferNext]_transferVars => TransferInv'
<1> SUFFICES ASSUME TransferInv, [TransferNext]_transferVars PROVE TransferInv'
  OBVIOUS
<1>1. ASSUME NEW d \in Desks, PaymentNewView(d) PROVE TransferInv'
  BY <1>1, PaymentRead, PaymentStarted, PaymentKept DEF PaymentNewView
<1>2. ASSUME NEW d \in Desks, LeaveAction(d) PROVE TransferInv'
  BY <1>2, LeaveRead, LeaveKept DEF LeaveAction
<1>3. ASSUME NEW d \in Desks, TransferNewView(d) PROVE TransferInv'
  BY <1>3, RequestRead, RequestKept DEF TransferNewView
<1>4. ASSUME NEW d \in Desks, TransferDetailView(d) PROVE TransferInv'
  <2>1. ASSUME NEW t \in DOMAIN transfers, ReadRecommend(d, t) \/ ReadRejection(d, t) \/ ReadExecute(d, t)
        PROVE  TransferInv'
    BY <2>1, RecommendRead, RejectionRead, ExecuteRead
  <2>2. ASSUME WriteRecommend(d) \/ WriteRejection(d) PROVE TransferInv'
    BY <2>2, StatusKept DEF WriteRecommend, WriteRejection
  <2> QED
    BY <1>4, <2>1, <2>2, ExecuteStarted, ExecuteKept DEF TransferDetailView
<1>5. ASSUME NEW d \in Desks, DropForm(d) PROVE TransferInv'
  BY <1>5, Abandoned
<1>6. ASSUME NEW e \in DOMAIN seats, Refund(e) \/ RecordAttendance(e) \/ ApproveClaim(e)
      PROVE  TransferInv'
  BY <1>6, RefundKept, AttendanceKept, ClaimKept
<1>7. ASSUME NEW c \in Cohorts, RejectCohort(c) PROVE TransferInv'
  BY <1>7, RejectionKept
<1>8. CASE UNCHANGED transferVars
  BY <1>8, TransferStands
<1> QED
  BY <1>1, <1>2, <1>3, <1>4, <1>5, <1>6, <1>7, <1>8 DEF TransferNext

(***************************************************************************)
(* The invariant of the move holds in every state.                         *)
(***************************************************************************)
THEOREM MovesSound == TransferSpec => []TransferInv
  BY TransferBegins, TransferKept, PTL DEF TransferSpec

(***************************************************************************)
(* Every table, form and history has rows of its type, and an executed     *)
(* transfer names the enrolment it opened.                                 *)
(***************************************************************************)
THEOREM TransferTyped == TransferSpec => []TransferTypeOK
<1>1. TransferInv => TransferTypeOK
  <2> SUFFICES ASSUME TransferInv PROVE TransferTypeOK
    OBVIOUS
  <2>1. \A d \in Desks : IsForm(form[d])
    BY FormIs
  <2>2. /\ seats \in Seq(SeatRow) /\ lines \in Seq(ChargeLine) /\ receipts \in Seq(Nat \ {0})
        /\ rows \in Seq(Allocation) /\ owed \in Seq(Obligation) /\ transfers \in Seq(TransferRow)
        /\ approved \in SUBSET Cohorts /\ claims \in [1 .. MaxSeats -> Nat]
        /\ \A t \in DOMAIN transfers : transfers[t].status = "EXECUTED" => transfers[t].to # 0
    BY DEF TransferInv, MoveTables, PlacesTyped, LinesTyped, MoneyTyped, TransfersTyped, OwedTyped
  <2> QED
    BY <2>1, <2>2 DEF TransferInv, TransferTypeOK
<1> QED
  BY <1>1, MovesSound, PTL

-----------------------------------------------------------------------------
(* A transfer moves whole and once. *)

LEMMA OneAtMost ==
    ASSUME NEW S, \A x, y \in S : x = y
    PROVE  Cardinality(S) <= 1
<1>1. CASE S = {}
  BY <1>1, FS_EmptySet
<1>2. CASE S # {}
  <2>1. PICK x \in S : S = {x}
    BY <1>2
  <2> QED
    BY <2>1, FS_Singleton
<1> QED
  BY <1>1, <1>2

LEMMA RecoversOnce == TransferInv => RecoveredOnce
<1> SUFFICES ASSUME TransferInv, AliveOnce, NEW e \in DOMAIN seats
             PROVE  Cardinality({o \in DOMAIN owed : owed[o].enrolment = e /\ owed[o].transfer # 0}) <= 1
  BY DEF RecoveredOnce, AliveOnce
<1>1. PICK S : S = {o \in DOMAIN owed : owed[o].enrolment = e /\ owed[o].transfer # 0}
  OBVIOUS
<1>2. ASSUME NEW o \in S, NEW p \in S PROVE o = p
  <2>1. PICK t, u : t = owed[o].transfer /\ u = owed[p].transfer
    OBVIOUS
  <2>2. /\ o \in DOMAIN owed /\ p \in DOMAIN owed /\ t # 0 /\ u # 0
        /\ owed[o].enrolment = e /\ owed[p].enrolment = e
    BY <1>1, <2>1
  <2>3. /\ t \in DOMAIN transfers /\ transfers[t].from = e /\ transfers[t].to # 0
        /\ u \in DOMAIN transfers /\ transfers[u].from = e /\ transfers[u].to # 0
        /\ t = u => o = p
    BY <2>1, <2>2 DEF TransferInv, MoveTables, OwedTyped
  <2>4. t = u \/ Dead(t) \/ Dead(u)
    BY <2>3 DEF TransferInv, Alive
  <2> QED
    BY <2>3, <2>4 DEF Dead
<1> QED
  BY <1>1, <1>2, OneAtMost

LEMMA WholeIs == TransferInv => MovedWhole
<1> SUFFICES ASSUME TransferInv PROVE MovedWhole
  OBVIOUS
<1>1. SourceEmptied
  BY DEF TransferInv, Emptied, MovedAlone, SourceEmptied
<1>2. OneSeat
  <2>1. ASSUME MovedOnce PROVE Cardinality(LiveSeats) <= 1
    BY <2>1, OneAtMost DEF TransferInv, Seated
  <2> QED
    BY <2>1 DEF MovedOnce, OneSeat, LiveSeats
<1>3. RecoveredOnce
  BY RecoversOnce
<1> QED
  BY <1>1, <1>2, <1>3 DEF TransferInv, Priced, MovedWhole

(***************************************************************************)
(* A transfer moves a person with what was paid and what is owed, whole    *)
(* and once (_execute): the money, the seat, the partner's share, and a    *)
(* first move at the price of the new course.                              *)
(***************************************************************************)
THEOREM MovesWhole == TransferSpec => []MovedWhole
  BY WholeIs, MovesSound, PTL

-----------------------------------------------------------------------------
(* What was decided stays decided. *)

Settled == \A t \in DOMAIN transfers : Decided(t) => transfers'[t] = transfers[t]

LEMMA Unread ==
    ASSUME NEW d \in Desks, EndForm(d), NEW p, p = form[d], p.op \in Decisions,
           outdated' \cap (Decisions \X Decisions) = {}
    PROVE  Undecided(p)
<1>1. outdated' = outdated \cup ({p.op} \X p.overtaken)
  BY DEF EndForm
<1>2. ASSUME NEW x \in p.overtaken, x \in Decisions PROVE FALSE
  <2>1. <<p.op, x>> \in outdated' /\ <<p.op, x>> \in Decisions \X Decisions
    BY <1>1, <1>2
  <2> QED
    BY <2>1
<1> QED
  BY <1>2 DEF Undecided

LEMMA StatusSettled ==
    ASSUME TransferInv, NEW d \in Desks, SaveStatus(d, "recommend", "PENDING_FINANCE")
                                             \/ SaveStatus(d, "reject", "REJECTED"),
           outdated' \cap (Decisions \X Decisions) = {}
    PROVE  Settled
<1>1. PICK p, n : p = form[d] /\ n = p.on
  OBVIOUS
<1>2. PICK status : /\ \/ p.op = "recommend" /\ status = "PENDING_FINANCE"
                       \/ p.op = "reject" /\ status = "REJECTED"
                    /\ transfers' = [transfers EXCEPT ![n].status = status]
                    /\ EndForm(d)
  BY <1>1 DEF SaveStatus, Handling
<1>3. p.op \in Decisions /\ FormFits(p) /\ FormSees(p)
  BY <1>1, <1>2, FormIs DEF Decisions
<1>4. Undecided(p) /\ n \in DOMAIN transfers
  BY <1>1, <1>2, <1>3, Unread DEF FormFits
<1>5. Decided(n) => transfers[n].status = status
  BY <1>1, <1>2, <1>3, <1>4 DEF FormSees, Decided
<1>6. PICK row : row = transfers[n]
  OBVIOUS
<1>7. row \in TransferRow
  BY <1>4, <1>6, TransfersThere
<1>8. row.status = status => [row EXCEPT !.status = status] = row
  BY <1>7 DEF TransferRow
<1>9. \A t \in DOMAIN transfers :
          transfers'[t] = IF t = n THEN [row EXCEPT !.status = status] ELSE transfers[t]
  BY <1>2, <1>6
<1> QED
  BY <1>5, <1>6, <1>8, <1>9 DEF Settled

LEMMA ExecuteSettled ==
    ASSUME TransferInv, NEW d \in Desks, WriteExecute(d), outdated' \cap (Decisions \X Decisions) = {}
    PROVE  Settled
<1>1. PICK p, n : p = form[d] /\ n = p.on
  OBVIOUS
<1>2. p.op = "execute" /\ p.op \in Decisions /\ EndForm(d)
  BY <1>1 DEF WriteExecute, Handling, Decisions
<1>3. Undecided(p) /\ FormSees(p)
  BY <1>1, <1>2, Unread, FormIs
<1>4. ~Decided(n)
  BY <1>1, <1>2, <1>3 DEF FormSees, Decided
<1>5. \A t \in DOMAIN transfers : t # n => transfers'[t] = transfers[t]
  BY <1>1 DEF WriteExecute
<1> QED
  BY <1>4, <1>5 DEF Settled

LEMMA RequestSettled ==
    ASSUME TransferInv, NEW d \in Desks, WriteRequest(d)
    PROVE  Settled
<1>1. PICK row : row = [from |-> form[d].on, cohort |-> form[d].cohort, to |-> 0,
                        waived |-> form[d].waived, status |-> "PENDING_MANAGER"]
  OBVIOUS
<1>2. transfers' = Append(transfers, row)
  BY <1>1 DEF WriteRequest
<1>3. transfers \in Seq(TransferRow)
  BY DEF TransferInv, MoveTables, TransfersTyped
<1>4. \A t \in DOMAIN transfers : transfers'[t] = transfers[t]
  BY <1>2, <1>3
<1> QED
  BY <1>4 DEF Settled

LEMMA StepSettles ==
    ASSUME TransferInv, [TransferNext]_transferVars, outdated' \cap (Decisions \X Decisions) = {}
    PROVE  Settled
<1>1. CASE transfers' = transfers
  BY <1>1 DEF Settled
<1>2. ASSUME NEW d \in Desks, PaymentNewView(d) PROVE transfers' = transfers
  BY <1>2 DEF PaymentNewView, ReadPayment, StartPayment, WritePayment, BeginForm
<1>3. ASSUME NEW d \in Desks, LeaveAction(d) PROVE transfers' = transfers
  BY <1>3 DEF LeaveAction, ReadLeave, WriteLeave, BeginForm
<1>4. ASSUME NEW d \in Desks, TransferNewView(d) PROVE Settled
  <2>1. ASSUME NEW e \in DOMAIN seats, NEW c \in Cohorts, NEW waived \in BOOLEAN,
               ReadRequest(d, e, c, waived)
        PROVE  transfers' = transfers
    BY <2>1 DEF ReadRequest, BeginForm
  <2> QED
    BY <1>1, <1>4, <2>1, RequestSettled DEF TransferNewView
<1>5. ASSUME NEW d \in Desks, TransferDetailView(d) PROVE Settled
  <2>1. ASSUME NEW t \in DOMAIN transfers, ReadRecommend(d, t) \/ ReadRejection(d, t) \/ ReadExecute(d, t)
        PROVE  transfers' = transfers
    BY <2>1 DEF ReadRecommend, ReadRejection, ReadExecute, ReadDecision, BeginForm
  <2>2. ASSUME WriteRecommend(d) \/ WriteRejection(d) PROVE Settled
    BY <2>2, StatusSettled DEF WriteRecommend, WriteRejection
  <2>3. ASSUME StartExecute(d) PROVE transfers' = transfers
    BY <2>3 DEF StartExecute
  <2> QED
    BY <1>1, <1>5, <2>1, <2>2, <2>3, ExecuteSettled DEF TransferDetailView
<1>6. ASSUME NEW d \in Desks, DropForm(d) PROVE transfers' = transfers
  BY <1>6 DEF DropForm
<1>7. ASSUME NEW e \in DOMAIN seats, Refund(e) \/ RecordAttendance(e) \/ ApproveClaim(e)
      PROVE  transfers' = transfers
  BY <1>7 DEF Refund, RecordAttendance, ApproveClaim
<1>8. ASSUME NEW c \in Cohorts, RejectCohort(c) PROVE transfers' = transfers
  BY <1>8 DEF RejectCohort
<1>9. CASE UNCHANGED transferVars
  BY <1>1, <1>9 DEF transferVars
<1> QED
  BY <1>1, <1>2, <1>3, <1>4, <1>5, <1>6, <1>7, <1>8, <1>9 DEF TransferNext

(***************************************************************************)
(* An executed transfer stays so with its new enrolment, and a rejected    *)
(* one is never executed, unless two requests decided on it at once.       *)
(***************************************************************************)
THEOREM DecisionsStand == TransferSpec => DecisionStands
<1>1. TransferInv /\ [TransferNext]_transferVars =>
          [outdated' \cap (Decisions \X Decisions) = {} =>
               \A t \in DOMAIN transfers : Decided(t) => transfers'[t] = transfers[t]]_<<transfers, outdated>>
  BY StepSettles DEF Settled
<1> QED
  BY <1>1, MovesSound, PTL DEF TransferSpec, DecisionStands
=============================================================================
