------------------------------- MODULE Cohort -------------------------------
(***************************************************************************)
(* Cohorts, their files with the ministry, and the seats taken on them     *)
(* (cohort_service, mohe_service, enrollment_service and                   *)
(* special_case_service of apps/operations/services).                      *)
(*                                                                         *)
(* The view loads a row, the service judges that instance before any       *)
(* transaction, and the instance is then saved, often with every column    *)
(* it was loaded with.  Such a request is a Read... and a Write... step of *)
(* a session; opening an enrolment has further steps, one transaction for  *)
(* each charge line.  Operations whose guards cannot go stale against      *)
(* another of this module are single steps.                                *)
(*                                                                         *)
(* Codes, names, prices and who may ask are left out, and capacities too:  *)
(* an edit may not lower one below the seats taken, and nothing else reads *)
(* them.  The dates of sending and of the ministry's decision are typed by *)
(* hand and may be any dates in order, so a deadline may be any day.       *)
(***************************************************************************)
EXTENDS Integers, FiniteSets, SequencesExt

CONSTANTS
    Participants,
    LastDay,          \* bound on today
    Deadlines,        \* what the ministry sets
    Sessions,         \* web requests in flight at one time
    MaxCohorts, MaxFiles, MaxEnrolments,     \* bounds on rows,
    MaxRows,          \* and on all three together, not counting what a deferral adds
    MaxRewritten      \* bound on the cohorts that are rewritten before requests overlap no more

ASSUME ConstantsAssumption ==
    /\ Participants # {}
    /\ LastDay # 0
    /\ {LastDay, MaxCohorts, MaxFiles, MaxEnrolments, MaxRows, MaxRewritten} \subseteq Nat
    /\ Deadlines \subseteq 1 .. LastDay

VARIABLES
    today,
    cohorts,          \* operations_cohort: the statuses
    files,            \* operations_mohesubmission
    enrolments,       \* operations_enrollment
    req,              \* what each session has read and is about to write
    rewritten,        \* history: the cohorts whose status was saved over a newer one
    redecided         \* history: the files sent or decided over a newer sending or decision

vars == <<today, cohorts, files, enrolments, req, rewritten, redecided>>

Days == 1 .. LastDay

CohortStatuses == {"PLANNED", "PENDING_MOHE", "MOHE_REJECTED", "RUNNING", "COMPLETED",
                   "CANCELLED_LOW_ENROLLMENT"}

History == {"COMPLETED", "CANCELLED_LOW_ENROLLMENT"}

FileStatuses == {"DRAFT", "SUBMITTED", "APPROVED", "REJECTED"}

(***************************************************************************)
(* documents: both required attachments are there.  deadline 0 is NULL.    *)
(***************************************************************************)
File == [cohort : Nat \ {0}, status : FileStatuses, documents : BOOLEAN, deadline : Deadlines \cup {0}]

Statuses == {"PENDING_FINANCE", "PENDING_APPROVAL", "ACTIVE", "WITHDRAWN", "DEFERRED", "CANCELLED"}

Final == {"WITHDRAWN", "CANCELLED"}

Lines == {"REGISTRATION", "TUITION"}

(***************************************************************************)
(* lines: the charge lines that are not voided.  uploaded: the day the     *)
(* name was given to the ministry, 0 for never.  override: the audit has   *)
(* it that a manager let it go after the deadline, for a written reason.   *)
(* opened: how the seat was first taken, which a substitute takes over.    *)
(***************************************************************************)
Enrollment == [participant : Participants, cohort : Nat \ {0}, status : Statuses,
               approved : BOOLEAN, uploaded : Days \cup {0}, override : BOOLEAN,
               lines : SUBSET Lines, opened : {"enrolment", "deferral"}]

FileOps == {"send", "approve", "reject"}

StatusOps == {"edit", "start", "complete", "cancel"} \cup FileOps

Ops == StatusOps \cup {"draft", "enrol", "upload"}

(***************************************************************************)
(* A request in flight: the row it is about, the cohort as it was loaded,  *)
(* the participant, deadline or day it brings, and whether another has     *)
(* written since the status it has loaded, and the file.                   *)
(***************************************************************************)
Request == [op : Ops \cup {"idle"}, on : Nat, cohort : Nat, status : CohortStatuses,
            participant : Participants, value : Nat, saved : Nat,
            override : BOOLEAN, overtaken : BOOLEAN, crossed : BOOLEAN]

Idle == [op |-> "idle", on |-> 0, cohort |-> 0, status |-> "PLANNED",
         participant |-> CHOOSE p \in Participants : TRUE, value |-> 0, saved |-> 0,
         override |-> FALSE, overtaken |-> FALSE, crossed |-> FALSE]

TypeOK ==
    /\ today \in Days
    /\ cohorts \in Seq(CohortStatuses)
    /\ files \in Seq(File)
    /\ \A f \in DOMAIN files : files[f].deadline # 0 <=> files[f].status = "APPROVED"
    /\ enrolments \in Seq(Enrollment)
    /\ \A e \in DOMAIN enrolments : enrolments[e].uploaded # 0 => enrolments[e].approved
    /\ req \in [Sessions -> Request]
    /\ rewritten \subseteq DOMAIN cohorts /\ redecided \subseteq DOMAIN files

-----------------------------------------------------------------------------
(* What the screens and the guards read. *)

FilesOf(c) == {f \in DOMAIN files : files[f].cohort = c}

ApprovedFiles(c) == {f \in FilesOf(c) : files[f].status = "APPROVED"}

CohortIsApproved(c) == ApprovedFiles(c) # {}

(***************************************************************************)
(* submittable_cohort_choices: no file of it is open or approved.          *)
(***************************************************************************)
Submittable(c) == \A f \in FilesOf(c) : files[f].status = "REJECTED"

LatestFile(c) == IF FilesOf(c) = {} THEN "none" ELSE files[Max(FilesOf(c))].status

(***************************************************************************)
(* The stage the register shows a cohort in, and offers actions by.        *)
(***************************************************************************)
Stage(c) ==
    LET status == cohorts[c]
    IN  CASE status \in {"RUNNING", "MOHE_REJECTED"} \cup History -> status
          [] OTHER -> IF CohortIsApproved(c) THEN "ENROLLABLE"
                      ELSE IF status = "PENDING_MOHE" \/ LatestFile(c) = "SUBMITTED" THEN "AT_MOHE"
                      ELSE "NEEDS_FILE"

Enrolled(p, c) ==
    \E e \in DOMAIN enrolments : enrolments[e].participant = p /\ enrolments[e].cohort = c

-----------------------------------------------------------------------------
(* Requests. *)

Free(s) == req[s] = Idle

Serving(s, op) == req[s].op = op

(***************************************************************************)
(* The commit of a changes the status that b has loaded, or the file.      *)
(***************************************************************************)
Outdates(a, b) == a.cohort = b.cohort /\ {a.op, b.op} \subseteq StatusOps

Crosses(a, b) == a.on = b.on /\ {a.op, b.op} \subseteq FileOps

(***************************************************************************)
(* Of requests about one cohort only those overlap that read what the      *)
(* other writes: the status, the approval a seat needs, the choices a      *)
(* draft was offered.                                                      *)
(***************************************************************************)
MayOverlap(a, b) ==
    /\ Cardinality(rewritten) < MaxRewritten
    /\ a.cohort = b.cohort
    /\ \/ Outdates(a, b)
       \/ \E x, y \in {a, b} : x.op \in FileOps /\ y.op \in {"enrol", "upload"}
       \/ {a.op, b.op} = {"draft"}

Begin(s, new) ==
    /\ Free(s)
    /\ \A t \in Sessions : Free(t) \/ MayOverlap(new, req[t])
    /\ req' = [req EXCEPT ![s] = new]
    /\ UNCHANGED <<today, cohorts, files, enrolments, rewritten, redecided>>

(***************************************************************************)
(* The requests in flight after one of s has committed a transaction and   *)
(* s goes on as next.                                                      *)
(***************************************************************************)
Committed(s, next) ==
    /\ req' = [t \in Sessions |->
                  IF t = s THEN next
                  ELSE [req[t] EXCEPT !.overtaken = @ \/ Outdates(req[s], req[t]),
                                      !.crossed = @ \/ Crosses(req[s], req[t])]]
    /\ rewritten' = rewritten \cup {c \in {req[s].cohort} : req[s].overtaken}
    /\ redecided' = redecided \cup {f \in {req[s].on} : req[s].crossed}

Finish(s) == Committed(s, Idle)

(***************************************************************************)
(* A refusal, a failed constraint, a lost connection: the transaction      *)
(* under way is undone, those before it are not.                           *)
(***************************************************************************)
Rollback(s) ==
    /\ ~Free(s)
    /\ req' = [req EXCEPT ![s] = Idle]
    /\ UNCHANGED <<today, cohorts, files, enrolments, rewritten, redecided>>

Room(n, bound) == n < bound /\ Len(cohorts) + Len(files) + Len(enrolments) < MaxRows

About(op, c) == [Idle EXCEPT !.op = op, !.cohort = c]

Loaded(new) == [new EXCEPT !.status = cohorts[new.cohort]]

OnFile(op, f) == [About(op, files[f].cohort) EXCEPT !.on = f]

Quiet == UNCHANGED <<req, rewritten, redecided>>

-----------------------------------------------------------------------------
(* The cohort. *)

OpenCohort ==
    /\ Room(Len(cohorts), MaxCohorts)
    /\ cohorts' = Append(cohorts, "PLANNED")
    /\ Quiet
    /\ UNCHANGED <<today, files, enrolments>>

ReadEdit(s, c) == cohorts[c] \notin History /\ Begin(s, Loaded(About("edit", c)))

(***************************************************************************)
(* cohort.save() writes every column, the status as it was loaded too.     *)
(***************************************************************************)
WriteEdit(s) ==
    /\ Serving(s, "edit")
    /\ cohorts' = [cohorts EXCEPT ![req[s].cohort] = req[s].status]
    /\ Finish(s)
    /\ UNCHANGED <<today, files, enrolments>>

Startable(c) == cohorts[c] = "PLANNED" /\ CohortIsApproved(c)

ReadStart(s, c) == Startable(c) /\ Begin(s, About("start", c))

ReadComplete(s, c) == cohorts[c] = "RUNNING" /\ Begin(s, About("complete", c))

CancellableUnlessCancelled(c) == cohorts[c] # "CANCELLED_LOW_ENROLLMENT"

Cancellable(c) == cohorts[c] \notin History

ReadCancel(s, c) == Cancellable(c) /\ Begin(s, About("cancel", c))

Outcome == [start |-> "RUNNING", complete |-> "COMPLETED", cancel |-> "CANCELLED_LOW_ENROLLMENT"]

WriteStatus(s) ==
    /\ req[s].op \in DOMAIN Outcome
    /\ cohorts' = [cohorts EXCEPT ![req[s].cohort] = Outcome[req[s].op]]
    /\ Finish(s)
    /\ UNCHANGED <<today, files, enrolments>>

HandleCohortAction(s) ==
    \/ OpenCohort
    \/ \E c \in DOMAIN cohorts :
          \/ ReadEdit(s, c)
          \/ ReadStart(s, c)
          \/ ReadComplete(s, c)
          \/ ReadCancel(s, c)
    \/ WriteEdit(s)
    \/ WriteStatus(s)

-----------------------------------------------------------------------------
(* Its files with the ministry. *)

AppendFile(c) ==
    /\ Room(Len(files), MaxFiles)
    /\ files' = Append(files, [cohort |-> c, status |-> "DRAFT", documents |-> FALSE, deadline |-> 0])

(***************************************************************************)
(* The form offers the submittable cohorts; create_submission itself asks  *)
(* nothing.                                                                *)
(***************************************************************************)
ReadDraft(s, c) == Submittable(c) /\ Begin(s, About("draft", c))

WriteDraft(s) ==
    /\ Serving(s, "draft")
    /\ AppendFile(req[s].cohort)
    /\ Finish(s)
    /\ UNCHANGED <<today, cohorts, enrolments>>

(***************************************************************************)
(* A rejected file may be answered more than once, and beside another.     *)
(***************************************************************************)
Resubmit(f) ==
    /\ files[f].status = "REJECTED"
    /\ AppendFile(files[f].cohort)
    /\ Quiet
    /\ UNCHANGED <<today, cohorts, enrolments>>

Attach(f) ==
    /\ files[f].status = "DRAFT" /\ ~files[f].documents
    /\ files' = [files EXCEPT ![f].documents = TRUE]
    /\ Quiet
    /\ UNCHANGED <<today, cohorts, enrolments>>

ReadSend(s, f) ==
    /\ files[f].status = "DRAFT"
    /\ files[f].documents
    /\ Begin(s, Loaded(OnFile("send", f)))

WriteSend(s) ==
    LET f == req[s].on  c == req[s].cohort
    IN  /\ Serving(s, "send")
        /\ files' = [files EXCEPT ![f].status = "SUBMITTED", ![f].deadline = 0]
        /\ cohorts' = IF req[s].status = "PLANNED"
                      THEN [cohorts EXCEPT ![c] = "PENDING_MOHE"] ELSE cohorts
        /\ Finish(s)
        /\ UNCHANGED <<today, enrolments>>

DecidableAgain(f) == files[f].status \in {"SUBMITTED", "APPROVED"}

Decidable(f) == files[f].status = "SUBMITTED"

ReadApprove(s, f, deadline) ==
    /\ Decidable(f)
    /\ Begin(s, [OnFile("approve", f) EXCEPT !.value = deadline])

ReadReject(s, f) == Decidable(f) /\ Begin(s, OnFile("reject", f))

AfterDecision == [approve |-> "PLANNED", reject |-> "MOHE_REJECTED"]

(***************************************************************************)
(* The file is saved with every column.  No two files of a cohort are      *)
(* approved (approved_key), and whatever the cohort was, it follows.       *)
(***************************************************************************)
WriteDecision(s) ==
    LET f == req[s].on  c == req[s].cohort
    IN  /\ req[s].op \in DOMAIN AfterDecision
        /\ req[s].op = "approve" => ApprovedFiles(c) \subseteq {f}
        /\ files' = [files EXCEPT
                        ![f].status = IF req[s].op = "approve" THEN "APPROVED" ELSE "REJECTED",
                        ![f].deadline = req[s].value]
        /\ cohorts' = [cohorts EXCEPT ![c] = AfterDecision[req[s].op]]
        /\ Finish(s)
        /\ UNCHANGED <<today, enrolments>>

SubmitForm(s) ==
    \/ \E c \in DOMAIN cohorts : ReadDraft(s, c)
    \/ WriteDraft(s)

RunMoheAction(s, f) ==
    \/ Attach(f)
    \/ Resubmit(f)
    \/ ReadSend(s, f)
    \/ ReadReject(s, f)
    \/ \E d \in Deadlines : ReadApprove(s, f, d)

MoheDetailView(s) ==
    \/ \E f \in DOMAIN files : RunMoheAction(s, f)
    \/ WriteSend(s)
    \/ WriteDecision(s)

-----------------------------------------------------------------------------
(* Seats. *)

ReadEnrol(s, p, c) ==
    /\ CohortIsApproved(c)
    /\ ~Enrolled(p, c)
    /\ Begin(s, [About("enrol", c) EXCEPT !.participant = p])

Seat(p, c, status, opened) ==
    [participant |-> p, cohort |-> c, status |-> status, approved |-> FALSE, uploaded |-> 0,
     override |-> FALSE, lines |-> {}, opened |-> opened]

(***************************************************************************)
(* One enrolment of a participant in a cohort (a unique constraint).       *)
(***************************************************************************)
WriteEnrol(s) ==
    /\ Serving(s, "enrol") /\ req[s].on = 0
    /\ Room(Len(enrolments), MaxEnrolments)
    /\ ~Enrolled(req[s].participant, req[s].cohort)
    /\ enrolments' = Append(enrolments,
                            Seat(req[s].participant, req[s].cohort, "PENDING_FINANCE", "enrolment"))
    /\ Committed(s, [req[s] EXCEPT !.on = Len(enrolments) + 1])
    /\ UNCHANGED <<today, cohorts, files>>

(***************************************************************************)
(* charge_lines_from_quote: the registration fee, then the tuition, each   *)
(* in a transaction of its own.                                            *)
(***************************************************************************)
RaiseRegistration(s) ==
    /\ Serving(s, "enrol") /\ req[s].on # 0 /\ req[s].saved = 0
    /\ enrolments' = [enrolments EXCEPT ![req[s].on].lines = @ \cup {"REGISTRATION"}]
    /\ req' = [req EXCEPT ![s].saved = 1]
    /\ UNCHANGED <<today, cohorts, files, rewritten, redecided>>

RaiseTuition(s) ==
    /\ Serving(s, "enrol") /\ req[s].saved = 1
    /\ enrolments' = [enrolments EXCEPT ![req[s].on].lines = @ \cup {"TUITION"}]
    /\ Finish(s)
    /\ UNCHANGED <<today, cohorts, files>>

(***************************************************************************)
(* The form and the dialog offer the cohorts the ministry approved of, and *)
(* refuse another one that is posted.                                      *)
(***************************************************************************)
EnrollmentNewView(s) ==
    \E p \in Participants, c \in {c \in DOMAIN cohorts : CohortIsApproved(c)} : ReadEnrol(s, p, c)

EnrollWithCharges(s) ==
    \/ WriteEnrol(s)
    \/ RaiseRegistration(s)
    \/ RaiseTuition(s)

Move(e, status) ==
    /\ enrolments' = [enrolments EXCEPT ![e].status = status]
    /\ Quiet
    /\ UNCHANGED <<today, cohorts, files>>

(***************************************************************************)
(* approve_enrollment, with the voucher there and what is owed paid        *)
(* (Enrolment has both).  A deferred enrolment is not final.               *)
(***************************************************************************)
ApproveEnrolment(e) ==
    /\ enrolments[e].status \notin Final \cup {"ACTIVE"}
    /\ enrolments' = [enrolments EXCEPT ![e].status = "ACTIVE", ![e].approved = TRUE]
    /\ Quiet
    /\ UNCHANGED <<today, cohorts, files>>

Withdraw(e) == enrolments[e].status = "ACTIVE" /\ Move(e, "WITHDRAWN")

CancelRegistration(e) ==
    /\ enrolments[e].status \in {"PENDING_FINANCE", "PENDING_APPROVAL"}
    /\ enrolments' = [enrolments EXCEPT ![e].status = "CANCELLED", ![e].lines = {}]
    /\ Quiet
    /\ UNCHANGED <<today, cohorts, files>>

(***************************************************************************)
(* The participant goes to another cohort: the old lines are voided, the   *)
(* money goes along, no gate is asked and no line is raised.               *)
(***************************************************************************)
Defer(e, c) ==
    LET p == enrolments[e].participant
    IN  /\ Len(enrolments) < MaxEnrolments
        /\ ~Enrolled(p, c)
        /\ enrolments[e].status \notin Final \cup {"DEFERRED"}
        /\ enrolments' = Append([enrolments EXCEPT ![e].status = "DEFERRED", ![e].lines = {}],
                                Seat(p, c, "PENDING_APPROVAL", "deferral"))
        /\ Quiet
        /\ UNCHANGED <<today, cohorts, files>>

Substitute(e, p) ==
    LET c == enrolments[e].cohort
    IN  /\ Room(Len(enrolments), MaxEnrolments)
        /\ enrolments[e].status = "WITHDRAWN"
        /\ ~Enrolled(p, c)
        /\ enrolments' = Append(enrolments, Seat(p, c, "PENDING_FINANCE", enrolments[e].opened))
        /\ Quiet
        /\ UNCHANGED <<today, cohorts, files>>

UploadableUnlessFinal(e) == enrolments[e].status \notin Final

(***************************************************************************)
(* Only the approval of the enrolment is asked for, not its status.        *)
(***************************************************************************)
Uploadable(e) == enrolments[e].approved

(***************************************************************************)
(* With no approved file there is no deadline.                             *)
(***************************************************************************)
InTime(c) == \A f \in ApprovedFiles(c) : today <= files[f].deadline

(***************************************************************************)
(* Past the deadline it takes a manager and a reason, which are put on     *)
(* record.                                                                 *)
(***************************************************************************)
NeedsOverride(c) == ~InTime(c)

ReadUpload(s, e) ==
    LET c == enrolments[e].cohort
    IN  /\ Uploadable(e)
        /\ Begin(s, [About("upload", c) EXCEPT !.on = e, !.value = today,
                                               !.override = NeedsOverride(c)])

WriteUpload(s) ==
    /\ Serving(s, "upload")
    /\ enrolments' = [enrolments EXCEPT ![req[s].on].uploaded = req[s].value,
                                        ![req[s].on].override = req[s].override]
    /\ Finish(s)
    /\ UNCHANGED <<today, cohorts, files>>

UploadName(s) ==
    \/ \E e \in DOMAIN enrolments : ReadUpload(s, e)
    \/ WriteUpload(s)

EnrolmentAction ==
    \E e \in DOMAIN enrolments :
        \/ ApproveEnrolment(e)
        \/ Withdraw(e)
        \/ CancelRegistration(e)
        \/ \E c \in DOMAIN cohorts : Defer(e, c)
        \/ \E p \in Participants : Substitute(e, p)

NextDay ==
    /\ today < LastDay
    /\ today' = today + 1
    /\ Quiet
    /\ UNCHANGED <<cohorts, files, enrolments>>

-----------------------------------------------------------------------------
Init ==
    /\ today = 1
    /\ cohorts = <<>>
    /\ files = <<>>
    /\ enrolments = <<>>
    /\ req = [s \in Sessions |-> Idle]
    /\ rewritten = {}
    /\ redecided = {}

Next ==
    \/ EnrolmentAction
    \/ NextDay
    \/ \E s \in Sessions :
          \/ HandleCohortAction(s)
          \/ SubmitForm(s)
          \/ MoheDetailView(s)
          \/ EnrollmentNewView(s)
          \/ EnrollWithCharges(s)
          \/ UploadName(s)
          \/ Rollback(s)

Spec == Init /\ [][Next]_vars

-----------------------------------------------------------------------------
(* Properties. *)

(***************************************************************************)
(* Nobody sits on a cohort without the ministry's approval but by a        *)
(* deferral, or in the place of someone deferred: no later step takes the  *)
(* approval away, except a second decision or sending of a file of that    *)
(* cohort that was judged before the first was committed.                  *)
(***************************************************************************)
EnrolledUnderApproval ==
    \A e \in DOMAIN enrolments :
        LET c == enrolments[e].cohort
        IN  \/ enrolments[e].opened = "deferral"
            \/ CohortIsApproved(c)
            \/ FilesOf(c) \cap redecided # {}

(***************************************************************************)
(* The stage the register shows is backed by a file in that state: what    *)
(* runs or ran is approved, what waits has a file with the ministry, what  *)
(* is rejected has a rejected one.  An edit, a start, a sending or a       *)
(* decision about that cohort saved over a newer one breaks it.            *)
(***************************************************************************)
StageHasItsFile ==
    \A c \in DOMAIN cohorts :
        LET has(status) == \E f \in FilesOf(c) : files[f].status = status
        IN  \/ c \in rewritten
            \/ /\ Stage(c) \in {"RUNNING", "COMPLETED"} => has("APPROVED")
               /\ cohorts[c] = "PENDING_MOHE" \/ Stage(c) = "AT_MOHE" => has("SUBMITTED")
               /\ Stage(c) = "MOHE_REJECTED" => has("REJECTED")

(***************************************************************************)
(* BR-019: no name reaches the ministry after the deadline of the approval *)
(* it is enrolled under, unless an override is on record or a file of that *)
(* cohort was decided or sent over a newer decision.                       *)
(***************************************************************************)
NamesInTime ==
    \A e \in DOMAIN enrolments :
        LET c == enrolments[e].cohort
            day == enrolments[e].uploaded
        IN  \/ day = 0 \/ enrolments[e].override \/ enrolments[e].opened = "deferral"
            \/ \E f \in ApprovedFiles(c) : day <= files[f].deadline
            \/ FilesOf(c) \cap redecided # {}

(***************************************************************************)
(* A cohort that was completed or cancelled keeps its status against every *)
(* step but the commit of a request about it that was judged before, or    *)
(* of a decision of the ministry: that does not ask what became of the     *)
(* cohort.                                                                 *)
(***************************************************************************)
FinishedStays ==
    [][\A c \in DOMAIN cohorts :
          \/ cohorts[c] \notin History
          \/ cohorts'[c] = cohorts[c]
          \/ \E s \in Sessions :
                /\ req[s].cohort = c /\ req'[s] = Idle
                /\ req[s].op \in {"approve", "reject"} \/ req[s].overtaken]_cohorts

(***************************************************************************)
(* What the ministry was told and what the register says agree (BR-013,    *)
(* BR-019, BR-070): seats and names stand on an approval, a stage on its   *)
(* file.                                                                   *)
(***************************************************************************)
AgreesWithMinistry == EnrolledUnderApproval /\ StageHasItsFile /\ NamesInTime
=============================================================================
