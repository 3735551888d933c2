------------------------------ MODULE Offerings ------------------------------
(***************************************************************************)
(* Programmes, the agreements with partners, and the cohorts opened on     *)
(* them (catalog_service, partner_service and cohort_service).             *)
(*                                                                         *)
(* A programme is retired, an agreement activated and a cohort opened,     *)
(* edited or started after guards that judge instances loaded before the   *)
(* transaction: a Read... step of a session followed by its Write... step. *)
(* What only judges the form it was posted with is a single step, and so   *)
(* is what writes the same whatever was read.                              *)
(*                                                                         *)
(* Of an agreement its partner, its window and its status are kept: the    *)
(* terms are never written again (Settlements takes the share as given).   *)
(* Of a cohort what ties it to a programme and an agreement; its life with *)
(* the ministry is Cohort's.  Its dates, subjects, prices, codes and names *)
(* are left out, and supersede_agreement, which no view calls.             *)
(***************************************************************************)
EXTENDS Integers, FiniteSets, SequencesExt

CONSTANTS
    Programs,
    Partners,
    LastDay,          \* bound on today and on dates
    Sessions,         \* web requests in flight at one time
    MaxAgreements, MaxCohorts,   \* bounds on rows,
    MaxRows,          \* and on both together
    MaxDoubled        \* bound: so many agreements in doubled, and requests no longer overlap

ASSUME ConstantsAssumption ==
    /\ Programs # {}
    /\ LastDay \in Nat \ {0}
    /\ {MaxAgreements, MaxCohorts, MaxRows, MaxDoubled} \subseteq Nat

VARIABLES
    today,
    active,           \* catalog_program: those that are active
    agreements,       \* partners_agreement
    cohorts,          \* operations_cohort
    req,              \* what each session has read and is about to write
    strays,           \* history: the cohorts that have their present status from a decision of
                      \* the ministry, or through a request that another had overtaken
    doubled           \* history: the agreements activated by a request that another activation,
                      \* of one of the same two agreements, had overtaken

vars == <<today, active, agreements, cohorts, req, strays, doubled>>

Days == 1 .. LastDay

(***************************************************************************)
(* supersedes 0 is NULL.  Nothing writes EXPIRED: whether an agreement has *)
(* lapsed is computed.                                                     *)
(***************************************************************************)
Agreement == [partner : Partners, from : Days, to : Days,
              status : {"DRAFT", "ACTIVE", "TERMINATED"}, supersedes : Nat]

(***************************************************************************)
(* LIVE: planned, with the ministry or running.                            *)
(***************************************************************************)
CohortStatuses == {"LIVE", "REJECTED", "OVER"}

Cohort == [program : Programs, agreement : Nat, status : CohortStatuses]

ProgramOps == {"update", "toggle", "approve"}

CohortOps == {"edit", "start"}

Ops == ProgramOps \cup CohortOps \cup {"open", "activate", "idle"}

(***************************************************************************)
(* A request in flight: the programme and whether it will be active, the   *)
(* agreement and the day its window was judged on, the cohort and the      *)
(* status it will save.  overtaken: what it was judged by has been written *)
(* since.                                                                  *)
(***************************************************************************)
Request == [op : Ops, program : Programs, active : BOOLEAN, agreement : Nat, cohort : Nat,
            status : CohortStatuses, day : Days, overtaken : BOOLEAN]

Idle == [op |-> "idle", program |-> CHOOSE p \in Programs : TRUE, active |-> TRUE,
         agreement |-> 0, cohort |-> 0, status |-> "LIVE", day |-> 1, overtaken |-> FALSE]

TypeOK ==
    /\ today \in Days
    /\ active \subseteq Programs
    /\ agreements \in Seq(Agreement)
    /\ \A a \in DOMAIN agreements : agreements[a].from < agreements[a].to
    /\ \A a \in DOMAIN agreements : agreements[a].supersedes < a
    /\ cohorts \in Seq(Cohort)
    /\ \A c \in DOMAIN cohorts : cohorts[c].agreement \in DOMAIN agreements \cup {0}
    /\ req \in [Sessions -> Request]
    /\ strays \subseteq DOMAIN cohorts
    /\ doubled \subseteq DOMAIN agreements

-----------------------------------------------------------------------------
(* What the guards and the forms ask. *)

Covers(a, day) == agreements[a].from <= day /\ day <= agreements[a].to

(***************************************************************************)
(* is_available_on: made live by someone, and within its window.           *)
(***************************************************************************)
IsAvailableOn(a, day) == agreements[a].status = "ACTIVE" /\ Covers(a, day)

(***************************************************************************)
(* agreement_choices: what the forms offer, on the day they are drawn.     *)
(***************************************************************************)
AgreementChoices == {a \in DOMAIN agreements : IsAvailableOn(a, today)}

Live(p) == \E c \in DOMAIN cohorts : cohorts[c].program = p /\ cohorts[c].status = "LIVE"

SupersedableByAnyone(previous, a) == agreements[previous].partner = agreements[a].partner

(***************************************************************************)
(* _refuse_unless_supersedable                                             *)
(***************************************************************************)
Supersedable(previous, a) ==
    /\ agreements[previous].partner = agreements[a].partner
    /\ agreements[previous].status = "ACTIVE"

-----------------------------------------------------------------------------
(* Requests. *)

Free(s) == req[s] = Idle

Serving(s, op) == req[s].op = op

(***************************************************************************)
(* The agreements an activation judges, and writes.                        *)
(***************************************************************************)
Contracts(q) == {q.agreement, agreements[q.agreement].supersedes} \ {0}

(***************************************************************************)
(* The commit of a writes what b was judged by: one of two agreements, a   *)
(* programme or the cohorts on it, the status of a cohort.                 *)
(***************************************************************************)
Outdates(a, b) ==
    \/ {a.op, b.op} = {"activate"} /\ Contracts(a) \cap Contracts(b) # {}
    \/ /\ a.program = b.program
       /\ \/ a.op \in ProgramOps /\ b.op \in ProgramOps \cup {"open"}
          \/ a.op = "open" /\ b.op \in ProgramOps
    \/ {a.op, b.op} \subseteq CohortOps /\ a.cohort = b.cohort

(***************************************************************************)
(* Requests overlap that read what the other writes, or write a cohort     *)
(* while its programme is being written.                                   *)
(***************************************************************************)
MayOverlap(a, b) ==
    /\ Cardinality(doubled) < MaxDoubled
    /\ \/ "activate" \in {a.op, b.op} /\ {a.op, b.op} \subseteq {"activate", "open"}
       \/ "activate" \notin {a.op, b.op} /\ a.program = b.program

Begin(s, new) ==
    /\ Free(s)
    /\ \A t \in Sessions : Free(t) \/ MayOverlap(new, req[t])
    /\ req' = [req EXCEPT ![s] = new]
    /\ UNCHANGED <<today, active, agreements, cohorts, strays, doubled>>

Finish(s) ==
    req' = [t \in Sessions |->
               IF t = s THEN Idle
               ELSE [req[t] EXCEPT !.overtaken = @ \/ Outdates(req[s], req[t])]]

(***************************************************************************)
(* A refusal, a failed constraint, a lost connection.                      *)
(***************************************************************************)
Rollback(s) ==
    /\ ~Free(s)
    /\ req' = [req EXCEPT ![s] = Idle]
    /\ UNCHANGED <<today, active, agreements, cohorts, strays, doubled>>

Room(n, bound) == n < bound /\ Len(agreements) + Len(cohorts) < MaxRows

OnProgram(op, p, becomes) == [Idle EXCEPT !.op = op, !.program = p, !.active = becomes]

-----------------------------------------------------------------------------
(* Programmes. *)

(***************************************************************************)
(* The form has no field for active: it is saved as it was loaded.         *)
(***************************************************************************)
ReadUpdateProgram(s, p) == Begin(s, OnProgram("update", p, p \in active))

(***************************************************************************)
(* "Retiring one with live cohorts is refused"; a rejected one is not      *)
(* live.                                                                   *)
(***************************************************************************)
Retirable(p) == ~Live(p)

ReadToggle(s, p) ==
    /\ p \in active => Retirable(p)
    /\ Begin(s, OnProgram("toggle", p, p \notin active))

(***************************************************************************)
(* approve_program, its subjects adding up to the fee in force.            *)
(***************************************************************************)
ReadApproveProgram(s, p) == Begin(s, OnProgram("approve", p, TRUE))

WriteProgram(s) ==
    /\ req[s].op \in {"update", "toggle", "approve"}
    /\ active' = IF req[s].active THEN active \cup {req[s].program} ELSE active \ {req[s].program}
    /\ strays' = strays \cup {c \in DOMAIN cohorts :
                                 req[s].overtaken /\ cohorts[c].program = req[s].program}
    /\ Finish(s)
    /\ UNCHANGED <<today, agreements, cohorts, doubled>>

HandleProgramAction(s) ==
    \/ \E p \in Programs : ReadUpdateProgram(s, p) \/ ReadToggle(s, p) \/ ReadApproveProgram(s, p)
    \/ WriteProgram(s)

-----------------------------------------------------------------------------
(* Agreements. *)

CheckTermsLoosely(from, to) == from <= to

CheckAgreementTerms(from, to) == from < to

(***************************************************************************)
(* A draft, of any window; it may name what it supersedes, among the       *)
(* agreements in force today, of any partner.                              *)
(***************************************************************************)
CreateAgreement(partner, from, to, supersedes) ==
    /\ Room(Len(agreements), MaxAgreements)
    /\ CheckAgreementTerms(from, to)
    /\ agreements' = Append(agreements, [partner |-> partner, from |-> from, to |-> to,
                                         status |-> "DRAFT", supersedes |-> supersedes])
    /\ UNCHANGED <<today, active, cohorts, req, strays, doubled>>

AgreementNewView ==
    \E partner \in Partners, from, to \in Days, a \in AgreementChoices \cup {0} :
        CreateAgreement(partner, from, to, a)

ActivatableUnlessEnded(a) == agreements[a].status = "DRAFT"

(***************************************************************************)
(* A lapsed draft is refused, one whose window has yet to open is not.     *)
(***************************************************************************)
Activatable(a) == agreements[a].status = "DRAFT" /\ agreements[a].to >= today

ReadActivate(s, a) ==
    /\ Activatable(a)
    /\ agreements[a].supersedes # 0 => Supersedable(agreements[a].supersedes, a)
    /\ Begin(s, [Idle EXCEPT !.op = "activate", !.agreement = a, !.day = today])

WithStatus(a, status) == [agreements[a] EXCEPT !.status = status]

(***************************************************************************)
(* The draft goes live and what it names ends (_write_supersession), in    *)
(* one transaction.                                                        *)
(***************************************************************************)
ActivateAgreement(s) ==
    LET a == req[s].agreement
        previous == agreements[a].supersedes
    IN  /\ Serving(s, "activate")
        /\ agreements' = [b \in DOMAIN agreements |->
                             CASE b = a -> WithStatus(b, "ACTIVE")
                               [] b = previous -> WithStatus(b, "TERMINATED")
                               [] OTHER -> agreements[b]]
        /\ doubled' = doubled \cup {b \in {a} : req[s].overtaken}
        /\ Finish(s)
        /\ UNCHANGED <<today, active, cohorts, strays>>

AgreementActivateView(s) ==
    \/ \E a \in DOMAIN agreements : ReadActivate(s, a)
    \/ ActivateAgreement(s)

-----------------------------------------------------------------------------
(* Cohorts. *)

(***************************************************************************)
(* The form offers active programmes and agreements in force; open_cohort  *)
(* asks again of the agreement, on the day the cohort starts.              *)
(***************************************************************************)
ReadOpenCohort(s, p, a, starts) ==
    /\ p \in active
    /\ a \in AgreementChoices \cup {0}
    /\ a # 0 => IsAvailableOn(a, starts)
    /\ Room(Len(cohorts), MaxCohorts)
    /\ Begin(s, [OnProgram("open", p, TRUE) EXCEPT !.agreement = a])

OpenCohort(s) ==
    /\ Serving(s, "open")
    /\ Room(Len(cohorts), MaxCohorts)
    /\ cohorts' = Append(cohorts, [program |-> req[s].program, agreement |-> req[s].agreement,
                                   status |-> "LIVE"])
    /\ strays' = strays \cup {c \in {Len(cohorts) + 1} : req[s].overtaken}
    /\ Finish(s)
    /\ UNCHANGED <<today, active, agreements, doubled>>

OnCohort(op, c) ==
    [Idle EXCEPT !.op = op, !.cohort = c,
                 !.program = cohorts[c].program, !.status = cohorts[c].status]

(***************************************************************************)
(* update_cohort takes any agreement the form offers, or none, and any     *)
(* start, and does not ask of the two together.  An agreement that has     *)
(* lapsed is not offered, so an edit of anything else drops it.            *)
(***************************************************************************)
ReadUpdateCohort(s, c, a) ==
    /\ cohorts[c].status # "OVER"
    /\ a \in AgreementChoices \cup {0}
    /\ Begin(s, [OnCohort("edit", c) EXCEPT !.agreement = a])

(***************************************************************************)
(* A planned cohort, with the ministry's approval.                         *)
(***************************************************************************)
ReadStartCohort(s, c) ==
    /\ cohorts[c].status = "LIVE"
    /\ Begin(s, OnCohort("start", c))

(***************************************************************************)
(* cohort.save() of an edit writes every column, the status as it was      *)
(* loaded too; starting writes the status alone.                           *)
(***************************************************************************)
SavedCohort(row, q) ==
    [program |-> row.program, status |-> q.status,
     agreement |-> IF q.op = "edit" THEN q.agreement ELSE row.agreement]

WriteCohort(s) ==
    LET c == req[s].cohort
    IN  /\ req[s].op \in CohortOps
        /\ cohorts' = [cohorts EXCEPT ![c] = SavedCohort(cohorts[c], req[s])]
        /\ strays' = strays \cup {d \in {c} : req[s].overtaken}
        /\ Finish(s)
        /\ UNCHANGED <<today, active, agreements, doubled>>

(***************************************************************************)
(* Another status under the requests that have loaded c.                   *)
(***************************************************************************)
SetStatus(c, status) ==
    /\ cohorts' = [cohorts EXCEPT ![c].status = status]
    /\ req' = [s \in Sessions |->
                   [req[s] EXCEPT !.overtaken = @ \/ (req[s].op \in CohortOps /\ req[s].cohort = c)]]
    /\ UNCHANGED <<today, active, agreements, doubled>>

(***************************************************************************)
(* The ministry's decision, taken whatever the cohort is by then           *)
(* (Cohort!WriteDecision).                                                 *)
(***************************************************************************)
RecordDecision(c, status) ==
    /\ SetStatus(c, status)
    /\ strays' = strays \cup {d \in {c} : cohorts[c].status # "LIVE"}

(***************************************************************************)
(* complete_cohort, cancel_for_low_enrollment                              *)
(***************************************************************************)
EndCohort(c) ==
    /\ cohorts[c].status # "OVER"
    /\ SetStatus(c, "OVER")
    /\ strays' = strays \ {c}

CohortsView(s) ==
    \/ \E p \in Programs, a \in DOMAIN agreements \cup {0}, starts \in Days :
           ReadOpenCohort(s, p, a, starts)
    \/ OpenCohort(s)
    \/ \E c \in DOMAIN cohorts :
          \/ \E a \in AgreementChoices \cup {0} : ReadUpdateCohort(s, c, a)
          \/ ReadStartCohort(s, c)
    \/ WriteCohort(s)

(***************************************************************************)
(* A request judged before midnight may commit after it.                   *)
(***************************************************************************)
NextDay ==
    /\ today < LastDay
    /\ today' = today + 1
    /\ UNCHANGED <<active, agreements, cohorts, req, strays, doubled>>

-----------------------------------------------------------------------------
Init ==
    /\ today = 1
    /\ active = Programs
    /\ agreements = <<>>
    /\ cohorts = <<>>
    /\ req = [s \in Sessions |-> Idle]
    /\ strays = {}
    /\ doubled = {}

Next ==
    \/ NextDay
    \/ AgreementNewView
    \/ \E c \in DOMAIN cohorts :
          \/ \E status \in {"LIVE", "REJECTED"} : RecordDecision(c, status)
          \/ EndCohort(c)
    \/ \E s \in Sessions :
          HandleProgramAction(s) \/ AgreementActivateView(s) \/ CohortsView(s) \/ Rollback(s)

Spec == Init /\ [][Next]_vars

-----------------------------------------------------------------------------
(* Properties. *)

(***************************************************************************)
(* No cohort runs on a retired programme, which "nobody can find", except  *)
(* a stray: one that a decision of the ministry gave back its status, or   *)
(* whose status, or programme, was saved by a request judged before        *)
(* another had written the same.                                           *)
(***************************************************************************)
RetiredIsIdle ==
    \A c \in DOMAIN cohorts :
        \/ cohorts[c].status # "LIVE"
        \/ cohorts[c].program \in active
        \/ c \in strays

(***************************************************************************)
(* An agreement and the one it replaces are never both in force, and one   *)
(* alone takes its place, unless one of these was itself activated by a    *)
(* request that another had overtaken: of two drafts that name it, or a    *)
(* second one of it that commits after it has ended.                       *)
(***************************************************************************)
OneHeir ==
    \A a \in DOMAIN agreements :
        LET previous == agreements[a].supersedes
            heirs == {b \in DOMAIN agreements :
                         agreements[b].supersedes = previous /\ agreements[b].status # "DRAFT"}
        IN  agreements[a].status # "DRAFT" /\ previous # 0
            => \/ agreements[previous].status = "TERMINATED" /\ heirs = {a}
               \/ (heirs \cup {previous}) \cap doubled # {}

Partnered(day) == {agreements[a].partner : a \in {b \in DOMAIN agreements : IsAvailableOn(b, day)}}

(***************************************************************************)
(* A partner that is under an agreement today stays under one, except by   *)
(* the activation of an appendix whose own window opens later: ending it   *)
(* sooner "would leave the partner under no agreement at all in between".  *)
(* The activation of one that was judged before midnight is excepted too.  *)
(***************************************************************************)
StaysPartnered ==
    [][\/ Partnered(today) \subseteq Partnered(today)'
       \/ \E s \in Sessions :
             /\ Serving(s, "activate") /\ req'[s] = Idle
             /\ agreements[req[s].agreement].from > today \/ req[s].day # today]_agreements

(***************************************************************************)
(* What is offered stands on something: no cohort runs on a retired        *)
(* programme and one agreement alone replaces another (set_program_active, *)
(* activate_agreement).                                                    *)
(***************************************************************************)
OffersStand == RetiredIsIdle /\ OneHeir
=============================================================================
