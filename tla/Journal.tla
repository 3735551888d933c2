------------------------------- MODULE Journal -------------------------------
(***************************************************************************)
(* What the whole system writes through: the gapless numbers               *)
(* (numbering_service), the audit chain (audit_service), and the semesters *)
(* the participant numbers are built from (semester_service).              *)
(*                                                                         *)
(* A transaction takes row locks one at a time and holds them until it     *)
(* ends: a counter row, then the row that serialises the audit chain; a    *)
(* semester act also the rows of the semesters.  A lock is granted in the  *)
(* order it was asked for, a deadlock ends one of the transactions in it,  *)
(* and a wait may time out.                                                *)
(*                                                                         *)
(* The counters of the certificates and of the opening balances of a year  *)
(* are created in the transaction that locks them; every other is          *)
(* committed before.                                                       *)
(*                                                                         *)
(* A number is kept with the semester it was minted under, an audit row as *)
(* the number of the row it is linked to (0 is the genesis hash).  The     *)
(* chain lock is held from the first audit row of a transaction to its     *)
(* end: its rows are one.  Participants, cases, years, names and hashes    *)
(* are left out.                                                           *)
(***************************************************************************)
EXTENDS Integers, FiniteSets, SequencesExt

CONSTANTS
    Sessions,         \* web requests in flight at one time
    Keys,             \* a year and the digit of a semester's type
    Centres,          \* a year and CENTER_TYPE_CODE
    CentreOf,         \* of a key: the centre's of the same year
    Books,            \* the other counters: cases, receipts...
    Inline,           \* ... and those created inline: certificates, opening balances
    Chain,            \* the row CHAIN_LOCK_SCOPE / CHAIN_LOCK_PARTITION
    MaxValue,         \* MAX_SEQUENCE_VALUE
    MaxAttempts,      \* MAX_CREATE_ATTEMPTS
    MaxEvents, MaxSemesters,  \* bounds on rows
    MaxUnused         \* bound on the counters prepared for a number that was not taken

Partitions == Keys \cup Centres \cup Books \cup Inline

Rows == 1 .. MaxSemesters

(***************************************************************************)
(* The rows that are locked are of three tables.                           *)
(***************************************************************************)
Locks == Partitions \cup {Chain} \cup Rows

ASSUME ConstantsAssumption ==
    /\ IsFiniteSet(Sessions)
    /\ {MaxEvents, MaxUnused} \subseteq Nat /\ {MaxSemesters, MaxValue, MaxAttempts} \subseteq Nat \ {0}
    /\ Keys # {} /\ CentreOf \in [Keys -> Centres]
    /\ Keys \cap Centres = {} /\ (Keys \cup Centres) \cap (Books \cup Inline) = {}
    /\ Rows \cap Partitions = {} /\ Chain \notin Rows \cup Partitions

VARIABLES
    counter,          \* core_numbersequence: next_value; 0 where there is no row yet
    issued,           \* the numbers that documents carry, in the order of commit
    chain,            \* core_auditevent, in the order of the rows
    semesters,        \* core_semester
    queue,            \* of a row: who asked for its lock, first the one that has it
    req               \* what each session has read and is about to write

data == <<counter, issued, chain, semesters>>

vars == <<data, queue, req>>

Semester == [key : Keys, active : BOOLEAN]

(***************************************************************************)
(* semester 0: a document that is not a participant.                       *)
(***************************************************************************)
Number == [number : Nat, semester : Nat]

NumberOps == {"register", "file", "issue"}

SemesterOps == {"create", "edit", "activate"}

Ops == NumberOps \cup SemesterOps \cup {"note", "idle"}

(***************************************************************************)
(* A request in flight.  partition: of its number, or the semester's year  *)
(* and type it will save.  current: the box of the form.  loaded: is_active*)
(* of the semester as it was read.  rows: the semesters its transaction    *)
(* found.  found: the row of a counter created inline, "shared" when it     *)
(* has a shared lock of it.  number 0, link -1: not taken yet.  overtaken: *)
(* what it was judged by has changed since.                                *)
(***************************************************************************)
Request == [op : Ops, semester : Nat, partition : Partitions, current : BOOLEAN,
            loaded : BOOLEAN, rows : Nat, found : {"unread", "missing", "shared", "there"},
            number : Nat, link : Int, attempt : Nat,
            overtaken : BOOLEAN]

Idle == [op |-> "idle", semester |-> 0, partition |-> CHOOSE p \in Partitions : TRUE,
         current |-> FALSE, loaded |-> FALSE, rows |-> 0, found |-> "there",
         number |-> 0, link |-> -1, attempt |-> 0, overtaken |-> FALSE]

TypeOK ==
    /\ counter \in [Partitions -> 0 .. MaxValue]
    /\ issued \in [Partitions -> Seq(Number)]
    /\ chain \in Seq(Nat)
    /\ semesters \in Seq(Semester)
    /\ \A m, n \in DOMAIN semesters : semesters[m].active /\ semesters[n].active => m = n
    /\ queue \in [Locks -> Seq(Sessions)]
    /\ \A l \in Locks : IsInjective(queue[l])
    /\ req \in [Sessions -> Request]

-----------------------------------------------------------------------------
(* Locks. *)

Free(s) == req[s] = Idle

Serving(s, op) == req[s].op = op

Found(s, row) == req[s].found = row

Sharers(l) == {s \in Sessions : Found(s, "shared") /\ req[s].partition = l}

First(s, l) == queue[l] # <<>> /\ Head(queue[l]) = s

(***************************************************************************)
(* The first has its lock, unless it has to be alone with it: only who     *)
(* found a counter missing asks to share it.                               *)
(***************************************************************************)
Holds(s, l) == First(s, l) /\ (Found(s, "missing") \/ Sharers(l) \subseteq {s})

Asked(s, l) == s \in ToSet(queue[l])

Waiting(s) == \E l \in Locks : Asked(s, l) /\ ~Holds(s, l)

(***************************************************************************)
(* A session is in a queue once.                                           *)
(***************************************************************************)
Without(q, s) ==
    IF s \in ToSet(q) THEN RemoveAt(q, CHOOSE i \in DOMAIN q : q[i] = s) ELSE q

Released(s) == [l \in Locks |-> Without(queue[l], s)]

Before(t, s, l) == \E i, j \in DOMAIN queue[l] : i < j /\ queue[l][i] = t /\ queue[l][j] = s

Ahead(t, s) ==
    \E l \in Locks :
        \/ Before(t, s, l)
        \/ t # s /\ t \in Sharers(l) /\ Asked(s, l) /\ ~Found(s, "missing")

(***************************************************************************)
(* s waits for itself: it is in every set that has what it waits for, and  *)
(* what they wait for.                                                     *)
(***************************************************************************)
Deadlocked(s) ==
    /\ Waiting(s)
    /\ \A W \in SUBSET (Sessions \ {s}) : \E u \in W \cup {s} : \E t \in Sessions \ W : Ahead(t, u)

(***************************************************************************)
(* The others are stood down, in the order of the rows, before the         *)
(* semester itself is raised.                                              *)
(***************************************************************************)
StandingDown(r) ==
    [i \in 1 .. r.rows |-> IF r.semester = 0 \/ i < r.semester THEN i
                           ELSE IF i < r.rows THEN i + 1 ELSE r.semester]

(***************************************************************************)
(* The locks of the transaction, in the order of its statements: an edit   *)
(* saves its row and audits it, and a new semester is audited, before the  *)
(* others are stood down; an activation is audited last.                   *)
(***************************************************************************)
Plan(r) ==
    CASE r.op \in NumberOps -> <<r.partition, Chain>>
      [] r.op = "create" /\ r.current -> <<Chain>> \o StandingDown(r)
      [] r.op = "edit" -> <<r.semester, Chain>> \o
                          IF r.current /\ ~r.loaded THEN StandingDown(r) ELSE <<>>
      [] r.op = "activate" -> StandingDown(r) \o <<Chain>>
      [] OTHER -> <<Chain>>

Unasked(s) == {i \in DOMAIN Plan(req[s]) : ~Asked(s, Plan(req[s])[i])}

Prepared(s) ==
    IF Serving(s, "issue") THEN ~Found(s, "unread") ELSE counter[req[s].partition] # 0

(***************************************************************************)
(* It has every lock it asked for, and what it locked them for.            *)
(***************************************************************************)
Ready(s) ==
    /\ ~Free(s) /\ ~Waiting(s)
    /\ Holds(s, Chain) => req[s].link # -1
    /\ req[s].op \in NumberOps =>
          /\ Prepared(s)
          /\ Holds(s, req[s].partition) => req[s].number # 0

-----------------------------------------------------------------------------
(* Requests. *)

(***************************************************************************)
(* Counters that were prepared for a number nobody took.                   *)
(***************************************************************************)
Unused == {p \in Partitions : counter[p] = 1 /\ \A s \in Sessions : req[s].partition = p => Free(s)}

(***************************************************************************)
(* Which of the free workers serves a request makes no difference.         *)
(***************************************************************************)
Begin(s, new) ==
    /\ Free(s) /\ s = CHOOSE t \in Sessions : Free(t)
    /\ Len(chain) < MaxEvents
    /\ Cardinality(Unused) <= MaxUnused
    /\ req' = [req EXCEPT ![s] = new]
    /\ UNCHANGED <<data, queue>>

End(s) == req' = [req EXCEPT ![s] = Idle] /\ queue' = Released(s) /\ UNCHANGED data

(***************************************************************************)
(* A refusal that policy.require records, in a transaction of its own; or  *)
(* any act that is audited and takes no number.                            *)
(***************************************************************************)
Note(s) == Begin(s, [Idle EXCEPT !.op = "note"])

(***************************************************************************)
(* A numbered document, for example a dismissal.                           *)
(***************************************************************************)
File(s, b) == Begin(s, [Idle EXCEPT !.op = "file", !.partition = b])

(***************************************************************************)
(* A certificate, its replacement, or an opening balance.                  *)
(***************************************************************************)
Issue(s, c) ==
    Begin(s, [Idle EXCEPT !.op = "issue", !.partition = c, !.found = "unread"])

(***************************************************************************)
(* partition_for: of a participant of the centre, whose number tells only  *)
(* the year, and of any other.                                             *)
(***************************************************************************)
PartitionsFor(key) == {key, CentreOf[key]}

(***************************************************************************)
(* create_participant: the current semester is read before the             *)
(* transaction, and once for all its attempts.                             *)
(***************************************************************************)
Register(s) ==
    \E m \in DOMAIN semesters : \E p \in PartitionsFor(semesters[m].key) :
        /\ semesters[m].active
        /\ Begin(s, [Idle EXCEPT !.op = "register", !.semester = m, !.partition = p])

(***************************************************************************)
(* The admission form: the post of who may not create is refused, and the  *)
(* refusal recorded.                                                       *)
(***************************************************************************)
ParticipantNewView(s) == Note(s) \/ Register(s)

Creating == {s \in Sessions : Serving(s, "create")}

CreateSemester(s, key, current) ==
    /\ Len(semesters) + Cardinality(Creating) < MaxSemesters
    /\ Begin(s, [Idle EXCEPT !.op = "create", !.partition = key, !.current = current])

FreezesNothing(m, key) == key # semesters[m].key => Len(issued[key]) = 0

(***************************************************************************)
(* _refuse_frozen_change: the year and the type once a number has them.    *)
(***************************************************************************)
Admissible(m, key) == key # semesters[m].key => Len(issued[semesters[m].key]) = 0

ReadUpdate(s, m, key, current) ==
    /\ Admissible(m, key)
    /\ Begin(s, [Idle EXCEPT !.op = "edit", !.semester = m, !.partition = key,
                             !.current = current, !.loaded = semesters[m].active])

(***************************************************************************)
(* The whole row is saved as it was loaded, raised.                        *)
(***************************************************************************)
ReadActivate(s, m) ==
    Begin(s, [Idle EXCEPT !.op = "activate", !.semester = m, !.partition = semesters[m].key,
                          !.current = TRUE, !.rows = Len(semesters)])

(***************************************************************************)
(* The acts of the semesters screen.                                       *)
(***************************************************************************)
SemestersView(s) ==
    \/ \E key \in Keys, current \in BOOLEAN : CreateSemester(s, key, current)
    \/ \E m \in DOMAIN semesters :
          \/ ReadActivate(s, m)
          \/ \E key \in Keys, current \in BOOLEAN : ReadUpdate(s, m, key, current)

-----------------------------------------------------------------------------
(* Their transactions. *)

(***************************************************************************)
(* The counter row is committed before the transaction locks it.           *)
(***************************************************************************)
EnsureSequence(s) ==
    /\ req[s].op \in NumberOps /\ ~Serving(s, "issue")
    /\ counter[req[s].partition] = 0
    /\ counter' = [counter EXCEPT ![req[s].partition] = 1]
    /\ UNCHANGED <<issued, chain, semesters, queue, req>>

(***************************************************************************)
(* In _issue, _issue_replacement and _create it is not: exists() sees what *)
(* is committed.                                                           *)
(***************************************************************************)
Look(s) ==
    /\ Found(s, "unread")
    /\ req' = [req EXCEPT ![s].found =
                  IF counter[req[s].partition] = 0 THEN "missing" ELSE "there"]
    /\ UNCHANGED <<data, queue>>

(***************************************************************************)
(* INSERT IGNORE of a row that no one else inserts: it is there, locked,   *)
(* and gone again if the transaction fails.                                *)
(***************************************************************************)
Inserts(s) ==
    LET p == req[s].partition
    IN  /\ Ready(s) /\ Found(s, "missing")
        /\ counter[p] = 0 /\ queue[p] = <<>> /\ Sharers(p) = {}

Insert(s) ==
    /\ Inserts(s)
    /\ queue' = [queue EXCEPT ![req[s].partition] = Append(@, s)]
    /\ req' = [req EXCEPT ![s].found = "there"]
    /\ UNCHANGED data

(***************************************************************************)
(* INSERT IGNORE of any other asks to share the lock of the duplicate, and *)
(* keeps it when it then asks, like FOR UPDATE, to have it alone.          *)
(***************************************************************************)
Share(s) ==
    /\ Found(s, "missing") /\ First(s, req[s].partition)
    /\ req' = [req EXCEPT ![s].found = "shared"]
    /\ queue' = [queue EXCEPT ![req[s].partition] = Tail(@)]
    /\ UNCHANGED data

(***************************************************************************)
(* The next statement that locks a row: it has the row, or waits for it.   *)
(***************************************************************************)
Ask(s) ==
    /\ Ready(s) /\ ~Inserts(s)
    /\ \E i \in Unasked(s) :
          /\ \A j \in Unasked(s) : i <= j
          /\ queue' = [queue EXCEPT ![Plan(req[s])[i]] = Append(@, s)]
    /\ UNCHANGED <<data, req>>

TakesNumber(s) ==
    /\ req[s].op \in NumberOps
    /\ req[s].number = 0
    /\ Holds(s, req[s].partition) /\ req[s].found \in {"shared", "there"}

(***************************************************************************)
(* A row that its own transaction inserted starts at 1.                    *)
(***************************************************************************)
NextValue(p) == IF counter[p] = 0 THEN 1 ELSE counter[p]

NextNumberAtOnce(s) ==
    /\ TakesNumber(s)
    /\ NextValue(req[s].partition) < MaxValue
    /\ counter' = [counter EXCEPT ![req[s].partition] = NextValue(req[s].partition) + 1]
    /\ req' = [req EXCEPT ![s].number = NextValue(req[s].partition)]
    /\ UNCHANGED <<issued, chain, semesters, queue>>

(***************************************************************************)
(* The counter takes its next value when the transaction commits.          *)
(***************************************************************************)
NextNumber(s) ==
    /\ TakesNumber(s)
    /\ NextValue(req[s].partition) < MaxValue
    /\ req' = [req EXCEPT ![s].number = NextValue(req[s].partition)]
    /\ UNCHANGED <<data, queue>>

(***************************************************************************)
(* SequenceExhausted                                                       *)
(***************************************************************************)
Exhausted(s) ==
    /\ TakesNumber(s)
    /\ NextValue(req[s].partition) >= MaxValue
    /\ End(s)

(***************************************************************************)
(* The last row is read under the chain lock.  What stands other semesters *)
(* down after it finds the rows that are there now.                        *)
(***************************************************************************)
WriteAudit(s) ==
    /\ Holds(s, Chain) /\ req[s].link = -1
    /\ req' = [req EXCEPT ![s].link = Len(chain),
                          ![s].rows = IF Serving(s, "activate") THEN @ ELSE Len(semesters)]
    /\ UNCHANGED <<data, queue>>

Raised(rows, m) ==
    [n \in DOMAIN rows |-> [rows[n] EXCEPT !.active = n = m]]

(***************************************************************************)
(* The semesters once r has saved: its own, and who is current.  An edit   *)
(* saves is_active as it was loaded.                                       *)
(***************************************************************************)
Saved(r) ==
    LET own  == [key |-> r.partition, active |-> r.loaded]
        rows == CASE r.op = "create" -> Append(semesters, own)
                  [] r.op \in {"edit", "activate"} -> [semesters EXCEPT ![r.semester] = own]
                  [] OTHER -> semesters
    IN  CASE r.op = "create" /\ r.current -> Raised(rows, Len(rows))
          [] r.op = "edit" /\ r.current /\ ~r.loaded -> Raised(rows, r.semester)
          [] r.op = "activate" -> Raised(rows, r.semester)
          [] OTHER -> rows

AdmittedAlways(rows) == TRUE

(***************************************************************************)
(* core_semester_single_active                                             *)
(***************************************************************************)
Admitted(rows) == \A m, n \in DOMAIN rows : rows[m].active /\ rows[n].active => m = n

Complete(s) == Ready(s) /\ Unasked(s) = {}

(***************************************************************************)
(* Semester m has a number of its own year and type.                       *)
(***************************************************************************)
Counted(m, rows, numbers) ==
    \E i \in DOMAIN numbers[rows[m].key] : numbers[rows[m].key][i].semester = m

(***************************************************************************)
(* What r was judged by still holds: a registration by the year and type   *)
(* of the semester, a save of another year or type by there being no       *)
(* number, and an edit by who is current.                                  *)
(***************************************************************************)
UpToDate(r, rows, numbers) ==
    /\ r.op = "register" => r.partition \in PartitionsFor(rows[r.semester].key)
    /\ r.op \in {"edit", "activate"} /\ r.partition # rows[r.semester].key =>
          ~Counted(r.semester, rows, numbers)
    /\ r.op = "edit" => r.loaded = rows[r.semester].active

Outdated(r) == UpToDate(r, semesters, issued) /\ ~UpToDate(r, semesters', issued')

Commit(s) ==
    /\ Complete(s)
    /\ Admitted(Saved(req[s]))
    /\ semesters' = Saved(req[s])
    /\ chain' = Append(chain, req[s].link)
    /\ LET p == req[s].partition
           n == req[s].number
       IN  IF n = 0 THEN UNCHANGED <<counter, issued>>
           ELSE /\ counter' = [counter EXCEPT ![p] = n + 1]
                /\ issued' = [issued EXCEPT
                                 ![p] = Append(@, [number |-> n, semester |-> req[s].semester])]
    /\ queue' = Released(s)
    /\ req' = [t \in Sessions |->
                  IF t = s THEN Idle
                  ELSE [req[t] EXCEPT !.overtaken = @ \/ Outdated(req[t])]]

(***************************************************************************)
(* Raised again from a stale row while another is current.                 *)
(***************************************************************************)
Refused(s) == Complete(s) /\ ~Admitted(Saved(req[s])) /\ End(s)

(***************************************************************************)
(* _create_with_retry                                                      *)
(***************************************************************************)
Again(s) == Serving(s, "register") /\ req[s].attempt + 1 < MaxAttempts

AbortedUncounted(s) ==
    IF Again(s)
    THEN /\ req' = [req EXCEPT ![s].number = 0, ![s].link = -1]
         /\ queue' = Released(s)
         /\ UNCHANGED data
    ELSE End(s)

(***************************************************************************)
(* MySQL gives the transaction up: only a registration is tried again.     *)
(***************************************************************************)
Aborted(s) ==
    IF Again(s)
    THEN /\ req' = [req EXCEPT ![s].number = 0, ![s].link = -1, ![s].attempt = @ + 1]
         /\ queue' = Released(s)
         /\ UNCHANGED data
    ELSE End(s)

(***************************************************************************)
(* Error 1205, a lock wait timeout; or 1213 for a reason not seen here.    *)
(***************************************************************************)
TimeOut(s) == Waiting(s) /\ Aborted(s)

(***************************************************************************)
(* Error 1213: one of a deadlock is given up.                              *)
(***************************************************************************)
Victim(s) == Deadlocked(s) /\ Aborted(s)

(***************************************************************************)
(* A failed insert, a lost connection, a worker that dies.                 *)
(***************************************************************************)
Rollback(s) == ~Free(s) /\ End(s)

Advance(s) ==
    \/ EnsureSequence(s) \/ Look(s) \/ Insert(s) \/ Share(s)
    \/ Ask(s) \/ NextNumber(s) \/ Exhausted(s) \/ WriteAudit(s)
    \/ Commit(s) \/ Refused(s)

-----------------------------------------------------------------------------
(***************************************************************************)
(* seed_semester creates one, current (its key is any), and writes past    *)
(* the audit trail.                                                        *)
(***************************************************************************)
Seeded == {<<>>, <<[key |-> CHOOSE k \in Keys : TRUE, active |-> TRUE]>>}

Init ==
    /\ counter = [p \in Partitions |-> 0]
    /\ issued = [p \in Partitions |-> <<>>]
    /\ chain = <<>>
    /\ semesters \in Seeded
    /\ queue = [l \in Locks |-> <<>>]
    /\ req = [s \in Sessions |-> Idle]

Next ==
    \E s \in Sessions :
        \/ ParticipantNewView(s)
        \/ SemestersView(s)
        \/ \E b \in Books : File(s, b)
        \/ \E c \in Inline : Issue(s, c)
        \/ Advance(s)
        \/ TimeOut(s) \/ Victim(s) \/ Rollback(s)

Spec == Init /\ [][Next]_vars

(***************************************************************************)
(* A worker goes on with the request it serves, and MySQL looks for        *)
(* deadlocks.                                                              *)
(***************************************************************************)
Fairness ==
    /\ \A s \in Sessions : WF_vars(Advance(s))
    /\ WF_vars(\E s \in Sessions : Victim(s))

FairSpec == Spec /\ Fairness

-----------------------------------------------------------------------------
(***************************************************************************)
(* "If the surrounding transaction fails, the counter rolls back with it,  *)
(* so no gap appears": the numbers of a partition are 1, 2, 3... with none *)
(* skipped and none twice, whatever fails, and the next follows them.      *)
(***************************************************************************)
Gapless ==
    \A p \in Partitions :
        /\ \A i \in DOMAIN issued[p] : issued[p][i].number = i
        /\ issued[p] # <<>> => counter[p] = Len(issued[p]) + 1

(***************************************************************************)
(* verify_chain: each row is linked to the one before it, so two writers   *)
(* never fork the chain.                                                   *)
(***************************************************************************)
ChainUnbroken == \A i \in DOMAIN chain : chain[i] = i - 1

(***************************************************************************)
(* "Once the row exists, contention is an ordinary row-lock queue":        *)
(* numbers and the chain cause no deadlock, since every transaction that   *)
(* takes a number locks the chain last.  There is one only while two acts  *)
(* on semesters wait, or while two requests wait for a counter of          *)
(* certificates or of opening balances that one of them found missing in   *)
(* its transaction and shares.  A registration may still be given up with  *)
(* two acts on semesters, when it waits for the chain before one of them   *)
(* does.                                                                   *)
(***************************************************************************)
ActsCross ==
    \E t, u \in Sessions : /\ t # u /\ Waiting(t) /\ Waiting(u)
                           /\ {req[t].op, req[u].op} \subseteq SemesterOps

CounterIsNew ==
    \E t, u \in Sessions : /\ t # u /\ Waiting(t) /\ Waiting(u)
                           /\ req[t].partition = req[u].partition /\ Found(t, "shared")

DeadlocksAreKnown == \A s \in Sessions : Deadlocked(s) => ActsCross \/ CounterIsNew

RegistersUnbroken == Gapless /\ ChainUnbroken /\ DeadlocksAreKnown

(***************************************************************************)
(* A participant number goes on telling the year and the type of the       *)
(* semester it was minted under, whatever is edited, created or activated; *)
(* a number of the centre tells only the year, and that only as long as    *)
(* the semester has a number of its own type too: _refuse_frozen_change    *)
(* does not count it.  And once a semester is current one always is        *)
(* (without it no participant can be registered).  Except by the commit of *)
(* a request about that semester, when what it was judged by has changed   *)
(* since it was read.                                                      *)
(***************************************************************************)
Astray(p, i) ==
    i \in DOMAIN issued[p] /\ p \notin PartitionsFor(semesters[issued[p][i].semester].key)

LateSave(m) == \E s \in Sessions : req[s].overtaken /\ req[s].semester = m /\ req'[s] = Idle

NumbersTell ==
    \A p \in Keys \cup Centres : \A i \in DOMAIN issued'[p] :
        LET m == issued'[p][i].semester
        IN  Astray(p, i)' => \/ Astray(p, i)
                             \/ LateSave(m)
                             \/ p \in Centres /\ ~Counted(m, semesters, issued)

HasCurrent == \E m \in DOMAIN semesters : semesters[m].active

CurrentStays == \A m \in DOMAIN semesters : semesters[m].active => HasCurrent' \/ LateSave(m)

TermsStand == [][NumbersTell /\ CurrentStays]_data

(***************************************************************************)
(* Every request ends: no wait for a row is for ever, although the acts on *)
(* semesters do not lock in one order, and a registration is tried again.  *)
(***************************************************************************)
EveryRequestEnds == \A s \in Sessions : ~Free(s) ~> Free(s)
=============================================================================
