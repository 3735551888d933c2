---------------------------- MODULE JournalProofs ----------------------------
(***************************************************************************)
(* Proofs about Journal, for every number of sessions, year-and-types,     *)
(* counters and semesters.                                                 *)
(*                                                                         *)
(* Five inductive invariants, each relative to those before it: what a     *)
(* request is (Typed), what it has locked (LocksOrdered), that what it has *)
(* taken is the next number and the last row as long as it holds their     *)
(* locks (Taken), what follows for the registers (Numbered), and that what *)
(* it was judged by still holds unless it is marked overtaken (Told).      *)
(***************************************************************************)
EXTENDS Journal, FiniteSetTheorems, SequenceTheorems, TLAPS

-----------------------------------------------------------------------------
(* The invariants. *)

Shaped(q) ==
    /\ q.number < MaxValue /\ q.rows <= Len(semesters) /\ q.link >= -1
    /\ q.op \notin NumberOps => q.number = 0
    /\ q.op # "issue" => q.found = "there"
    /\ q.op \in SemesterOps => q.partition \in Keys
    /\ q.op = "register" => q.partition \in Keys \cup Centres
    /\ q.op = "issue" => q.partition \in Inline
    /\ q.op = "file" => q.partition \in Books
    /\ q.op \in {"register", "edit", "activate"} => q.semester \in DOMAIN semesters
    /\ q.op = "create" => q.semester = 0 /\ ~q.loaded

Typed ==
    /\ TypeOK
    /\ \A s \in Sessions : Shaped(req[s]) /\ (req[s].op = "idle" => Free(s))
    /\ Len(semesters) + Cardinality(Creating) <= MaxSemesters

(***************************************************************************)
(* The rows a request may have locked, or wait for.                        *)
(***************************************************************************)
Wanted(q) ==
    CASE q.op \in NumberOps -> {q.partition, Chain}
      [] q.op \in SemesterOps -> Rows \cup {Chain}
      [] q.op = "note" -> {Chain}
      [] OTHER -> {}

LocksOrdered ==
    /\ \A s \in Sessions, l \in Locks : Asked(s, l) => l \in Wanted(req[s])
    /\ \A s \in Sessions, k, l \in Locks :
          Asked(s, k) /\ Asked(s, l) => Holds(s, k) \/ Holds(s, l) \/ k = l
    /\ \A s \in Sessions : req[s].op \in NumberOps /\ Asked(s, Chain) => req[s].number # 0

HasTaken(s) ==
    /\ req[s].number # 0 => /\ Holds(s, req[s].partition)
                            /\ req[s].number = NextValue(req[s].partition)
                            /\ req[s].found \in {"shared", "there"}
    /\ req[s].link # -1 => Holds(s, Chain) /\ req[s].link = Len(chain)

Taken == \A s \in Sessions : HasTaken(s)

Numbered ==
    /\ \A p \in Partitions :
          /\ \A i \in DOMAIN issued[p] : issued[p][i].number = i
          /\ counter[p] = Len(issued[p]) + 1 \/ (counter[p] = 0 /\ issued[p] = <<>>)
    /\ ChainUnbroken

(***************************************************************************)
(* What a request was judged by still holds.                               *)
(***************************************************************************)
Judged(q) == UpToDate(q, semesters, issued)

Told ==
    /\ \A p \in Keys \cup Centres : \A i \in DOMAIN issued[p] :
          issued[p][i].semester \in DOMAIN semesters
    /\ \A s \in Sessions : req[s].overtaken \/ Judged(req[s])

-----------------------------------------------------------------------------
(* The steps. *)

LEMMA IdleTyped == Idle \in Request
<1>1. (CHOOSE p \in Partitions : TRUE) \in Partitions
  BY ConstantsAssumption DEF Partitions
<1> QED
  BY <1>1 DEF Idle, Request, Ops

LEMMA IdleIs ==
    /\ Idle.op = "idle" /\ Idle.semester = 0 /\ Idle.rows = 0 /\ Idle.number = 0
    /\ Idle.link = -1 /\ Idle.attempt = 0 /\ Idle.found = "there"
    /\ ~Idle.current /\ ~Idle.loaded /\ ~Idle.overtaken
  BY DEF Idle

(***************************************************************************)
(* A request as a page begins it.                                          *)
(***************************************************************************)
Fresh(new) ==
    /\ new \in Request /\ new.op # "idle"
    /\ Shaped(new) /\ Judged(new)
    /\ new.number = 0 /\ new.link = -1 /\ ~new.overtaken /\ new.found \in {"unread", "there"}
    /\ new.op = "create" => Len(semesters) + Cardinality(Creating) < MaxSemesters

LEMMA SemesterTyped ==
    ASSUME TypeOK, NEW m \in DOMAIN semesters
    PROVE  m \in Nat /\ semesters[m].key \in Keys /\ semesters[m].active \in BOOLEAN
<1>1. m \in Nat /\ semesters[m] \in Semester
  BY DEF TypeOK
<1>2. semesters[m].key \in Keys
  BY <1>1 DEF Semester
<1>3. semesters[m].active \in BOOLEAN
  BY <1>1 DEF Semester
<1> QED
  BY <1>1, <1>2, <1>3

LEMMA NoteBegins ==
    ASSUME Typed, NEW s \in Sessions, Note(s)
    PROVE  \E new : Begin(s, new) /\ Fresh(new)
<1> DEFINE idle == Idle
           new == [idle EXCEPT !.op = "note"]
<1>1. /\ idle \in Request /\ idle.number = 0 /\ idle.link = -1 /\ ~idle.overtaken /\ idle.rows = 0
      /\ idle.found = "there" /\ Begin(s, new)
  BY IdleTyped, IdleIs DEF Note
<1> HIDE DEF idle
<1>2. /\ new \in Request /\ new.op = "note" /\ new.number = 0 /\ new.link = -1 /\ new.found = "there"
      /\ new.rows = 0
  BY <1>1 DEF Request, Ops
<1>3. ~new.overtaken
  BY <1>1 DEF Request
<1> HIDE DEF new
<1>4. Fresh(new)
  BY <1>2, <1>3, ConstantsAssumption DEF Fresh, Shaped, Judged, UpToDate, NumberOps, SemesterOps, Typed, TypeOK
<1> QED
  BY <1>1, <1>4

LEMMA FileBegins ==
    ASSUME Typed, NEW s \in Sessions, NEW b \in Books, File(s, b)
    PROVE  \E new : Begin(s, new) /\ Fresh(new)
<1> DEFINE idle == Idle
           new == [idle EXCEPT !.op = "file", !.partition = b]
<1>1. /\ idle \in Request /\ idle.number = 0 /\ idle.link = -1 /\ ~idle.overtaken /\ idle.rows = 0
      /\ idle.found = "there" /\ Begin(s, new)
  BY IdleTyped, IdleIs DEF File
<1> HIDE DEF idle
<1>2. /\ new \in Request /\ new.op = "file" /\ new.number = 0 /\ new.link = -1 /\ new.found = "there"
      /\ new.rows = 0 /\ new.partition = b
  BY <1>1 DEF Request, Ops, NumberOps, Partitions
<1>3. ~new.overtaken
  BY <1>1 DEF Request
<1> HIDE DEF new
<1>4. Fresh(new)
  BY <1>2, <1>3, ConstantsAssumption DEF Fresh, Shaped, Judged, UpToDate, NumberOps, SemesterOps, Typed, TypeOK
<1> QED
  BY <1>1, <1>4

LEMMA IssueBegins ==
    ASSUME Typed, NEW s \in Sessions, NEW c \in Inline, Issue(s, c)
    PROVE  \E new : Begin(s, new) /\ Fresh(new)
<1> DEFINE idle == Idle
           new == [idle EXCEPT !.op = "issue", !.partition = c, !.found = "unread"]
<1>1. /\ idle \in Request /\ idle.number = 0 /\ idle.link = -1 /\ ~idle.overtaken /\ idle.rows = 0
      /\ Begin(s, new)
  BY IdleTyped, IdleIs DEF Issue
<1> HIDE DEF idle
<1>2. /\ new \in Request /\ new.op = "issue" /\ new.number = 0 /\ new.link = -1 /\ new.found = "unread"
      /\ new.rows = 0 /\ new.partition = c
  BY <1>1 DEF Request, Ops, NumberOps, Partitions
<1>3. ~new.overtaken
  BY <1>1 DEF Request
<1> HIDE DEF new
<1>4. Fresh(new)
  BY <1>2, <1>3, ConstantsAssumption DEF Fresh, Shaped, Judged, UpToDate, NumberOps, SemesterOps, Typed, TypeOK
<1> QED
  BY <1>1, <1>4

LEMMA PartitionsForIs ==
    ASSUME NEW key \in Keys, NEW p \in PartitionsFor(key)
    PROVE  p \in Keys \cup Centres /\ (p \in Keys => p = key)
  BY ConstantsAssumption DEF PartitionsFor

LEMMA RegisterBegins ==
    ASSUME Typed, NEW s \in Sessions, Register(s)
    PROVE  \E new : Begin(s, new) /\ Fresh(new)
<1> DEFINE idle == Idle
           new(m, p) == [idle EXCEPT !.op = "register", !.semester = m, !.partition = p]
<1>1. /\ idle \in Request /\ idle.number = 0 /\ idle.link = -1 /\ ~idle.overtaken /\ idle.rows = 0
      /\ idle.found = "there"
      /\ \E m \in DOMAIN semesters : \E p \in PartitionsFor(semesters[m].key) : Begin(s, new(m, p))
  BY IdleTyped, IdleIs DEF Register
<1> HIDE DEF idle
<1>2. PICK m \in DOMAIN semesters : \E p \in PartitionsFor(semesters[m].key) : Begin(s, new(m, p))
  BY <1>1
<1>8. PICK p \in PartitionsFor(semesters[m].key) : Begin(s, new(m, p))
  BY <1>2
<1>3. m \in Nat /\ semesters[m].key \in Keys /\ p \in Keys \cup Centres
  BY SemesterTyped, PartitionsForIs DEF Typed
<1> DEFINE this == new(m, p)
<1>4. /\ this \in Request /\ this.op = "register" /\ this.number = 0 /\ this.link = -1
      /\ this.rows = 0 /\ this.partition = p /\ this.semester = m /\ this.found = "there"
  BY <1>1, <1>3 DEF Request, Ops, NumberOps, Partitions
<1>5. ~this.overtaken
  BY <1>1, <1>3 DEF Request
<1>6. Begin(s, this)
  BY <1>8
<1> HIDE DEF this
<1>7. Fresh(this)
  BY <1>3, <1>4, <1>5, ConstantsAssumption DEF Fresh, Shaped, Judged, UpToDate, NumberOps, SemesterOps, Typed, TypeOK
<1> QED
  BY <1>6, <1>7

LEMMA CreateBegins ==
    ASSUME Typed, NEW s \in Sessions, NEW key \in Keys, NEW current \in BOOLEAN,
           CreateSemester(s, key, current)
    PROVE  \E new : Begin(s, new) /\ Fresh(new)
<1> DEFINE idle == Idle
           new == [idle EXCEPT !.op = "create", !.partition = key, !.current = current]
<1>1. /\ idle \in Request /\ idle.number = 0 /\ idle.link = -1 /\ ~idle.overtaken /\ idle.rows = 0
      /\ idle.found = "there"
      /\ idle.semester = 0 /\ ~idle.loaded
      /\ Begin(s, new) /\ Len(semesters) + Cardinality(Creating) < MaxSemesters
  BY IdleTyped, IdleIs DEF CreateSemester
<1> HIDE DEF idle
<1>2. /\ new \in Request /\ new.op = "create" /\ new.number = 0 /\ new.link = -1 /\ new.found = "there"
      /\ new.rows = 0 /\ new.partition = key /\ new.semester = 0
  BY <1>1 DEF Request, Ops, SemesterOps, Partitions
<1>3. ~new.overtaken /\ ~new.loaded
  BY <1>1 DEF Request
<1> HIDE DEF new
<1>4. Fresh(new)
  BY <1>1, <1>2, <1>3, ConstantsAssumption DEF Fresh, Shaped, Judged, UpToDate, NumberOps, SemesterOps, Typed, TypeOK
<1> QED
  BY <1>1, <1>4

LEMMA UpdateBegins ==
    ASSUME Typed, NEW s \in Sessions, NEW m \in DOMAIN semesters, NEW key \in Keys,
           NEW current \in BOOLEAN, ReadUpdate(s, m, key, current)
    PROVE  \E new : Begin(s, new) /\ Fresh(new)
<1> DEFINE idle == Idle
           loaded == semesters[m].active
           new == [idle EXCEPT !.op = "edit", !.semester = m, !.partition = key,
                               !.current = current, !.loaded = loaded]
<1>1. /\ idle \in Request /\ idle.number = 0 /\ idle.link = -1 /\ ~idle.overtaken /\ idle.rows = 0
      /\ idle.found = "there" /\ Begin(s, new) /\ Admissible(m, key)
  BY IdleTyped, IdleIs DEF ReadUpdate
<1>2. m \in Nat /\ loaded \in BOOLEAN /\ semesters[m].key \in Keys
  BY SemesterTyped DEF Typed
<1> HIDE DEF idle, loaded
<1>3. /\ new \in Request /\ new.op = "edit" /\ new.number = 0 /\ new.link = -1 /\ new.found = "there"
      /\ new.rows = 0 /\ new.partition = key /\ new.semester = m
  BY <1>1, <1>2 DEF Request, Ops, SemesterOps, Partitions
<1>4. ~new.overtaken /\ new.loaded = loaded
  BY <1>1, <1>2 DEF Request
<1> HIDE DEF new
<1>5. Shaped(new)
  BY <1>2, <1>3, ConstantsAssumption DEF Shaped, NumberOps, SemesterOps, Typed, TypeOK
<1>6. key # semesters[m].key => DOMAIN issued[semesters[m].key] = {}
  BY <1>1, <1>2 DEF Admissible, Typed, TypeOK, Partitions
<1>7. Judged(new)
  BY <1>3, <1>4, <1>6 DEF Judged, UpToDate, Counted, loaded
<1> QED
  BY <1>1, <1>3, <1>4, <1>5, <1>7 DEF Fresh

LEMMA ActivateBegins ==
    ASSUME Typed, NEW s \in Sessions, NEW m \in DOMAIN semesters, ReadActivate(s, m)
    PROVE  \E new : Begin(s, new) /\ Fresh(new)
<1> DEFINE idle == Idle
           new == [idle EXCEPT !.op = "activate", !.semester = m, !.partition = semesters[m].key,
                               !.current = TRUE, !.rows = Len(semesters)]
<1>1. /\ idle \in Request /\ idle.number = 0 /\ idle.link = -1 /\ ~idle.overtaken
      /\ idle.found = "there" /\ Begin(s, new)
  BY IdleTyped, IdleIs DEF ReadActivate
<1>2. m \in Nat /\ semesters[m].key \in Keys /\ Len(semesters) \in Nat
  BY SemesterTyped DEF Typed, TypeOK
<1> HIDE DEF idle
<1>3. /\ new \in Request /\ new.op = "activate" /\ new.number = 0 /\ new.link = -1 /\ new.found = "there"
      /\ new.rows = Len(semesters) /\ new.partition = semesters[m].key /\ new.semester = m
  BY <1>1, <1>2 DEF Request, Ops, SemesterOps, Partitions
<1>4. ~new.overtaken
  BY <1>1, <1>2 DEF Request
<1> HIDE DEF new
<1>5. Fresh(new)
  BY <1>2, <1>3, <1>4, ConstantsAssumption DEF Fresh, Shaped, Judged, UpToDate, NumberOps, SemesterOps
<1> QED
  BY <1>1, <1>5

(***************************************************************************)
(* The kinds of steps.                                                     *)
(***************************************************************************)
LEMMA Steps ==
    ASSUME Typed, Next
    PROVE  \E s \in Sessions :
              \/ \E new : Begin(s, new) /\ Fresh(new)
              \/ End(s) \/ (Again(s) /\ Aborted(s))
              \/ EnsureSequence(s) \/ Look(s) \/ Insert(s) \/ Share(s)
              \/ Ask(s) \/ NextNumber(s) \/ WriteAudit(s) \/ Commit(s)
<1>1. PICK s \in Sessions :
          \/ ParticipantNewView(s)
          \/ SemestersView(s)
          \/ \E b \in Books : File(s, b)
          \/ \E c \in Inline : Issue(s, c)
          \/ Advance(s)
          \/ TimeOut(s) \/ Victim(s) \/ Rollback(s)
  BY DEF Next
<1>2. CASE ParticipantNewView(s)
  BY <1>2, NoteBegins, RegisterBegins DEF ParticipantNewView
<1>3. CASE SemestersView(s)
  BY <1>3, CreateBegins, UpdateBegins, ActivateBegins DEF SemestersView
<1>4. CASE (\E b \in Books : File(s, b)) \/ \E c \in Inline : Issue(s, c)
  BY <1>4, FileBegins, IssueBegins
<1>5. CASE Advance(s)
  BY <1>5 DEF Advance, Exhausted, Refused
<1>6. CASE TimeOut(s) \/ Victim(s) \/ Rollback(s)
  BY <1>6 DEF TimeOut, Victim, Rollback, Aborted
<1> QED
  BY <1>1, <1>2, <1>3, <1>4, <1>5, <1>6

-----------------------------------------------------------------------------
(* What the steps make of the requests. *)

(***************************************************************************)
(* q is r, but for what a transaction notes in it.                         *)
(***************************************************************************)
Follows(q, r) ==
    /\ q.op = r.op /\ q.semester = r.semester /\ q.partition = r.partition
    /\ q.current = r.current /\ q.loaded = r.loaded /\ q.found = r.found

LEMMA RequestTyped ==
    ASSUME Typed, NEW s \in Sessions
    PROVE  /\ req[s] \in Request /\ Shaped(req[s])
           /\ req[s].op = "idle" => req[s] = Idle
  BY DEF Typed, TypeOK, Free

LEMMA NumberNoted ==
    ASSUME Typed, NEW s \in Sessions, NextNumber(s)
    PROVE  /\ req' \in [Sessions -> Request]
           /\ \A t \in Sessions \ {s} : req'[t] = req[t]
           /\ Follows(req'[s], req[s]) /\ req'[s].rows = req[s].rows
           /\ req'[s].link = req[s].link /\ req'[s].overtaken = req[s].overtaken
           /\ req'[s].number = NextValue(req[s].partition)
<1>1. req[s] \in Request /\ req \in [Sessions -> Request]
  BY RequestTyped DEF Typed, TypeOK
<1> DEFINE q == req[s]
           n == NextValue(q.partition)
           new == [q EXCEPT !.number = n]
<1>2. req' = [req EXCEPT ![s] = new]
  BY DEF NextNumber
<1>3. q.partition \in Partitions /\ n \in Nat
  <2>1. q.partition \in Partitions
    BY <1>1 DEF Request
  <2> QED
    BY <2>1 DEF NextValue, Typed, TypeOK
<1> HIDE DEF q, n
<1>4. q \in Request
  BY <1>1 DEF q
<1>5. new \in Request
  BY <1>3, <1>4 DEF Request
<1>6. /\ Follows(new, q) /\ new.rows = q.rows /\ new.link = q.link
      /\ new.overtaken = q.overtaken /\ new.number = n
  BY <1>4 DEF Request, Follows
<1> HIDE DEF new
<1>7. req'[s] = new /\ req' \in [Sessions -> Request] /\ \A t \in Sessions \ {s} : req'[t] = req[t]
  BY <1>1, <1>2, <1>5
<1> QED
  BY <1>6, <1>7 DEF q, n

(***************************************************************************)
(* Looking for the counter, inserting it, and sharing it note only that.   *)
(***************************************************************************)
LEMMA FoundNoted ==
    ASSUME Typed, NEW s \in Sessions, NEW f \in {"missing", "shared", "there"},
           req' = [req EXCEPT ![s].found = f]
    PROVE  /\ req' \in [Sessions -> Request]
           /\ \A t \in Sessions \ {s} : req'[t] = req[t]
           /\ req'[s].op = req[s].op /\ req'[s].semester = req[s].semester
           /\ req'[s].partition = req[s].partition /\ req'[s].current = req[s].current
           /\ req'[s].loaded = req[s].loaded /\ req'[s].rows = req[s].rows
           /\ req'[s].number = req[s].number /\ req'[s].link = req[s].link
           /\ req'[s].overtaken = req[s].overtaken /\ req'[s].found = f
<1> DEFINE q == req[s]
           new == [q EXCEPT !.found = f]
<1>1. q \in Request /\ req \in [Sessions -> Request] /\ req' = [req EXCEPT ![s] = new]
  BY RequestTyped DEF Typed, TypeOK
<1> HIDE DEF q
<1>2. new \in Request
  BY <1>1 DEF Request
<1>3. /\ new.op = q.op /\ new.semester = q.semester /\ new.partition = q.partition
      /\ new.rows = q.rows /\ new.number = q.number /\ new.link = q.link /\ new.found = f
  BY <1>1 DEF Request
<1>4. new.current = q.current /\ new.loaded = q.loaded /\ new.overtaken = q.overtaken
  BY <1>1 DEF Request
<1> HIDE DEF new
<1>5. req'[s] = new /\ req' \in [Sessions -> Request] /\ \A t \in Sessions \ {s} : req'[t] = req[t]
  BY <1>1, <1>2
<1> QED
  BY <1>3, <1>4, <1>5 DEF q

LEMMA AuditNoted ==
    ASSUME Typed, NEW s \in Sessions, WriteAudit(s)
    PROVE  /\ req' \in [Sessions -> Request]
           /\ \A t \in Sessions \ {s} : req'[t] = req[t]
           /\ Follows(req'[s], req[s]) /\ req'[s].rows <= Len(semesters)
           /\ req'[s].link = Len(chain) /\ req'[s].overtaken = req[s].overtaken
           /\ req'[s].number = req[s].number
<1>1. req[s] \in Request /\ req \in [Sessions -> Request] /\ Shaped(req[s])
  BY RequestTyped DEF Typed, TypeOK
<1> DEFINE q == req[s]
           n == Len(chain)
           rows == IF Serving(s, "activate") THEN q.rows ELSE Len(semesters)
           new == [q EXCEPT !.link = n, !.rows = rows]
<1>2. req' = [req EXCEPT ![s] = new]
  BY DEF WriteAudit
<1>3. n \in Int /\ rows \in Nat /\ rows <= Len(semesters)
  <2>1. q.rows \in Nat /\ q.rows <= Len(semesters)
    BY <1>1 DEF Request, Shaped
  <2> QED
    BY <2>1 DEF Typed, TypeOK
<1> HIDE DEF q, n, rows
<1>4. q \in Request
  BY <1>1 DEF q
<1>5. new \in Request
  BY <1>3, <1>4 DEF Request
<1>6. /\ Follows(new, q) /\ new.rows = rows /\ new.link = n
      /\ new.overtaken = q.overtaken /\ new.number = q.number
  BY <1>4 DEF Request, Follows
<1> HIDE DEF new
<1>7. req'[s] = new /\ req' \in [Sessions -> Request] /\ \A t \in Sessions \ {s} : req'[t] = req[t]
  BY <1>1, <1>2, <1>5
<1> QED
  BY <1>3, <1>6, <1>7 DEF q, n

LEMMA RetryNoted ==
    ASSUME Typed, NEW s \in Sessions, Again(s), Aborted(s)
    PROVE  /\ req' \in [Sessions -> Request]
           /\ \A t \in Sessions \ {s} : req'[t] = req[t]
           /\ Follows(req'[s], req[s]) /\ req'[s].rows = req[s].rows
           /\ req'[s].link = -1 /\ req'[s].overtaken = req[s].overtaken
           /\ req'[s].number = 0
           /\ queue' = Released(s) /\ UNCHANGED data
<1>1. req[s] \in Request /\ req \in [Sessions -> Request]
  BY RequestTyped DEF Typed, TypeOK
<1> DEFINE q == req[s]
           n == q.attempt + 1
           none == -1
           new == [q EXCEPT !.number = 0, !.link = none, !.attempt = n]
<1>2. req' = [req EXCEPT ![s] = new] /\ queue' = Released(s) /\ UNCHANGED data
  BY DEF Aborted
<1>3. n \in Nat /\ none \in Int
  BY <1>1 DEF Request
<1> HIDE DEF q, n, none
<1>4. q \in Request
  BY <1>1 DEF q
<1>5. new \in Request
  BY <1>3, <1>4 DEF Request
<1>6. /\ Follows(new, q) /\ new.rows = q.rows /\ new.link = none
      /\ new.overtaken = q.overtaken /\ new.number = 0
  BY <1>4 DEF Request, Follows
<1> HIDE DEF new
<1>7. req'[s] = new /\ req' \in [Sessions -> Request] /\ \A t \in Sessions \ {s} : req'[t] = req[t]
  BY <1>1, <1>2, <1>5
<1> QED
  BY <1>2, <1>6, <1>7 DEF q, none

(***************************************************************************)
(* After a commit the others have only been overtaken, or not.             *)
(***************************************************************************)
LEMMA CommitNoted ==
    ASSUME Typed, NEW s \in Sessions, Commit(s)
    PROVE  /\ req' \in [Sessions -> Request] /\ req'[s] = Idle
           /\ \A t \in Sessions \ {s} :
                 /\ Follows(req'[t], req[t]) /\ req'[t].rows = req[t].rows
                 /\ req'[t].link = req[t].link /\ req'[t].number = req[t].number
                 /\ ~req'[t].overtaken => ~req[t].overtaken /\ ~Outdated(req[t])
                 /\ req'[t] = Idle => req[t].op = "idle"
                 /\ req'[t].op = "idle" => req'[t] = Idle
<1>1. req' = [t \in Sessions |->
                 IF t = s THEN Idle ELSE [req[t] EXCEPT !.overtaken = @ \/ Outdated(req[t])]]
  BY DEF Commit
<1>2. ASSUME NEW t \in Sessions, t # s
      PROVE  /\ req'[t] \in Request
             /\ Follows(req'[t], req[t]) /\ req'[t].rows = req[t].rows
             /\ req'[t].link = req[t].link /\ req'[t].number = req[t].number
             /\ ~req'[t].overtaken => ~req[t].overtaken /\ ~Outdated(req[t])
             /\ req'[t] = Idle => req[t].op = "idle"
             /\ req'[t].op = "idle" => req'[t] = Idle
  <2> DEFINE q == req[t]
             late == q.overtaken \/ Outdated(q)
             new == [q EXCEPT !.overtaken = late]
  <2>1. req'[t] = new
    BY <1>1, <1>2
  <2>2. late \in BOOLEAN /\ (~late => ~q.overtaken /\ ~Outdated(q))
    OBVIOUS
  <2>3. q \in Request /\ (q.op = "idle" => q = Idle)
    BY RequestTyped
  <2>4. q = Idle => late = q.overtaken
    <3>1. q = Idle => q.op = "idle" /\ q.overtaken = FALSE
      BY DEF Idle
    <3>2. q.op = "idle" => Outdated(q) = FALSE
      BY DEF Outdated, UpToDate
    <3> QED
      BY <3>1, <3>2
  <2> HIDE DEF q, late
  <2>5. new \in Request
    BY <2>2, <2>3 DEF Request
  <2>6. /\ Follows(new, q) /\ new.rows = q.rows /\ new.link = q.link /\ new.number = q.number
        /\ new.op = q.op
    BY <2>3 DEF Request, Follows
  <2>7. new.overtaken = late
    BY <2>3 DEF Request
  <2>8. q = Idle => new = Idle
    BY <2>3, <2>4 DEF Request
  <2> HIDE DEF new
  <2>9. new = Idle => new.op = "idle"
    BY IdleIs
  <2> QED
    BY <2>1, <2>2, <2>3, <2>5, <2>6, <2>7, <2>8, <2>9 DEF q
<1> QED
  BY <1>1, <1>2, IdleTyped

-----------------------------------------------------------------------------
(* Queues. *)

(***************************************************************************)
(* Leaving a queue takes no lock from anyone else, and gives none back.    *)
(***************************************************************************)
LEMMA WithoutIs ==
    ASSUME NEW q \in Seq(Sessions), IsInjective(q), NEW s \in Sessions
    PROVE  /\ Without(q, s) \in Seq(Sessions) /\ IsInjective(Without(q, s))
           /\ ToSet(Without(q, s)) = ToSet(q) \ {s}
           /\ q # <<>> /\ Head(q) # s => Without(q, s) # <<>> /\ Head(Without(q, s)) = Head(q)
<1>1. CASE s \notin ToSet(q)
  BY <1>1 DEF Without, ToSet
<1>2. CASE s \in ToSet(q)
  <2> DEFINE k == CHOOSE i \in DOMAIN q : q[i] = s
             left == SubSeq(q, 1, k - 1)
             right == SubSeq(q, k + 1, Len(q))
             rest == left \o right
             n == Len(q)
  <2>1. k \in 1 .. n /\ q[k] = s /\ n \in Nat
    BY <1>2 DEF ToSet
  <2>2. Without(q, s) = rest
    BY <1>2 DEF Without, RemoveAt
  <2> HIDE DEF k
  <2>3. /\ left \in Seq(Sessions) /\ Len(left) = k - 1 /\ \A i \in 1 .. k - 1 : left[i] = q[i]
    BY <2>1
  <2>4. /\ right \in Seq(Sessions) /\ Len(right) = n - k
        /\ \A i \in 1 .. n - k : right[i] = q[i + k]
    BY <2>1
  <2> HIDE DEF left, right
  <2>5. /\ rest \in Seq(Sessions) /\ Len(rest) = n - 1
        /\ \A i \in 1 .. n - 1 : rest[i] = IF i < k THEN q[i] ELSE q[i + 1]
    <3>1. rest \in Seq(Sessions) /\ Len(rest) = n - 1
      <4>1. rest \in Seq(Sessions) /\ Len(rest) = Len(left) + Len(right)
        BY <2>3, <2>4, ConcatProperties
      <4> QED
        BY <2>1, <2>3, <2>4, <4>1
    <3>2. ASSUME NEW i \in 1 .. n - 1, i < k PROVE rest[i] = q[i]
      BY <2>1, <2>3, <2>4, <3>2
    <3>3. ASSUME NEW i \in 1 .. n - 1, ~(i < k) PROVE rest[i] = q[i + 1]
      <4>1. rest[i] = right[i - (k - 1)]
        BY <2>1, <2>3, <2>4, <3>3
      <4>2. i - (k - 1) \in 1 .. n - k /\ i - (k - 1) + k = i + 1
        BY <2>1, <3>3
      <4> QED
        BY <2>4, <4>1, <4>2
    <3> QED
      BY <3>1, <3>2, <3>3
  <2> HIDE DEF rest
  <2>6. \A i, j \in 1 .. n : q[i] = q[j] => i = j
    BY DEF IsInjective
  <2>7. IsInjective(rest)
    <3>1. \A i, j \in 1 .. n - 1 : rest[i] = rest[j] => i = j
      BY <2>1, <2>5, <2>6
    <3> QED
      BY <2>5, <3>1 DEF IsInjective
  <2>8. ToSet(rest) = ToSet(q) \ {s}
    <3>1. ASSUME NEW i \in 1 .. n - 1 PROVE rest[i] \in ToSet(q) \ {s}
      BY <2>1, <2>5, <2>6 DEF ToSet
    <3>2. ASSUME NEW i \in 1 .. n, q[i] # s PROVE q[i] \in ToSet(rest)
      <4>1. CASE i < k
        BY <2>1, <2>5, <4>1 DEF ToSet
      <4>2. CASE i > k
        <5>1. i - 1 \in 1 .. n - 1 /\ rest[i - 1] = q[i]
          BY <2>1, <2>5, <4>2
        <5> QED
          BY <2>5, <5>1 DEF ToSet
      <4> QED
        BY <2>1, <3>2, <4>1, <4>2
    <3>3. ToSet(rest) \subseteq ToSet(q) \ {s}
      BY <2>5, <3>1 DEF ToSet
    <3>4. ToSet(q) \ {s} \subseteq ToSet(rest)
      BY <3>2 DEF ToSet
    <3> QED
      BY <3>3, <3>4
  <2>9. q # <<>> /\ Head(q) # s => rest # <<>> /\ Head(rest) = Head(q)
    BY <2>1, <2>5
  <2> QED
    BY <2>2, <2>5, <2>7, <2>8, <2>9
<1> QED
  BY <1>1, <1>2

LEMMA ReleasedIs ==
    ASSUME TypeOK, NEW s \in Sessions, queue' = Released(s)
    PROVE  /\ queue' \in [Locks -> Seq(Sessions)] /\ \A l \in Locks : IsInjective(queue'[l])
           /\ \A t \in Sessions, l \in Locks :
                 /\ Asked(t, l)' <=> Asked(t, l) /\ t # s
                 /\ First(t, l) /\ t # s => First(t, l)'
<1>1. \A l \in Locks : queue[l] \in Seq(Sessions) /\ IsInjective(queue[l])
  BY DEF TypeOK
<1>2. queue' = [l \in Locks |-> Without(queue[l], s)]
  BY DEF Released
<1>3. ASSUME NEW l \in Locks
      PROVE  /\ queue'[l] \in Seq(Sessions) /\ IsInjective(queue'[l])
             /\ \A t \in Sessions : /\ Asked(t, l)' <=> Asked(t, l) /\ t # s
                                    /\ First(t, l) /\ t # s => First(t, l)'
  <2> DEFINE q == queue[l]
             less == Without(q, s)
  <2>1. /\ less \in Seq(Sessions) /\ IsInjective(less) /\ ToSet(less) = ToSet(q) \ {s}
        /\ q # <<>> /\ Head(q) # s => less # <<>> /\ Head(less) = Head(q)
    BY <1>1, WithoutIs
  <2>2. queue'[l] = less
    BY <1>2
  <2> HIDE DEF less
  <2> QED
    BY <2>1, <2>2 DEF Asked, First
<1> QED
  BY <1>2, <1>3

(***************************************************************************)
(* Who was first for a lock and still is, still has it, if it asks for it  *)
(* as before and no one has come to share it.                              *)
(***************************************************************************)
LEMMA HoldsOn ==
    ASSUME NEW t \in Sessions, NEW l, Holds(t, l), First(t, l)',
           Found(t, "missing") => Found(t, "missing")',
           \A u \in Sessions \ {t} : u \in Sharers(l)' => u \in Sharers(l)
    PROVE  Holds(t, l)'
  BY DEF Holds, Sharers

LEMMA LeavingKeeps ==
    ASSUME TypeOK, NEW s \in Sessions, queue' = Released(s), req'[s].found # "shared",
           \A t \in Sessions \ {s} : Follows(req'[t], req[t])
    PROVE  \A t \in Sessions, l \in Locks : Holds(t, l) /\ t # s => Holds(t, l)'
<1> SUFFICES ASSUME NEW t \in Sessions, NEW l \in Locks, Holds(t, l), t # s
             PROVE  Holds(t, l)'
  OBVIOUS
<1>1. First(t, l)'
  BY ReleasedIs DEF Holds
<1>2. Found(t, "missing") => Found(t, "missing")'
  BY DEF Found, Follows
<1>3. \A u \in Sessions : u \in Sharers(l)' => u \in Sharers(l)
  BY DEF Sharers, Found, Follows
<1> QED
  BY <1>1, <1>2, <1>3, HoldsOn

LEMMA AskedIs ==
    ASSUME TypeOK, NEW s \in Sessions, NEW l \in Locks, ~Asked(s, l),
           queue' = [queue EXCEPT ![l] = Append(@, s)]
    PROVE  /\ queue' \in [Locks -> Seq(Sessions)] /\ \A k \in Locks : IsInjective(queue'[k])
           /\ \A t \in Sessions, k \in Locks :
                 /\ Asked(t, k)' <=> Asked(t, k) \/ (t = s /\ k = l)
                 /\ First(t, k) => First(t, k)'
<1>1. \A k \in Locks : queue[k] \in Seq(Sessions) /\ IsInjective(queue[k])
  BY DEF TypeOK
<1> DEFINE q == queue[l]
           longer == Append(q, s)
<1>2. q \in Seq(Sessions) /\ s \notin ToSet(q) /\ IsInjective(q)
  BY <1>1 DEF Asked
<1>3. queue' = [queue EXCEPT ![l] = longer]
  OBVIOUS
<1> HIDE DEF q
<1>4. /\ longer \in Seq(Sessions) /\ Len(longer) = Len(q) + 1 /\ longer[Len(q) + 1] = s
      /\ \A i \in 1 .. Len(q) : longer[i] = q[i]
  BY <1>2
<1>5. ToSet(longer) = ToSet(q) \cup {s}
  BY <1>2, <1>4 DEF ToSet
<1>6. IsInjective(longer)
  BY <1>2, <1>4 DEF IsInjective, ToSet
<1>7. q # <<>> => longer # <<>> /\ Head(longer) = Head(q)
  BY <1>2, <1>4
<1> HIDE DEF longer
<1>8. queue \in [Locks -> Seq(Sessions)]
  BY DEF TypeOK
<1>9. queue'[l] = longer /\ \A k \in Locks \ {l} : queue'[k] = queue[k]
  BY <1>3, <1>8
<1>10. queue' \in [Locks -> Seq(Sessions)] /\ \A k \in Locks : IsInjective(queue'[k])
  BY <1>1, <1>3, <1>4, <1>6, <1>8, <1>9
<1>11. ASSUME NEW t \in Sessions, NEW k \in Locks
       PROVE  /\ Asked(t, k)' <=> Asked(t, k) \/ (t = s /\ k = l)
              /\ First(t, k) => First(t, k)'
  <2>1. CASE k = l
    BY <1>5, <1>7, <1>9, <2>1 DEF Asked, First, q
  <2>2. CASE k # l
    BY <1>9, <2>2 DEF Asked, First
  <2> QED
    BY <2>1, <2>2
<1> QED
  BY <1>10, <1>11

-----------------------------------------------------------------------------
(* Transactions. *)

LEMMA RoomLeft ==
    ASSUME Typed
    PROVE  IsFiniteSet(Creating) /\ Cardinality(Creating) \in Nat /\ Len(semesters) <= MaxSemesters
<1>1. Creating \in SUBSET Sessions
  BY DEF Creating
<1>2. IsFiniteSet(Creating)
  BY <1>1, FS_Subset, ConstantsAssumption
<1>3. Cardinality(Creating) \in Nat
  BY <1>2, FS_CardinalityType
<1> QED
  BY <1>2, <1>3, ConstantsAssumption DEF Typed, TypeOK

LEMMA StandingDownIs ==
    ASSUME Typed, NEW s \in Sessions, req[s].op \in SemesterOps
    PROVE  StandingDown(req[s]) \in Seq(Rows)
<1>1. /\ req[s].rows \in Nat /\ req[s].rows <= MaxSemesters
      /\ req[s].semester \in 0 .. MaxSemesters
      /\ MaxSemesters \in Nat
  <2>1. req[s].rows \in Nat /\ req[s].rows <= Len(semesters) /\ req[s].semester \in Nat
    BY RequestTyped DEF Shaped, Request
  <2>2. req[s].semester \in DOMAIN semesters \/ req[s].semester = 0
    BY RequestTyped DEF Shaped, SemesterOps
  <2> QED
    BY <2>1, <2>2, RoomLeft, ConstantsAssumption DEF Typed, TypeOK
<1>2. \A i \in 1 .. req[s].rows :
         (IF req[s].semester = 0 \/ i < req[s].semester THEN i
          ELSE IF i < req[s].rows THEN i + 1 ELSE req[s].semester) \in Rows
  BY <1>1 DEF Rows
<1> QED
  BY <1>1, <1>2 DEF StandingDown

(***************************************************************************)
(* Every transaction locks the chain; the one that takes a number locks    *)
(* its counter first, and no other locks a counter.                        *)
(***************************************************************************)
LEMMA PlanIs ==
    ASSUME Typed, NEW s \in Sessions, req[s].op # "idle"
    PROVE  /\ Plan(req[s]) \in Seq(Wanted(req[s])) /\ Wanted(req[s]) \subseteq Locks
           /\ \E i \in DOMAIN Plan(req[s]) : Plan(req[s])[i] = Chain
           /\ req[s].op \in NumberOps => Plan(req[s]) = <<req[s].partition, Chain>>
<1> DEFINE q == req[s]
           W == Wanted(q)
<1>1. q \in Request /\ q.op \in NumberOps \cup SemesterOps \cup {"note"}
  <2>1. q \in Request
    BY RequestTyped
  <2> QED
    BY <2>1 DEF Request, Ops
<1>2. q.partition \in Partitions
  BY <1>1 DEF Request
<1>3. Chain \in W /\ W \subseteq Locks
  BY <1>1, <1>2 DEF Wanted, Locks, NumberOps, SemesterOps
<1>4. CASE q.op \in NumberOps
  <2>1. Plan(q) = <<q.partition, Chain>>
    BY <1>4 DEF Plan, NumberOps
  <2>2. q.partition \in W
    BY <1>4 DEF Wanted, NumberOps, SemesterOps
  <2> QED
    BY <1>3, <2>1, <2>2
<1>5. CASE q.op = "note"
  <2>1. Plan(q) = <<Chain>>
    BY <1>5 DEF Plan, NumberOps
  <2> QED
    BY <1>3, <1>5, <2>1 DEF NumberOps
<1>6. CASE q.op \in SemesterOps
  <2> DEFINE sd == StandingDown(q)
  <2>1. q.op \notin NumberOps /\ W = Rows \cup {Chain}
    BY <1>6 DEF Wanted, NumberOps, SemesterOps
  <2>2. sd \in Seq(W)
    <3>1. sd \in Seq(Rows)
      BY <1>6, StandingDownIs
    <3> QED
      BY <2>1, <3>1
  <2> HIDE DEF sd
  <2>3. <<Chain>> \in Seq(W) /\ Len(<<Chain>>) = 1 /\ <<Chain>>[1] = Chain
    BY <2>1
  <2>4. <<Chain>> \o sd \in Seq(W) /\ sd \o <<Chain>> \in Seq(W)
    BY <2>2, <2>3, ConcatProperties
  <2>5. /\ 1 \in DOMAIN (<<Chain>> \o sd) /\ (<<Chain>> \o sd)[1] = Chain
        /\ Len(sd) + 1 \in DOMAIN (sd \o <<Chain>>) /\ (sd \o <<Chain>>)[Len(sd) + 1] = Chain
    BY <2>2, <2>3, <2>4, ConcatProperties
  <2> DEFINE plan == Plan(q)
             Good(p) == p \in Seq(W) /\ \E i \in DOMAIN p : p[i] = Chain
  <2>9. Good(<<Chain>> \o sd) /\ Good(sd \o <<Chain>>) /\ Good(<<Chain>>)
    BY <2>3, <2>4, <2>5
  <2> SUFFICES Good(plan)
    BY <1>3, <2>1
  <2>6. CASE q.op = "activate"
    <3>1. plan = sd \o <<Chain>>
      BY <2>6 DEF Plan, NumberOps, sd
    <3> QED
      BY <2>9, <3>1
  <2>7. CASE q.op = "create"
    <3>1. plan = <<Chain>> \o sd \/ plan = <<Chain>>
      BY <2>7 DEF Plan, NumberOps, sd
    <3> QED
      BY <2>9, <3>1
  <2>8. CASE q.op = "edit"
    <3> DEFINE both == <<q.semester, Chain>>
               more == IF q.current /\ ~q.loaded THEN sd ELSE <<>>
    <3>1. plan = both \o more
      BY <2>8 DEF Plan, NumberOps, sd
    <3>2. q.semester \in W
      <4>1. q.semester \in DOMAIN semesters
        BY <2>8, RequestTyped DEF Shaped
      <4> QED
        BY <2>1, <4>1, RoomLeft, ConstantsAssumption DEF Typed, TypeOK, Rows
    <3>3. both \in Seq(W) /\ Len(both) = 2 /\ both[2] = Chain
      BY <2>1, <3>2
    <3>4. more \in Seq(W)
      <4>1. more = sd \/ more = <<>>
        OBVIOUS
      <4>2. <<>> \in Seq(W)
        OBVIOUS
      <4> HIDE DEF more, W
      <4> QED
        BY <2>2, <4>1, <4>2
    <3> HIDE DEF both, more
    <3>5. both \o more \in Seq(W) /\ 2 \in DOMAIN (both \o more) /\ (both \o more)[2] = Chain
      BY <3>3, <3>4, ConcatProperties
    <3>6. Good(both \o more)
      BY <3>5
    <3> QED
      BY <3>1, <3>6
  <2> QED
    BY <1>6, <2>6, <2>7, <2>8 DEF SemesterOps
<1> QED
  BY <1>1, <1>3, <1>4, <1>5, <1>6

(***************************************************************************)
(* Who is about to commit has the last row of the chain.                   *)
(***************************************************************************)
LEMMA CompleteIs ==
    ASSUME Typed, NEW s \in Sessions, Complete(s)
    PROVE  /\ req[s].op # "idle" /\ Holds(s, Chain) /\ req[s].link # -1
           /\ req[s].op \in NumberOps => req[s].number # 0
<1>1. /\ req[s].op # "idle" /\ ~Waiting(s) /\ Unasked(s) = {}
      /\ Holds(s, Chain) => req[s].link # -1
      /\ req[s].op \in NumberOps /\ Holds(s, req[s].partition) => req[s].number # 0
  BY RequestTyped DEF Complete, Ready, Free
<1>2. Asked(s, Chain) /\ (req[s].op \in NumberOps => Asked(s, req[s].partition))
  BY <1>1, PlanIs DEF Unasked
<1>3. Chain \in Locks /\ req[s].partition \in Locks
  <2>1. req[s].partition \in Partitions
    BY RequestTyped DEF Request
  <2> QED
    BY <2>1 DEF Locks
<1> QED
  BY <1>1, <1>2, <1>3 DEF Waiting

(***************************************************************************)
(* Raising a semester changes nothing but who is current.                  *)
(***************************************************************************)
LEMMA RaisedIs ==
    ASSUME NEW rows \in Seq(Semester), NEW m
    PROVE  /\ Raised(rows, m) \in Seq(Semester) /\ Len(Raised(rows, m)) = Len(rows)
           /\ \A n \in DOMAIN rows : /\ Raised(rows, m)[n].key = rows[n].key
                                     /\ Raised(rows, m)[n].active = (n = m)
<1> DEFINE up(n) == [rows[n] EXCEPT !.active = n = m]
<1>1. ASSUME NEW n \in DOMAIN rows
      PROVE  up(n) \in Semester /\ up(n).key = rows[n].key /\ up(n).active = (n = m)
  <2> DEFINE row == rows[n]
             now == n = m
             new == [row EXCEPT !.active = now]
  <2>1. row \in Semester /\ now \in BOOLEAN
    OBVIOUS
  <2> HIDE DEF row, now
  <2>2. new \in Semester
    BY <2>1 DEF Semester
  <2>3. new.key = row.key
    BY <2>1 DEF Semester
  <2>4. new.active = now
    BY <2>1 DEF Semester
  <2> QED
    BY <2>2, <2>3, <2>4 DEF row, now
<1>2. Raised(rows, m) = [n \in 1 .. Len(rows) |-> up(n)] /\ DOMAIN rows = 1 .. Len(rows) /\ Len(rows) \in Nat
  BY DEF Raised
<1> HIDE DEF up
<1> QED
  BY <1>1, <1>2

(***************************************************************************)
(* What a transaction makes of the semesters.                              *)
(***************************************************************************)
LEMMA SavedIs ==
    ASSUME Typed, NEW s \in Sessions
    PROVE  LET r == req[s]
               rows == Saved(r)
           IN  /\ rows \in Seq(Semester)
               /\ Len(rows) = IF r.op = "create" THEN Len(semesters) + 1 ELSE Len(semesters)
               /\ r.op \notin SemesterOps => rows = semesters
               /\ \A m \in DOMAIN semesters :
                     IF r.op \in {"edit", "activate"} /\ m = r.semester
                     THEN rows[m].key = r.partition ELSE rows[m].key = semesters[m].key
               /\ \/ \E m \in DOMAIN rows : rows[m].active
                  \/ \A m \in DOMAIN semesters :
                        IF r.op = "edit" /\ m = r.semester
                        THEN rows[m].active = r.loaded ELSE rows[m].active = semesters[m].active
<1> DEFINE r == req[s]
           own == [key |-> r.partition, active |-> r.loaded]
           longer == Append(semesters, own)
           edited == [semesters EXCEPT ![r.semester] = own]
<1>1. r \in Request /\ Shaped(r) /\ semesters \in Seq(Semester) /\ Len(semesters) \in Nat
  BY RequestTyped DEF Typed, TypeOK
<1>2. CASE r.op \notin SemesterOps
  <2>1. Saved(r) = semesters
    BY <1>2 DEF Saved, SemesterOps
  <2> QED
    BY <1>1, <1>2, <2>1 DEF SemesterOps
<1>3. CASE r.op \in SemesterOps
  <2>1. r.partition \in Keys
    BY <1>1, <1>3 DEF Shaped
  <2>2. r.loaded \in BOOLEAN
    BY <1>1 DEF Request
  <2>3. own \in Semester /\ own.key = r.partition
    BY <2>1, <2>2 DEF Semester
  <2>4. own.active = r.loaded
    OBVIOUS
  <2> HIDE DEF own
  <2>5. /\ longer \in Seq(Semester) /\ Len(longer) = Len(semesters) + 1
        /\ \A m \in DOMAIN semesters : longer[m] = semesters[m]
    BY <1>1, <2>3, AppendProperties
  <2>6. /\ edited \in Seq(Semester) /\ Len(edited) = Len(semesters)
        /\ \A m \in DOMAIN semesters : edited[m] = IF m = r.semester THEN own ELSE semesters[m]
    <3> DEFINE k == r.semester
    <3> HIDE DEF k
    <3>1. edited = [semesters EXCEPT ![k] = own]
      BY DEF k
    <3> HIDE DEF edited
    <3>2. /\ edited \in Seq(Semester) /\ Len(edited) = Len(semesters)
          /\ \A m \in DOMAIN semesters : edited[m] = IF m = k THEN own ELSE semesters[m]
      <4>1. CASE k \in 1 .. Len(semesters)
        BY <1>1, <2>3, <3>1, <4>1, ExceptSeq
      <4>2. CASE k \notin 1 .. Len(semesters)
        <5>1. edited = semesters
          BY <1>1, <3>1, <4>2
        <5> QED
          BY <1>1, <4>2, <5>1
      <4> QED
        BY <4>1, <4>2
    <3> QED
      BY <3>2 DEF k
  <2> DEFINE raisedLonger == Raised(longer, Len(longer))
             raisedEdited == Raised(edited, r.semester)
             saved == Saved(r)
             Kept(rows) == \A m \in DOMAIN semesters : rows[m].key = semesters[m].key
             Rekeyed(rows) == \A m \in DOMAIN semesters :
                                 rows[m].key = IF m = r.semester THEN r.partition ELSE semesters[m].key
  <2> HIDE DEF longer, edited
  <2>7. CASE r.op = "create"
    <3>1. saved = IF r.current THEN raisedLonger ELSE longer
      BY <2>7 DEF Saved, longer, own
    <3>2. CASE r.current
      <4>1. /\ saved \in Seq(Semester) /\ Len(saved) = Len(semesters) + 1
            /\ \A n \in DOMAIN longer : /\ saved[n].key = longer[n].key
                                        /\ saved[n].active = (n = Len(longer))
        BY <2>5, <3>1, <3>2, RaisedIs
      <4>2. Kept(saved)
        BY <1>1, <2>5, <4>1
      <4>3. Len(longer) \in DOMAIN longer /\ Len(longer) \in DOMAIN saved
        BY <1>1, <2>5, <4>1
      <4>4. \E m \in DOMAIN saved : saved[m].active
        BY <4>1, <4>3
      <4> HIDE DEF saved
      <4> QED
        BY <1>3, <2>7, <4>1, <4>2, <4>4 DEF saved
    <3>3. CASE ~r.current
      <4>1. saved = longer
        BY <3>1, <3>3
      <4> HIDE DEF saved
      <4> QED
        BY <1>3, <2>5, <2>7, <4>1 DEF saved
    <3> QED
      BY <3>2, <3>3
  <2>8. CASE r.op \in {"edit", "activate"}
    <3>1. r.semester \in DOMAIN semesters
      BY <1>1, <2>8 DEF Shaped
    <3>2. saved = raisedEdited \/ (r.op = "edit" /\ saved = edited)
      BY <2>8 DEF Saved, edited, own
    <3>3. CASE saved = raisedEdited
      <4>1. /\ saved \in Seq(Semester) /\ Len(saved) = Len(semesters)
            /\ \A n \in DOMAIN edited : /\ saved[n].key = edited[n].key
                                        /\ saved[n].active = (n = r.semester)
        BY <2>6, <3>3, RaisedIs
      <4>2. Rekeyed(saved)
        BY <1>1, <2>3, <2>6, <4>1
      <4>3. r.semester \in DOMAIN edited /\ r.semester \in DOMAIN saved
        BY <1>1, <2>6, <3>1, <4>1
      <4>4. \E m \in DOMAIN saved : saved[m].active
        BY <4>1, <4>3
      <4> HIDE DEF saved
      <4> QED
        BY <1>3, <2>8, <4>1, <4>2, <4>4 DEF saved
    <3>4. CASE r.op = "edit" /\ saved = edited
      <4>1. Rekeyed(edited)
        BY <2>3, <2>6
      <4>2. \A m \in DOMAIN semesters :
               IF m = r.semester THEN edited[m].active = r.loaded
               ELSE edited[m].active = semesters[m].active
        BY <2>4, <2>6
      <4> HIDE DEF saved
      <4> QED
        BY <1>3, <2>6, <3>4, <4>1, <4>2 DEF saved
    <3> QED
      BY <3>2, <3>3, <3>4
  <2> QED
    BY <1>3, <2>7, <2>8 DEF SemesterOps
<1> QED
  BY <1>2, <1>3

-----------------------------------------------------------------------------
(* Typed. *)

(***************************************************************************)
(* A step that leaves the semesters, and begins no creation of one.        *)
(***************************************************************************)
LEMMA StaysTyped ==
    ASSUME Typed, semesters' = semesters, TypeOK',
           \A s \in Sessions : Shaped(req[s])' /\ (req'[s].op = "idle" => req'[s] = Idle),
           \A s \in Sessions : req'[s].op = "create" => req[s].op = "create"
    PROVE  Typed'
<1>1. Creating' \in SUBSET Creating
  BY DEF Creating, Serving
<1>2. Cardinality(Creating') <= Cardinality(Creating) /\ Cardinality(Creating') \in Nat
  BY <1>1, RoomLeft, FS_Subset, FS_CardinalityType
<1>3. Len(semesters) \in Nat /\ MaxSemesters \in Nat
  BY ConstantsAssumption DEF Typed, TypeOK
<1>4. Len(semesters') + Cardinality(Creating') <= MaxSemesters
  BY <1>2, <1>3, RoomLeft DEF Typed
<1> QED
  BY <1>4 DEF Typed, Free

LEMMA IdleShaped ==
    ASSUME Typed
    PROVE  Shaped(Idle)
  BY IdleIs, ConstantsAssumption DEF Shaped, NumberOps, SemesterOps, Typed, TypeOK

LEMMA BeginTyped ==
    ASSUME Typed, NEW s \in Sessions, NEW new, Begin(s, new), Fresh(new)
    PROVE  Typed'
<1>1. /\ req' = [req EXCEPT ![s] = new] /\ req \in [Sessions -> Request] /\ new \in Request
      /\ req[s].op = "idle" /\ new.op # "idle"
      /\ UNCHANGED <<counter, issued, chain, semesters, queue>>
  BY IdleIs DEF Begin, Free, Fresh, data, Typed, TypeOK
<1>2. TypeOK'
  BY <1>1 DEF Typed, TypeOK
<1>3. req'[s] = new /\ \A t \in Sessions \ {s} : req'[t] = req[t]
  BY <1>1
<1>4. \A t \in Sessions : Shaped(req[t])' /\ (req'[t].op = "idle" => req'[t] = Idle)
  BY <1>1, <1>3, RequestTyped DEF Fresh, Shaped
<1>5. CASE new.op # "create"
  BY <1>1, <1>2, <1>3, <1>4, <1>5, StaysTyped
<1>6. CASE new.op = "create"
  <2>1. Creating' = Creating \cup {s} /\ s \notin Creating
    BY <1>1, <1>3, <1>6 DEF Creating, Serving
  <2>2. Cardinality(Creating') = Cardinality(Creating) + 1
    BY <2>1, RoomLeft, FS_AddElement
  <2>3. Len(semesters') + Cardinality(Creating') <= MaxSemesters
    BY <1>1, <1>6, <2>2, RoomLeft, ConstantsAssumption DEF Fresh, Typed, TypeOK
  <2> QED
    BY <1>2, <1>4, <2>3 DEF Typed, Free
<1> QED
  BY <1>5, <1>6

LEMMA EndTyped ==
    ASSUME Typed, NEW s \in Sessions, End(s)
    PROVE  Typed'
<1>1. /\ req' = [req EXCEPT ![s] = Idle] /\ req \in [Sessions -> Request]
      /\ queue' = Released(s) /\ UNCHANGED <<counter, issued, chain, semesters>>
  BY DEF End, data, Typed, TypeOK
<1>2. req'[s] = Idle /\ \A t \in Sessions \ {s} : req'[t] = req[t]
  BY <1>1
<1>3. TypeOK'
  BY <1>1, ReleasedIs, IdleTyped DEF Typed, TypeOK
<1>4. \A t \in Sessions : Shaped(req[t])' /\ (req'[t].op = "idle" => req'[t] = Idle)
  BY <1>1, <1>2, RequestTyped, IdleShaped DEF Shaped
<1> QED
  BY <1>1, <1>2, <1>3, <1>4, StaysTyped, IdleIs

LEMMA RetryTyped ==
    ASSUME Typed, NEW s \in Sessions, Again(s), Aborted(s)
    PROVE  Typed'
<1>1. TypeOK'
  BY RetryNoted, ReleasedIs DEF data, Typed, TypeOK
<1>2. Shaped(req[s])'
  BY RetryNoted, RequestTyped, ConstantsAssumption DEF data, Shaped, Follows
<1>3. \A t \in Sessions : Shaped(req[t])' /\ (req'[t].op = "idle" => req'[t] = Idle)
  BY <1>2, RetryNoted, RequestTyped DEF data, Shaped, Follows, Again, Serving
<1> QED
  BY <1>1, <1>3, RetryNoted, StaysTyped DEF data, Follows

LEMMA EnsureTyped ==
    ASSUME Typed, NEW s \in Sessions, EnsureSequence(s)
    PROVE  Typed'
<1>1. counter' \in [Partitions -> 0 .. MaxValue]
  <2>1. counter' = [counter EXCEPT ![req[s].partition] = 1]
    BY DEF EnsureSequence
  <2>2. counter \in [Partitions -> 0 .. MaxValue] /\ 1 \in 0 .. MaxValue
    BY ConstantsAssumption DEF Typed, TypeOK
  <2> QED
    BY <2>1, <2>2
<1>2. UNCHANGED <<issued, chain, semesters, queue, req>>
  BY DEF EnsureSequence
<1>3. TypeOK'
  BY <1>1, <1>2 DEF Typed, TypeOK
<1> QED
  BY <1>2, <1>3, RequestTyped, StaysTyped DEF Shaped

LEMMA FoundTyped ==
    ASSUME Typed, NEW s \in Sessions, NEW f \in {"missing", "shared", "there"},
           req' = [req EXCEPT ![s].found = f], req[s].op = "issue", UNCHANGED data,
           queue' \in [Locks -> Seq(Sessions)], \A l \in Locks : IsInjective(queue'[l])
    PROVE  Typed'
<1>1. TypeOK'
  BY FoundNoted DEF data, Typed, TypeOK
<1>2. Shaped(req[s])'
  BY FoundNoted, RequestTyped DEF data, Shaped, NumberOps, SemesterOps
<1>3. \A t \in Sessions : Shaped(req[t])' /\ (req'[t].op = "idle" => req'[t] = Idle)
  BY <1>2, FoundNoted, RequestTyped DEF data, Shaped
<1> QED
  BY <1>1, <1>3, FoundNoted, StaysTyped DEF data

LEMMA LookIs ==
    ASSUME Typed, NEW s \in Sessions, Look(s)
    PROVE  /\ req[s].op = "issue" /\ UNCHANGED <<counter, issued, chain, semesters, queue>>
           /\ \E f \in {"missing", "there"} : req' = [req EXCEPT ![s].found = f]
<1>1. req[s].op = "issue"
  BY RequestTyped DEF Look, Found, Shaped
<1> QED
  BY <1>1 DEF Look, data

LEMMA NumberWants ==
    ASSUME NEW q, q.op \in NumberOps
    PROVE  Wanted(q) = {q.partition, Chain}
  BY DEF Wanted, NumberOps, SemesterOps

(***************************************************************************)
(* Who inserts the row of a counter has asked for nothing yet.             *)
(***************************************************************************)
LEMMA InsertIs ==
    ASSUME Typed, LocksOrdered, Taken, NEW s \in Sessions, Insert(s)
    PROVE  /\ req[s].op = "issue" /\ UNCHANGED <<counter, issued, chain, semesters>>
           /\ req' = [req EXCEPT ![s].found = "there"]
           /\ queue' = [queue EXCEPT ![req[s].partition] = Append(@, s)]
           /\ \A l \in Locks : ~Asked(s, l)
<1>1. /\ req[s].op = "issue" /\ req[s].found = "missing" /\ queue[req[s].partition] = <<>>
  BY RequestTyped DEF Insert, Inserts, Found, Shaped
<1>2. ~Asked(s, req[s].partition) /\ req[s].number = 0
  BY <1>1 DEF Asked, ToSet, Taken, HasTaken
<1>3. \A l \in Locks : ~Asked(s, l)
  BY <1>1, <1>2, NumberWants DEF LocksOrdered, NumberOps
<1> QED
  BY <1>1, <1>3 DEF Insert, data

(***************************************************************************)
(* Who comes to share the lock of a counter has asked for no other.        *)
(***************************************************************************)
LEMMA ShareIs ==
    ASSUME Typed, LocksOrdered, Taken, NEW s \in Sessions, Share(s)
    PROVE  /\ req[s].op = "issue" /\ req[s].found = "missing"
           /\ UNCHANGED <<counter, issued, chain, semesters>>
           /\ req' = [req EXCEPT ![s].found = "shared"]
           /\ queue' \in [Locks -> Seq(Sessions)] /\ \A l \in Locks : IsInjective(queue'[l])
           /\ \A l \in Locks : ~Asked(s, l)'
           /\ \A t \in Sessions, l \in Locks :
                 t # s => (Asked(t, l)' <=> Asked(t, l)) /\ (First(t, l) => First(t, l)')
<1>1. /\ req[s].op = "issue" /\ req[s].found = "missing" /\ First(s, req[s].partition)
      /\ UNCHANGED <<counter, issued, chain, semesters>>
      /\ req' = [req EXCEPT ![s].found = "shared"]
      /\ queue' = [queue EXCEPT ![req[s].partition] = Tail(@)]
  BY RequestTyped DEF Share, Found, Shaped, data
<1>2. req[s].number = 0
  BY <1>1 DEF Taken, HasTaken
<1>3. \A l \in Locks : Asked(s, l) => l = req[s].partition
  BY <1>1, <1>2, NumberWants DEF LocksOrdered, NumberOps
<1>4. PICK p \in Locks : p = req[s].partition
  BY RequestTyped DEF Request, Locks
<1> DEFINE q == queue[p]
           rest == Tail(q)
<1>5. q \in Seq(Sessions) /\ IsInjective(q) /\ q # <<>> /\ Head(q) = s
  BY <1>1, <1>4 DEF First, Typed, TypeOK
<1>6. queue' = [queue EXCEPT ![p] = rest] /\ queue \in [Locks -> Seq(Sessions)]
      /\ \A l \in Locks : IsInjective(queue[l])
  BY <1>1, <1>4 DEF Typed, TypeOK
<1> HIDE DEF q
<1>7. /\ rest \in Seq(Sessions) /\ Len(rest) = Len(q) - 1 /\ Len(q) \in Nat \ {0}
      /\ \A i \in 1 .. Len(q) - 1 : rest[i] = q[i + 1]
  BY <1>5
<1>8. \A i, j \in 1 .. Len(q) : q[i] = q[j] => i = j
  BY <1>5 DEF IsInjective
<1>9. q[1] = s
  BY <1>5
<1> HIDE DEF rest
<1>10. IsInjective(rest)
  <2>1. \A i, j \in 1 .. Len(q) - 1 : rest[i] = rest[j] => i = j
    BY <1>7, <1>8
  <2> QED
    BY <1>7, <2>1 DEF IsInjective
<1>11. ToSet(rest) = ToSet(q) \ {s}
  <2>1. ASSUME NEW i \in 1 .. Len(q) - 1 PROVE rest[i] \in ToSet(q) \ {s}
    BY <1>5, <1>7, <1>8, <1>9 DEF ToSet
  <2>2. ASSUME NEW i \in 1 .. Len(q), q[i] # s PROVE q[i] \in ToSet(rest)
    <3>1. i - 1 \in 1 .. Len(q) - 1 /\ rest[i - 1] = q[i]
      BY <1>7, <1>9, <2>2
    <3> QED
      BY <1>7, <3>1 DEF ToSet
  <2>3. ToSet(rest) \subseteq ToSet(q) \ {s}
    BY <1>7, <2>1 DEF ToSet
  <2>4. ToSet(q) \ {s} \subseteq ToSet(rest)
    BY <1>5, <2>2 DEF ToSet
  <2> QED
    BY <2>3, <2>4
<1>12. queue'[p] = rest /\ \A l \in Locks \ {p} : queue'[l] = queue[l]
  BY <1>6
<1>13. queue' \in [Locks -> Seq(Sessions)] /\ \A l \in Locks : IsInjective(queue'[l])
  BY <1>6, <1>7, <1>10, <1>12
<1>14. \A l \in Locks : ~Asked(s, l)'
  BY <1>3, <1>4, <1>11, <1>12 DEF Asked
<1>15. ASSUME NEW t \in Sessions, NEW l \in Locks, t # s
       PROVE  (Asked(t, l)' <=> Asked(t, l)) /\ (First(t, l) => First(t, l)')
  BY <1>5, <1>11, <1>12, <1>15 DEF Asked, First, q
<1> QED
  BY <1>1, <1>13, <1>14, <1>15

LEMMA AskTyped ==
    ASSUME Typed, NEW s \in Sessions, Ask(s)
    PROVE  Typed'
<1>1. PICK i \in Unasked(s) : queue' = [queue EXCEPT ![Plan(req[s])[i]] = Append(@, s)]
  BY DEF Ask
<1> DEFINE l == Plan(req[s])[i]
<1>2. l \in Locks /\ ~Asked(s, l)
  BY <1>1, PlanIs DEF Ask, Ready, Free, Unasked, Typed
<1>3. UNCHANGED <<counter, issued, chain, semesters, req>>
  BY DEF Ask, data
<1> HIDE DEF l
<1>4. TypeOK'
  BY <1>1, <1>2, <1>3, AskedIs DEF l, Typed, TypeOK
<1> QED
  BY <1>3, <1>4, RequestTyped, StaysTyped DEF Shaped

LEMMA NumberTyped ==
    ASSUME Typed, NEW s \in Sessions, NextNumber(s)
    PROVE  Typed'
<1>1. UNCHANGED <<counter, issued, chain, semesters, queue>>
  BY DEF NextNumber, data
<1>2. TypeOK'
  BY <1>1, NumberNoted DEF Typed, TypeOK
<1>3. NextValue(req[s].partition) < MaxValue /\ req[s].op \in NumberOps
  BY DEF NextNumber, TakesNumber
<1>4. Shaped(req[s])' /\ req[s].op # "idle"
  BY <1>1, <1>3, NumberNoted, RequestTyped DEF Shaped, Follows, NumberOps
<1>5. \A t \in Sessions : Shaped(req[t])' /\ (req'[t].op = "idle" => req'[t] = Idle)
  BY <1>1, <1>4, NumberNoted, RequestTyped DEF Shaped, Follows
<1> QED
  BY <1>1, <1>2, <1>5, NumberNoted, StaysTyped DEF Follows

LEMMA AuditTyped ==
    ASSUME Typed, LocksOrdered, NEW s \in Sessions, WriteAudit(s)
    PROVE  Typed'
<1>1. UNCHANGED <<counter, issued, chain, semesters, queue>>
  BY DEF WriteAudit, data
<1>2. TypeOK'
  BY <1>1, AuditNoted DEF Typed, TypeOK
<1>3. req[s].op # "idle"
  <2>1. Asked(s, Chain)
    BY DEF WriteAudit, Holds, First, Asked, ToSet, Typed, TypeOK, Locks
  <2> QED
    BY <2>1 DEF LocksOrdered, Wanted, Locks, NumberOps, SemesterOps
<1>4. Shaped(req[s])'
  <2>1. Len(chain) \in Nat
    BY DEF Typed, TypeOK
  <2> QED
    BY <1>1, <2>1, AuditNoted, RequestTyped DEF Shaped, Follows
<1>5. \A t \in Sessions : Shaped(req[t])' /\ (req'[t].op = "idle" => req'[t] = Idle)
  BY <1>1, <1>3, <1>4, AuditNoted, RequestTyped DEF Shaped, Follows
<1> QED
  BY <1>1, <1>2, <1>5, AuditNoted, StaysTyped DEF Follows

LEMMA CommitTyped ==
    ASSUME Typed, NEW s \in Sessions, Commit(s)
    PROVE  Typed'
<1> DEFINE r == req[s]
<1>1. /\ r \in Request /\ Shaped(r) /\ Complete(s) /\ Admitted(Saved(r))
      /\ semesters' = Saved(r) /\ chain' = Append(chain, r.link)
      /\ queue' = Released(s)
  BY RequestTyped DEF Commit
<1>2. /\ semesters' \in Seq(Semester) /\ Len(semesters) \in Nat
      /\ Len(semesters') = IF r.op = "create" THEN Len(semesters) + 1 ELSE Len(semesters)
  BY <1>1, SavedIs DEF Typed, TypeOK
<1>3. chain' \in Seq(Nat)
  <2>1. r.link \in Int /\ r.link >= -1 /\ r.link # -1
    BY <1>1, CompleteIs DEF Request, Shaped
  <2>2. r.link \in Nat
    BY <2>1
  <2> QED
    BY <1>1, <2>2 DEF Typed, TypeOK
<1>4. counter' \in [Partitions -> 0 .. MaxValue] /\ issued' \in [Partitions -> Seq(Number)]
  <2> DEFINE p == r.partition
             n == r.number
             entry == [number |-> n, semester |-> r.semester]
  <2>1. p \in Partitions /\ n \in Nat /\ n < MaxValue /\ entry \in Number
    BY <1>1 DEF Request, Shaped, Number
  <2>2. counter \in [Partitions -> 0 .. MaxValue] /\ issued \in [Partitions -> Seq(Number)]
    BY DEF Typed, TypeOK
  <2>3. CASE n = 0
    BY <2>2, <2>3 DEF Commit
  <2>4. CASE n # 0
    <3>1. /\ counter' = [counter EXCEPT ![p] = n + 1]
          /\ issued' = [issued EXCEPT ![p] = Append(@, entry)]
      BY <2>4 DEF Commit
    <3> HIDE DEF p, n, entry
    <3>2. n + 1 \in 0 .. MaxValue /\ Append(issued[p], entry) \in Seq(Number)
      BY <2>1, <2>2, ConstantsAssumption
    <3> QED
      BY <2>1, <2>2, <3>1, <3>2
  <2> QED
    BY <2>3, <2>4
<1>6. \A m, n \in DOMAIN semesters' : semesters'[m].active /\ semesters'[n].active => m = n
  BY <1>1 DEF Admitted
<1>7. TypeOK'
  BY <1>1, <1>2, <1>3, <1>4, <1>6, ReleasedIs, CommitNoted DEF Typed, TypeOK
<1>8. DOMAIN semesters \subseteq DOMAIN semesters'
  BY <1>2 DEF Typed, TypeOK
<1>9. \A t \in Sessions : Shaped(req[t])' /\ (req'[t].op = "idle" => req'[t] = Idle)
  <2>1. Len(semesters) <= Len(semesters')
    BY <1>2
  <2>2. ASSUME NEW t \in Sessions, t # s
        PROVE  Shaped(req[t])' /\ (req'[t].op = "idle" => req'[t] = Idle)
    <3>1. Shaped(req[t]) /\ req[t].rows \in Nat
      BY RequestTyped DEF Request
    <3> QED
      BY <1>2, <1>8, <2>1, <2>2, <3>1, CommitNoted DEF Shaped, Follows
  <2>3. Shaped(req[s])' /\ req'[s] = Idle
    BY <1>2, CommitNoted, IdleIs, ConstantsAssumption DEF Shaped, NumberOps, SemesterOps
  <2> QED
    BY <2>2, <2>3
<1>10. Len(semesters') + Cardinality(Creating') <= MaxSemesters
  <2>1. Creating' = Creating \ {s}
    BY CommitNoted, IdleIs DEF Creating, Serving, Follows
  <2>2. Cardinality(Creating') = IF s \in Creating THEN Cardinality(Creating) - 1
                                                   ELSE Cardinality(Creating)
    BY <2>1, RoomLeft, FS_RemoveElement
  <2>3. s \in Creating <=> r.op = "create"
    BY DEF Creating, Serving
  <2> QED
    BY <1>2, <2>2, <2>3, RoomLeft, ConstantsAssumption DEF Typed
<1> QED
  BY <1>7, <1>9, <1>10 DEF Typed, Free

-----------------------------------------------------------------------------
(* LocksOrdered and Taken. *)

LEMMA HoldsAsks ==
    ASSUME TypeOK, NEW s \in Sessions, NEW l \in Locks, Holds(s, l)
    PROVE  Asked(s, l)
<1>1. queue[l] \in Seq(Sessions) /\ queue[l] # <<>> /\ Head(queue[l]) = s
  BY DEF Holds, First, TypeOK
<1>2. 1 \in DOMAIN queue[l] /\ queue[l][1] = s
  BY <1>1
<1> QED
  BY <1>2 DEF Asked, ToSet

(***************************************************************************)
(* A lock has one holder.                                                  *)
(***************************************************************************)
LEMMA HolderIsOne ==
    ASSUME NEW s, NEW t, NEW l, Holds(s, l), Holds(t, l)
    PROVE  s = t
  BY DEF Holds, First

LEMMA OwnPartition ==
    ASSUME Typed, NEW s \in Sessions
    PROVE  /\ req[s].partition \in Partitions /\ req[s].partition \in Locks
           /\ Chain \in Locks /\ Chain \notin Partitions
<1>1. req[s].partition \in Partitions
  BY RequestTyped DEF Request
<1> QED
  BY <1>1, ConstantsAssumption DEF Locks

(***************************************************************************)
(* Only who takes a number has locked a counter, and only its own.         *)
(***************************************************************************)
LEMMA CounterIsOwn ==
    ASSUME NEW q, NEW p \in Partitions, p \in Wanted(q)
    PROVE  q.op \in NumberOps /\ p = q.partition
<1>1. p # Chain /\ p \notin Rows
  BY ConstantsAssumption
<1>2. CASE q.op \in NumberOps
  BY <1>1, <1>2 DEF Wanted, NumberOps, SemesterOps
<1>3. CASE q.op \notin NumberOps
  BY <1>1, <1>3 DEF Wanted, NumberOps, SemesterOps
<1> QED
  BY <1>2, <1>3

LEMMA IdleAsksNothing ==
    ASSUME LocksOrdered, NEW s \in Sessions, req[s].op = "idle", NEW l \in Locks
    PROVE  ~Asked(s, l)
  BY DEF LocksOrdered, Wanted, NumberOps, SemesterOps

LEMMA WantedAlike ==
    ASSUME NEW q, NEW r, Follows(q, r)
    PROVE  Wanted(q) = Wanted(r)
  BY DEF Wanted, Follows

(***************************************************************************)
(* Who keeps its locks, while nobody writes what they guard, keeps what it *)
(* has taken.                                                              *)
(***************************************************************************)
LEMMA TakenKeeps ==
    ASSUME Typed, NEW t \in Sessions, HasTaken(t),
           /\ req'[t].partition = req[t].partition /\ req'[t].found = req[t].found
           /\ req'[t].number = req[t].number /\ req'[t].link = req[t].link,
           \A l \in Locks : Holds(t, l) => Holds(t, l)',
           req[t].number # 0 => counter'[req[t].partition] = counter[req[t].partition],
           req[t].link # -1 => chain' = chain
    PROVE  HasTaken(t)'
<1>1. PICK p \in Locks : p = req[t].partition
  BY OwnPartition
<1>2. Chain \in Locks
  BY OwnPartition
<1>3. ASSUME req[t].number # 0
      PROVE  /\ Holds(t, p)' /\ req'[t].number = NextValue(p)'
             /\ req'[t].found \in {"shared", "there"}
  BY <1>1, <1>3 DEF HasTaken, NextValue
<1>4. ASSUME req[t].link # -1
      PROVE  Holds(t, Chain)' /\ req'[t].link = Len(chain')
  BY <1>2, <1>4 DEF HasTaken
<1> QED
  <2>1. req'[t].partition = p /\ req'[t].number = req[t].number /\ req'[t].link = req[t].link
    BY <1>1
  <2> QED
    BY <1>3, <1>4, <2>1 DEF HasTaken, Holds, First, Sharers, NextValue

LEMMA NothingTaken ==
    ASSUME NEW t \in Sessions, req'[t].number = 0, req'[t].link = -1
    PROVE  HasTaken(t)'
  BY DEF HasTaken

LEMMA BeginOrdered ==
    ASSUME Typed, LocksOrdered, Taken, NEW s \in Sessions, NEW new, Begin(s, new), Fresh(new)
    PROVE  LocksOrdered' /\ Taken'
<1>1. /\ req' = [req EXCEPT ![s] = new] /\ req \in [Sessions -> Request]
      /\ req[s].op = "idle" /\ UNCHANGED <<counter, issued, chain, queue>>
  BY IdleIs DEF Begin, Free, data, Typed, TypeOK
<1>2. req'[s] = new /\ \A t \in Sessions \ {s} : req'[t] = req[t]
  BY <1>1
<1>3. \A l \in Locks : ~Asked(s, l)
  BY <1>1, IdleAsksNothing
<1>4. Chain \in Locks
  BY DEF Locks
<1>7. \A t \in Sessions \ {s}, l \in Locks : Holds(t, l) => Holds(t, l)'
  <2> SUFFICES ASSUME NEW t \in Sessions \ {s}, NEW l \in Locks, Holds(t, l) PROVE Holds(t, l)'
    OBVIOUS
  <2>1. \A u \in Sessions : u \in Sharers(l)' => u \in Sharers(l)
    BY <1>1, <1>2 DEF Sharers, Found, Fresh
  <2>2. First(t, l)'
    BY <1>1 DEF Holds, First
  <2> QED
    BY <1>2, <2>1, <2>2, HoldsOn DEF Found
<1>5. LocksOrdered'
  <2>1. \A t \in Sessions, l \in Locks : Asked(t, l)' <=> Asked(t, l)
    BY <1>1 DEF Asked
  <2>2. \A t \in Sessions \ {s}, l \in Locks : Holds(t, l) => Holds(t, l)'
    BY <1>7
  <2>3. \A t \in Sessions, l \in Locks : Asked(t, l)' => l \in Wanted(req'[t])
    BY <1>2, <1>3, <2>1 DEF LocksOrdered
  <2>4. \A t \in Sessions, l \in Locks : Asked(t, l)' => (l \in Wanted(req[t]))'
    BY <2>3 DEF Wanted
  <2>5. \A t \in Sessions, k, l \in Locks :
           Asked(t, k)' /\ Asked(t, l)' => Holds(t, k)' \/ Holds(t, l)' \/ k = l
    BY <1>3, <2>1, <2>2 DEF LocksOrdered
  <2>6. \A t \in Sessions : req'[t].op \in NumberOps /\ Asked(t, Chain)' => req'[t].number # 0
    BY <1>2, <1>3, <1>4, <2>1 DEF LocksOrdered
  <2> QED
    BY <2>4, <2>5, <2>6 DEF LocksOrdered
<1>6. ASSUME NEW t \in Sessions PROVE HasTaken(t)'
  <2>1. CASE t = s
    BY <1>2, <2>1, NothingTaken DEF Fresh
  <2>2. CASE t # s
    BY <1>1, <1>2, <1>7, <2>2, TakenKeeps DEF Taken
  <2> QED
    BY <2>1, <2>2
<1> QED
  BY <1>5, <1>6 DEF Taken

(***************************************************************************)
(* The end of a transaction, whatever it was, leaves the others their      *)
(* locks.                                                                  *)
(***************************************************************************)
LEMMA LeavingOrdered ==
    ASSUME Typed, LocksOrdered, NEW s \in Sessions, queue' = Released(s),
           req' \in [Sessions -> Request], req'[s].found # "shared",
           \A t \in Sessions \ {s} : Follows(req'[t], req[t]) /\ req'[t].number = req[t].number
    PROVE  LocksOrdered'
<1>1. \A t \in Sessions, l \in Locks : /\ Asked(t, l)' <=> Asked(t, l) /\ t # s
                                       /\ Holds(t, l) /\ t # s => Holds(t, l)'
  BY ReleasedIs, LeavingKeeps DEF Typed
<1>2. \A t \in Sessions \ {s} : Wanted(req'[t]) = Wanted(req[t]) /\ req'[t].op = req[t].op
  BY WantedAlike DEF Follows
<1>3. Chain \in Locks /\ Partitions \subseteq Locks
  BY DEF Locks
<1>4. \A t \in Sessions, l \in Locks : Asked(t, l)' => l \in Wanted(req'[t])
  BY <1>1, <1>2 DEF LocksOrdered
<1>5. \A t \in Sessions, k, l \in Locks :
         Asked(t, k)' /\ Asked(t, l)' => Holds(t, k)' \/ Holds(t, l)' \/ k = l
  BY <1>1 DEF LocksOrdered
<1>6. \A t \in Sessions : req'[t].op \in NumberOps /\ Asked(t, Chain)' => req'[t].number # 0
  BY <1>1, <1>2, <1>3 DEF LocksOrdered
<1>8. \A t \in Sessions, l \in Locks : Asked(t, l)' => (l \in Wanted(req[t]))'
  BY <1>4 DEF Wanted
<1> QED
  BY <1>5, <1>6, <1>8 DEF LocksOrdered

LEMMA EndOrdered ==
    ASSUME Typed, LocksOrdered, Taken, NEW s \in Sessions, End(s)
    PROVE  LocksOrdered' /\ Taken'
<1>1. /\ req' = [req EXCEPT ![s] = Idle] /\ req \in [Sessions -> Request]
      /\ queue' = Released(s) /\ UNCHANGED <<counter, issued, chain>>
  BY DEF End, data, Typed, TypeOK
<1>2. req'[s] = Idle /\ \A t \in Sessions \ {s} : req'[t] = req[t]
  BY <1>1
<1>3. LocksOrdered'
  BY <1>1, <1>2, IdleTyped, IdleIs, LeavingOrdered DEF Follows
<1>4. \A t \in Sessions, l \in Locks : Holds(t, l) /\ t # s => Holds(t, l)'
  BY <1>1, <1>2, IdleIs, LeavingKeeps DEF Typed, Follows
<1>5. ASSUME NEW t \in Sessions PROVE HasTaken(t)'
  <2>1. CASE t = s
    BY <1>2, <2>1, IdleIs, NothingTaken
  <2>2. CASE t # s
    BY <1>1, <1>2, <1>4, <2>2, TakenKeeps DEF Taken
  <2> QED
    BY <2>1, <2>2
<1>6. Taken'
  BY <1>5 DEF Taken
<1> QED
  BY <1>3, <1>6

LEMMA RetryOrdered ==
    ASSUME Typed, LocksOrdered, Taken, NEW s \in Sessions, Again(s), Aborted(s)
    PROVE  LocksOrdered' /\ Taken'
<1>0. req'[s].found # "shared"
  BY RetryNoted, RequestTyped DEF Follows, Again, Serving, Shaped
<1>1. LocksOrdered'
  BY <1>0, RetryNoted, LeavingOrdered DEF Follows, data
<1>2. \A t \in Sessions, l \in Locks : Holds(t, l) /\ t # s => Holds(t, l)'
  BY <1>0, RetryNoted, LeavingKeeps DEF Typed, Follows
<1>3. ASSUME NEW t \in Sessions PROVE HasTaken(t)'
  <2>1. CASE t = s
    BY <2>1, RetryNoted, NothingTaken
  <2>2. CASE t # s
    BY <1>2, <2>2, RetryNoted, TakenKeeps DEF Taken, data, Follows
  <2> QED
    BY <2>1, <2>2
<1>4. Taken'
  BY <1>3 DEF Taken
<1> QED
  BY <1>1, <1>4

LEMMA EnsureOrdered ==
    ASSUME Typed, LocksOrdered, Taken, NEW s \in Sessions, EnsureSequence(s)
    PROVE  LocksOrdered' /\ Taken'
<1>1. /\ counter' = [counter EXCEPT ![req[s].partition] = 1] /\ counter[req[s].partition] = 0
      /\ UNCHANGED <<issued, chain, semesters, queue, req>>
      /\ counter \in [Partitions -> 0 .. MaxValue]
  BY DEF EnsureSequence, Typed, TypeOK
<1>2. \A p \in Partitions : NextValue(p)' = NextValue(p)
  BY <1>1 DEF NextValue
<1>3. LocksOrdered'
  BY <1>1 DEF LocksOrdered, Asked, Holds, First, Sharers, Found, Wanted
<1>4. Taken'
  BY <1>1, <1>2, OwnPartition DEF Taken, HasTaken, Holds, First, Sharers, Found
<1> QED
  BY <1>3, <1>4

LEMMA AskOrdered ==
    ASSUME Typed, LocksOrdered, Taken, NEW s \in Sessions, Ask(s)
    PROVE  LocksOrdered' /\ Taken'
<1>1. PICK i \in Unasked(s) : /\ \A j \in Unasked(s) : i <= j
                              /\ queue' = [queue EXCEPT ![Plan(req[s])[i]] = Append(@, s)]
  BY DEF Ask
<1> DEFINE q == req[s]
           l == Plan(q)[i]
<1>2. /\ Ready(s) /\ q.op # "idle" /\ UNCHANGED <<counter, issued, chain, semesters, req>>
  BY RequestTyped DEF Ask, data, Ready, Free
<1>3. l \in Wanted(q) /\ l \in Locks /\ ~Asked(s, l)
  BY <1>2, PlanIs DEF Unasked
<1>4. \A t \in Sessions, k \in Locks : /\ Asked(t, k)' <=> Asked(t, k) \/ (t = s /\ k = l)
                                       /\ Holds(t, k) => Holds(t, k)'
  <2>1. \A t \in Sessions, k \in Locks : /\ Asked(t, k)' <=> Asked(t, k) \/ (t = s /\ k = l)
                                         /\ First(t, k) => First(t, k)'
    BY <1>1, <1>3, AskedIs DEF Typed
  <2> QED
    BY <1>2, <2>1 DEF Holds, Sharers, Found
<1>5. \A k \in Locks : Asked(s, k) => Holds(s, k)
  BY <1>2 DEF Ready, Waiting
<1>6. q.op \in NumberOps /\ l = Chain => q.number # 0
  <2> SUFFICES ASSUME q.op \in NumberOps, l = Chain PROVE q.number # 0
    OBVIOUS
  <2>1. Plan(q) = <<q.partition, Chain>>
    BY <1>2, PlanIs
  <2>2. i = 2 \/ (i = 1 /\ q.partition = Chain)
    BY <2>1 DEF Unasked
  <2>3. i = 2
    BY <2>2, OwnPartition
  <2>4. 1 \notin Unasked(s)
    BY <1>1, <2>3
  <2>5. Asked(s, q.partition)
    BY <2>1, <2>4 DEF Unasked
  <2> QED
    BY <1>2, <1>5, <2>5, OwnPartition DEF Ready
<1> HIDE DEF l
<1>8. Chain \in Locks
  BY DEF Locks
<1>9. LocksOrdered'
  <2>1. \A t \in Sessions, k \in Locks : Asked(t, k)' => k \in Wanted(req[t])
    BY <1>3, <1>4 DEF LocksOrdered
  <2>2. \A t \in Sessions, k \in Locks : Asked(t, k)' => (k \in Wanted(req[t]))'
    BY <1>2, <2>1 DEF Wanted
  <2>3. ASSUME NEW t \in Sessions, NEW j \in Locks, NEW k \in Locks, Asked(t, j)', Asked(t, k)'
        PROVE  Holds(t, j)' \/ Holds(t, k)' \/ j = k
    <3>1. CASE t = s
      BY <1>4, <1>5, <2>3, <3>1
    <3>2. CASE t # s
      BY <1>4, <2>3, <3>2 DEF LocksOrdered
    <3> QED
      BY <3>1, <3>2
  <2>4. \A t \in Sessions : req[t].op \in NumberOps /\ Asked(t, Chain)' => req[t].number # 0
    BY <1>4, <1>6, <1>8 DEF LocksOrdered
  <2> QED
    BY <1>2, <2>2, <2>3, <2>4 DEF LocksOrdered
<1>10. ASSUME NEW t \in Sessions PROVE HasTaken(t)'
  BY <1>2, <1>4, TakenKeeps DEF Taken
<1>11. Taken'
  BY <1>10 DEF Taken
<1> QED
  BY <1>9, <1>11

LEMMA NumberOrdered ==
    ASSUME Typed, LocksOrdered, Taken, NEW s \in Sessions, NextNumber(s)
    PROVE  LocksOrdered' /\ Taken'
<1>1. /\ UNCHANGED <<counter, issued, chain, semesters, queue>>
      /\ Holds(s, req[s].partition) /\ req[s].found \in {"shared", "there"}
  BY DEF NextNumber, TakesNumber, data
<1>2. NextValue(req[s].partition) # 0
  BY DEF NextValue
<1>3. \A t \in Sessions : Follows(req'[t], req[t]) /\ (req[t].number # 0 => req'[t].number # 0)
  BY <1>2, NumberNoted DEF Follows
<1>4. \A t \in Sessions : Wanted(req'[t]) = Wanted(req[t]) /\ req'[t].op = req[t].op
  BY <1>3, WantedAlike DEF Follows
<1>5. \A t \in Sessions, l \in Locks : Asked(t, l) => (l \in Wanted(req[t]))'
  <2>1. \A t \in Sessions, l \in Locks : Asked(t, l) => l \in Wanted(req'[t])
    BY <1>4 DEF LocksOrdered
  <2> QED
    BY <2>1 DEF Wanted
<1>8. \A t \in Sessions, l \in Locks : (Holds(t, l) <=> Holds(t, l)') /\ (Asked(t, l) <=> Asked(t, l)')
  BY <1>1, <1>3 DEF Holds, First, Sharers, Found, Asked, Follows
<1>6. LocksOrdered'
  BY <1>3, <1>4, <1>5, <1>8, OwnPartition DEF LocksOrdered
<1>7. ASSUME NEW t \in Sessions PROVE HasTaken(t)'
  <2>1. CASE t # s
    BY <1>1, <1>8, <2>1, NumberNoted, TakenKeeps DEF Taken
  <2>2. CASE t = s
    <3>1. PICK p \in Locks : p = req[s].partition
      BY OwnPartition
    <3>2. /\ req'[s].partition = p /\ req'[s].found \in {"shared", "there"}
          /\ req'[s].number = NextValue(p)' /\ req'[s].link = req[s].link
      BY <1>1, <3>1, NumberNoted DEF Follows, NextValue
    <3>3. Holds(s, p)'
      BY <1>1, <1>8, <3>1
    <3>4. req[s].link # -1 => Holds(s, Chain)' /\ req[s].link = Len(chain')
      BY <1>1, <1>8, OwnPartition DEF Taken, HasTaken
    <3> QED
      BY <2>2, <3>2, <3>3, <3>4 DEF HasTaken, Holds, First, Sharers, NextValue
  <2> QED
    BY <2>1, <2>2
<1> QED
  BY <1>6, <1>7 DEF Taken

LEMMA AuditOrdered ==
    ASSUME Typed, LocksOrdered, Taken, NEW s \in Sessions, WriteAudit(s)
    PROVE  LocksOrdered' /\ Taken'
<1>1. /\ UNCHANGED <<counter, issued, chain, semesters, queue>>
      /\ Holds(s, Chain)
  BY DEF WriteAudit, data
<1>2. \A t \in Sessions : Follows(req'[t], req[t]) /\ req'[t].number = req[t].number
  BY AuditNoted DEF Follows
<1>3. \A t \in Sessions : Wanted(req'[t]) = Wanted(req[t]) /\ req'[t].op = req[t].op
  BY <1>2, WantedAlike DEF Follows
<1>4. \A t \in Sessions, l \in Locks : Asked(t, l) => (l \in Wanted(req[t]))'
  <2>1. \A t \in Sessions, l \in Locks : Asked(t, l) => l \in Wanted(req'[t])
    BY <1>3 DEF LocksOrdered
  <2> QED
    BY <2>1 DEF Wanted
<1>7. \A t \in Sessions, l \in Locks : (Holds(t, l) <=> Holds(t, l)') /\ (Asked(t, l) <=> Asked(t, l)')
  BY <1>1, <1>2 DEF Holds, First, Sharers, Found, Asked, Follows
<1>5. LocksOrdered'
  BY <1>2, <1>3, <1>4, <1>7, OwnPartition DEF LocksOrdered
<1>6. ASSUME NEW t \in Sessions PROVE HasTaken(t)'
  <2>1. CASE t # s
    BY <1>1, <1>7, <2>1, AuditNoted, TakenKeeps DEF Taken
  <2>2. CASE t = s
    <3>1. PICK p \in Locks : p = req[s].partition
      BY OwnPartition
    <3>2. /\ req'[s].partition = p /\ req'[s].found = req[s].found
          /\ req'[s].number = req[s].number /\ req'[s].link = Len(chain')
      BY <1>1, <3>1, AuditNoted DEF Follows
    <3>3. Holds(s, Chain)'
      BY <1>1, <1>7, OwnPartition
    <3>4. req[s].number # 0 => /\ Holds(s, p)' /\ req[s].number = NextValue(p)'
                               /\ req[s].found \in {"shared", "there"}
      BY <1>1, <1>7, <3>1 DEF Taken, HasTaken, NextValue
    <3> QED
      BY <2>2, <3>2, <3>3, <3>4 DEF HasTaken, Holds, First, Sharers, NextValue
  <2> QED
    BY <2>1, <2>2
<1> QED
  BY <1>5, <1>6 DEF Taken

(***************************************************************************)
(* Looking for a counter, inserting it and sharing it take no number and   *)
(* no lock from anyone.                                                    *)
(***************************************************************************)
LEMMA FoundOrdered ==
    ASSUME Typed, LocksOrdered, Taken, NEW s \in Sessions, NEW f \in {"missing", "shared", "there"},
           req' = [req EXCEPT ![s].found = f], req[s].op = "issue",
           req[s].found \notin {"shared", "there"},
           UNCHANGED <<counter, chain>>,
           \A l \in Locks : Asked(s, l)' => l = req[s].partition,
           \A t \in Sessions, l \in Locks :
               t # s => /\ Asked(t, l)' <=> Asked(t, l)
                        /\ First(t, l) => First(t, l)'
                        /\ Holds(t, l) /\ f = "shared" => l # req[s].partition
    PROVE  LocksOrdered' /\ Taken'
<1>1. req[s].number = 0
  BY DEF Taken, HasTaken
<1>2. \A t \in Sessions : /\ req'[t].op = req[t].op /\ req'[t].partition = req[t].partition
                          /\ req'[t].number = req[t].number /\ req'[t].link = req[t].link
                          /\ t # s => req'[t].found = req[t].found
  BY FoundNoted
<1>3. \A t \in Sessions : Wanted(req'[t]) = Wanted(req[t])
  BY <1>2 DEF Wanted
<1>4. Chain \in Locks /\ ~Asked(s, Chain) /\ ~Asked(s, Chain)' /\ req[s].link = -1
  <2>1. Chain \in Locks /\ ~Asked(s, Chain) /\ ~Asked(s, Chain)'
    BY <1>1, OwnPartition DEF LocksOrdered, NumberOps
  <2> QED
    BY <2>1, HoldsAsks DEF Taken, HasTaken, Typed
<1>5. \A t \in Sessions, l \in Locks : t # s /\ Holds(t, l) => Holds(t, l)'
  <2> SUFFICES ASSUME NEW t \in Sessions, NEW l \in Locks, t # s, Holds(t, l) PROVE Holds(t, l)'
    OBVIOUS
  <2>1. First(t, l)'
    BY DEF Holds
  <2>2. Found(t, "missing") => Found(t, "missing")'
    BY <1>2 DEF Found
  <2>3. \A u \in Sessions : u \in Sharers(l)' => u \in Sharers(l)
    <3>1. req'[s].found = f
      BY FoundNoted
    <3> QED
      BY <1>2, <3>1 DEF Sharers, Found
  <2> QED
    BY <2>1, <2>2, <2>3, HoldsOn
<1>6. LocksOrdered'
  <2>1. \A t \in Sessions, l \in Locks : Asked(t, l)' => l \in Wanted(req'[t])
    BY <1>3, NumberWants DEF LocksOrdered, NumberOps
  <2>2. \A t \in Sessions, l \in Locks : Asked(t, l)' => (l \in Wanted(req[t]))'
    BY <2>1 DEF Wanted
  <2>3. \A t \in Sessions, k, l \in Locks :
           Asked(t, k)' /\ Asked(t, l)' => Holds(t, k)' \/ Holds(t, l)' \/ k = l
    BY <1>5 DEF LocksOrdered
  <2>4. \A t \in Sessions : req'[t].op \in NumberOps /\ Asked(t, Chain)' => req'[t].number # 0
    BY <1>2, <1>4 DEF LocksOrdered
  <2> QED
    BY <2>2, <2>3, <2>4 DEF LocksOrdered
<1>7. ASSUME NEW t \in Sessions PROVE HasTaken(t)'
  <2>1. CASE t = s
    BY <1>1, <1>2, <1>4, <2>1, NothingTaken
  <2>2. CASE t # s
    BY <1>2, <1>5, <2>2, TakenKeeps DEF Taken
  <2> QED
    BY <2>1, <2>2
<1> QED
  BY <1>6, <1>7 DEF Taken

LEMMA LookOrdered ==
    ASSUME Typed, LocksOrdered, Taken, NEW s \in Sessions, Look(s)
    PROVE  LocksOrdered' /\ Taken'
<1>1. PICK f \in {"missing", "there"} : req' = [req EXCEPT ![s].found = f]
  BY LookIs
<1>2. /\ req[s].op = "issue" /\ req[s].found = "unread"
      /\ UNCHANGED <<counter, issued, chain, semesters, queue>>
  BY LookIs DEF Look, Found
<1>3. req[s].number = 0
  BY <1>2 DEF Taken, HasTaken
<1>4. \A l \in Locks : Asked(s, l) => l = req[s].partition
  BY <1>2, <1>3, NumberWants DEF LocksOrdered, NumberOps
<1> QED
  BY <1>1, <1>2, <1>4, FoundOrdered DEF Asked, First

LEMMA InsertOrdered ==
    ASSUME Typed, LocksOrdered, Taken, NEW s \in Sessions, Insert(s)
    PROVE  LocksOrdered' /\ Taken'
<1>1. PICK p \in Locks : p = req[s].partition
  BY OwnPartition
<1>2. /\ req[s].found = "missing" /\ ~Asked(s, p)
      /\ queue' = [queue EXCEPT ![p] = Append(@, s)]
  BY <1>1, InsertIs DEF Insert, Inserts, Found
<1>3. \A t \in Sessions, l \in Locks : /\ Asked(t, l)' <=> Asked(t, l) \/ (t = s /\ l = p)
                                       /\ First(t, l) => First(t, l)'
  BY <1>2, AskedIs DEF Typed
<1> QED
  BY <1>1, <1>2, <1>3, InsertIs, FoundOrdered

LEMMA ShareOrdered ==
    ASSUME Typed, LocksOrdered, Taken, NEW s \in Sessions, Share(s)
    PROVE  LocksOrdered' /\ Taken'
<1>1. \A t \in Sessions : t # s => ~Holds(t, req[s].partition)
  BY DEF Share, Holds, First
<1> QED
  BY <1>1, ShareIs, FoundOrdered

(***************************************************************************)
(* A commit writes the counter and the chain under their locks, so what    *)
(* another has taken is not disturbed.                                     *)
(***************************************************************************)
LEMMA CommitOrdered ==
    ASSUME Typed, LocksOrdered, Taken, NEW s \in Sessions, Commit(s)
    PROVE  LocksOrdered' /\ Taken'
<1> DEFINE r == req[s]
<1>1. queue' = Released(s) /\ Complete(s)
  BY DEF Commit
<1>2. \A p \in Partitions : \/ counter'[p] = counter[p]
                            \/ p = r.partition /\ r.number # 0
  <2>1. counter \in [Partitions -> 0 .. MaxValue]
    BY DEF Typed, TypeOK
  <2>2. r.number \in Nat
    BY RequestTyped DEF Request
  <2>3. counter' = counter \/ (r.number # 0 /\ counter' = [counter EXCEPT ![r.partition] = r.number + 1])
    BY DEF Commit
  <2> QED
    BY <2>1, <2>2, <2>3
<1>3. LocksOrdered'
  BY <1>1, CommitNoted, IdleIs, LeavingOrdered DEF Follows
<1>4. \A t \in Sessions, l \in Locks : Holds(t, l) /\ t # s => Holds(t, l)'
  BY <1>1, CommitNoted, IdleIs, LeavingKeeps DEF Typed
<1>5. ASSUME NEW t \in Sessions PROVE HasTaken(t)'
  <2>1. CASE t = s
    BY <2>1, CommitNoted, IdleIs, NothingTaken
  <2>2. CASE t # s
    <3>1. /\ req'[t].partition = req[t].partition /\ req'[t].number = req[t].number
          /\ req'[t].link = req[t].link /\ req'[t].found = req[t].found
      BY <2>2, CommitNoted DEF Follows
    <3>2. req[t].number # 0 => counter'[req[t].partition] = counter[req[t].partition]
      <4>1. ~(req[t].number # 0 /\ req[t].partition = r.partition /\ r.number # 0)
        BY <2>2, HolderIsOne DEF Taken, HasTaken
      <4> QED
        BY <1>2, <4>1, OwnPartition
    <3>3. req[t].link = -1
      BY <1>1, <2>2, CompleteIs, HolderIsOne DEF Taken, HasTaken
    <3> QED
      BY <1>4, <2>2, <3>1, <3>2, <3>3, TakenKeeps DEF Taken
  <2> QED
    BY <2>1, <2>2
<1>6. Taken'
  BY <1>5 DEF Taken
<1> QED
  BY <1>3, <1>6

-----------------------------------------------------------------------------
(* Numbered. *)

(***************************************************************************)
(* Whoever commits a number commits the next one, and whoever commits      *)
(* appends to the row it read last.                                        *)
(***************************************************************************)
LEMMA CommitNumbered ==
    ASSUME Typed, LocksOrdered, Taken, Numbered, NEW s \in Sessions, Commit(s)
    PROVE  Numbered'
<1> DEFINE n == req[s].number
           entry == [number |-> n, semester |-> req[s].semester]
<1>1. PICK own \in Partitions : own = req[s].partition
  BY OwnPartition
<1>2. /\ counter \in [Partitions -> 0 .. MaxValue] /\ issued \in [Partitions -> Seq(Number)]
      /\ chain \in Seq(Nat) /\ n \in Nat /\ req[s].semester \in Nat
  <2>1. n \in Nat /\ req[s].semester \in Nat
    BY RequestTyped DEF Request
  <2> QED
    BY <2>1 DEF Typed, TypeOK
<1>3. /\ chain' = Append(chain, req[s].link) /\ req[s].link = Len(chain)
      /\ n = 0 => counter' = counter /\ issued' = issued
      /\ n # 0 => /\ counter' = [counter EXCEPT ![own] = n + 1]
                  /\ issued' = [issued EXCEPT ![own] = Append(@, entry)]
                  /\ n = NextValue(own)
  BY <1>1, CompleteIs DEF Commit, Taken, HasTaken
<1>4. ChainUnbroken'
  BY <1>2, <1>3 DEF Numbered, ChainUnbroken
<1>5. entry.number = n /\ entry \in Number
  BY <1>2 DEF Number
<1> HIDE DEF entry, n
<1>6. ASSUME NEW p \in Partitions
      PROVE  /\ \A i \in DOMAIN issued'[p] : issued'[p][i].number = i
             /\ counter'[p] = Len(issued'[p]) + 1 \/ (counter'[p] = 0 /\ issued'[p] = <<>>)
  <2>1. CASE n = 0 \/ p # own
    <3>1. counter'[p] = counter[p] /\ issued'[p] = issued[p]
      BY <1>2, <1>3, <2>1
    <3> QED
      BY <3>1 DEF Numbered
  <2>2. CASE n # 0 /\ p = own
    <3> DEFINE before == issued[p]
               after == Append(before, entry)
    <3>1. before \in Seq(Number) /\ n = Len(before) + 1 /\ \A i \in DOMAIN before : before[i].number = i
      BY <1>2, <1>3, <2>2 DEF Numbered, NextValue
    <3>2. counter'[p] = n + 1 /\ issued'[p] = after
      BY <1>2, <1>3, <2>2
    <3> HIDE DEF before
    <3>3. /\ Len(after) = n /\ after[n] = entry /\ DOMAIN after = 1 .. n
          /\ \A i \in 1 .. Len(before) : after[i] = before[i]
      BY <1>2, <1>5, <3>1, AppendProperties
    <3> HIDE DEF after
    <3>4. ASSUME NEW i \in 1 .. n PROVE after[i].number = i
      <4>1. CASE i = n
        BY <1>5, <3>3, <4>1
      <4>2. CASE i \in 1 .. Len(before)
        BY <3>1, <3>3, <4>2
      <4> QED
        BY <1>2, <3>1, <4>1, <4>2
    <3> QED
      BY <1>2, <3>2, <3>3, <3>4
  <2> QED
    BY <2>1, <2>2
<1> QED
  BY <1>4, <1>6 DEF Numbered

LEMMA EnsureNumbered ==
    ASSUME Typed, Numbered, NEW s \in Sessions, EnsureSequence(s)
    PROVE  Numbered'
<1>1. /\ counter' = [counter EXCEPT ![req[s].partition] = 1] /\ counter[req[s].partition] = 0
      /\ UNCHANGED <<issued, chain, semesters, queue, req>>
      /\ counter \in [Partitions -> 0 .. MaxValue]
  BY DEF EnsureSequence, Typed, TypeOK
<1>2. \A p \in Partitions : Len(issued[p]) \in Nat
  BY DEF Typed, TypeOK
<1>3. \A p \in Partitions :
         counter'[p] = Len(issued[p]) + 1 \/ (counter'[p] = 0 /\ issued[p] = <<>>)
  BY <1>1, <1>2 DEF Numbered
<1> QED
  BY <1>1, <1>3 DEF Numbered, ChainUnbroken

-----------------------------------------------------------------------------
(* Told. *)

LEMMA JudgedAlike ==
    ASSUME NEW q, NEW r, Follows(q, r), Judged(r)
    PROVE  Judged(q)
  BY DEF Judged, UpToDate, Follows

LEMMA IdleJudged == Judged(Idle)
  BY IdleIs DEF Judged, UpToDate

(***************************************************************************)
(* A step that commits nothing.                                            *)
(***************************************************************************)
LEMMA ToldKeeps ==
    ASSUME Told, semesters' = semesters, issued' = issued,
           \A t \in Sessions : \/ Follows(req'[t], req[t]) /\ req'[t].overtaken = req[t].overtaken
                               \/ Judged(req'[t])
    PROVE  Told'
<1>1. \A t \in Sessions : req'[t].overtaken \/ Judged(req'[t])
  BY JudgedAlike DEF Told
<1>2. \A t \in Sessions : req'[t].overtaken \/ Judged(req[t])'
  BY <1>1 DEF Judged, UpToDate, Counted
<1> QED
  BY <1>2 DEF Told

LEMMA FoundTold ==
    ASSUME Typed, Told, NEW s \in Sessions, NEW f \in {"missing", "shared", "there"},
           req' = [req EXCEPT ![s].found = f], req[s].op = "issue",
           semesters' = semesters, issued' = issued
    PROVE  Told'
<1>1. /\ req'[s].op = "issue" /\ \A t \in Sessions \ {s} : req'[t] = req[t]
  BY FoundNoted
<1>2. Judged(req'[s])
  BY <1>1 DEF Judged, UpToDate
<1> QED
  BY <1>1, <1>2, ToldKeeps DEF Follows

(***************************************************************************)
(* A number with a semester is given to who registers under it.            *)
(***************************************************************************)
LEMMA IssuedIs ==
    ASSUME Typed, NEW s \in Sessions, Commit(s), NEW key \in Keys \cup Centres,
           NEW i \in DOMAIN issued'[key]
    PROVE  \/ i \in DOMAIN issued[key] /\ issued'[key][i] = issued[key][i]
           \/ /\ req[s].op = "register" /\ key = req[s].partition
              /\ issued'[key][i].semester = req[s].semester
<1> DEFINE r == req[s]
           entry == [number |-> r.number, semester |-> r.semester]
<1>1. PICK own \in Partitions : own = r.partition
  BY OwnPartition
<1>2. /\ issued \in [Partitions -> Seq(Number)] /\ Keys \cup Centres \subseteq Partitions
      /\ r.number \in Nat /\ r.semester \in Nat
  <2>1. r.number \in Nat /\ r.semester \in Nat
    BY RequestTyped DEF Request
  <2> QED
    BY <2>1 DEF Typed, TypeOK, Partitions
<1>3. issued' = issued \/ (r.number # 0 /\ issued' = [issued EXCEPT ![own] = Append(@, entry)])
  BY <1>1 DEF Commit
<1>4. entry.semester = r.semester /\ entry \in Number
  BY <1>2 DEF Number
<1> HIDE DEF entry
<1>5. CASE issued'[key] = issued[key]
  BY <1>5
<1>6. CASE issued'[key] # issued[key]
  <2>1. r.number # 0 /\ key = own /\ issued'[key] = Append(issued[key], entry)
    BY <1>2, <1>3, <1>6
  <2>2. r.op = "register"
    BY <1>1, <2>1, RequestTyped, ConstantsAssumption DEF Shaped, NumberOps
  <2> DEFINE before == issued[key]
             after == Append(before, entry)
  <2>3. before \in Seq(Number) /\ issued'[key] = after
    BY <1>2, <2>1
  <2> HIDE DEF before
  <2>4. /\ i \in 1 .. Len(before) + 1 /\ (i \in 1 .. Len(before) => after[i] = before[i])
        /\ after[Len(before) + 1] = entry /\ DOMAIN before = 1 .. Len(before) /\ Len(before) \in Nat
    BY <1>4, <2>3, AppendProperties
  <2> QED
    BY <1>1, <1>4, <2>1, <2>2, <2>3, <2>4 DEF before
<1> QED
  BY <1>5, <1>6

(***************************************************************************)
(* A commit takes no semester out of the table.                            *)
(***************************************************************************)
LEMMA CommitGrows ==
    ASSUME Typed, NEW s \in Sessions, Commit(s)
    PROVE  semesters' = Saved(req[s]) /\ DOMAIN semesters \subseteq DOMAIN semesters'
<1>1. semesters' = Saved(req[s])
  BY DEF Commit
<1>2. /\ semesters' \in Seq(Semester) /\ Len(semesters) \in Nat
      /\ Len(semesters') = IF req[s].op = "create" THEN Len(semesters) + 1 ELSE Len(semesters)
  BY <1>1, SavedIs DEF Typed, TypeOK
<1>3. DOMAIN semesters = 1 .. Len(semesters) /\ DOMAIN semesters' = 1 .. Len(semesters')
  BY <1>2 DEF Typed, TypeOK
<1>4. Len(semesters) <= Len(semesters') /\ Len(semesters') \in Nat
  BY <1>2
<1> QED
  BY <1>1, <1>2, <1>3, <1>4

(***************************************************************************)
(* A commit marks as overtaken whoever read what it changes.               *)
(***************************************************************************)
LEMMA CommitTold ==
    ASSUME Typed, Told, NEW s \in Sessions, Commit(s)
    PROVE  Told'
<1> DEFINE r == req[s]
<1>3. semesters' = Saved(r) /\ DOMAIN semesters \subseteq DOMAIN semesters'
  BY CommitGrows
<1>5. ASSUME NEW key \in Keys \cup Centres, NEW i \in DOMAIN issued'[key]
      PROVE  \/ i \in DOMAIN issued[key] /\ issued'[key][i] = issued[key][i]
             \/ r.op = "register" /\ issued'[key][i].semester = r.semester
  BY IssuedIs
<1>6. \A key \in Keys \cup Centres : \A i \in DOMAIN issued'[key] : issued'[key][i].semester \in DOMAIN semesters'
  BY <1>3, <1>5, RequestTyped DEF Told, Shaped
<1>7. ASSUME NEW t \in Sessions PROVE req'[t].overtaken \/ Judged(req[t])'
  <2>1. CASE t = s
    BY <2>1, CommitNoted, IdleIs DEF Judged, UpToDate
  <2>2. CASE t # s
    <3> SUFFICES ASSUME ~req'[t].overtaken PROVE Judged(req[t])'
      OBVIOUS
    <3>1. Follows(req'[t], req[t]) /\ Judged(req[t]) /\ ~Outdated(req[t])
      BY <2>2, CommitNoted DEF Told
    <3>2. UpToDate(req[t], semesters', issued')
      BY <3>1 DEF Judged, Outdated
    <3>3. UpToDate(req'[t], semesters', issued')
      BY <3>1, <3>2 DEF UpToDate, Follows
    <3> QED
      BY <3>3 DEF Judged, UpToDate, Counted
  <2> QED
    BY <2>1, <2>2
<1> QED
  BY <1>6, <1>7 DEF Told

-----------------------------------------------------------------------------
(* The theorems. *)

Inv == Typed /\ LocksOrdered /\ Taken /\ Numbered /\ Told

LEMMA InitInv == Init => Inv
<1> SUFFICES ASSUME Init PROVE Inv
  OBVIOUS
<1>1. /\ counter = [p \in Partitions |-> 0] /\ issued = [p \in Partitions |-> <<>>]
      /\ chain = <<>> /\ semesters \in Seeded /\ queue = [l \in Locks |-> <<>>]
      /\ req = [s \in Sessions |-> Idle]
  BY DEF Init
<1>2. /\ semesters \in Seq(Semester) /\ Len(semesters) <= 1 /\ Len(semesters) \in Nat
      /\ \A m, n \in DOMAIN semesters : m = n
  <2> DEFINE row == [key |-> CHOOSE k \in Keys : TRUE, active |-> TRUE]
  <2>1. row \in Semester
    BY ConstantsAssumption DEF Semester
  <2>2. semesters = <<>> \/ semesters = <<row>>
    BY <1>1 DEF Seeded
  <2> HIDE DEF row
  <2>3. CASE semesters = <<>>
    BY <2>3
  <2>4. CASE semesters = <<row>>
    <3>1. semesters \in Seq(Semester) /\ Len(semesters) = 1
      BY <2>1, <2>4
    <3> QED
      BY <3>1
  <2> QED
    BY <2>2, <2>3, <2>4
<1>3. TypeOK
  <2>1. counter \in [Partitions -> 0 .. MaxValue]
    <3>1. 0 \in 0 .. MaxValue
      BY ConstantsAssumption
    <3> QED
      BY <1>1, <3>1
  <2>2. issued \in [Partitions -> Seq(Number)] /\ chain \in Seq(Nat)
    BY <1>1
  <2>3. queue \in [Locks -> Seq(Sessions)] /\ \A l \in Locks : IsInjective(queue[l])
    BY <1>1 DEF IsInjective
  <2>4. req \in [Sessions -> Request]
    BY <1>1, IdleTyped
  <2> QED
    BY <1>2, <2>1, <2>2, <2>3, <2>4 DEF TypeOK
<1>4. Typed
  <2>1. \A s \in Sessions : Shaped(req[s]) /\ req[s] = Idle
    BY <1>1, <1>2, <1>3, IdleIs, ConstantsAssumption DEF Shaped, NumberOps, SemesterOps
  <2>2. Creating = {}
    BY <1>1, IdleIs DEF Creating, Serving
  <2> QED
    BY <1>2, <1>3, <2>1, <2>2, FS_EmptySet, ConstantsAssumption DEF Typed, Free
<1>5. LocksOrdered
  <2>1. \A s \in Sessions, l \in Locks : ~Asked(s, l)
    BY <1>1 DEF Asked, ToSet
  <2> QED
    BY <2>1 DEF LocksOrdered, Locks
<1>6. Taken
  BY <1>1, IdleIs DEF Taken, HasTaken
<1>7. Numbered
  BY <1>1 DEF Numbered, ChainUnbroken
<1>8. Told
  BY <1>1, IdleJudged DEF Told, Partitions
<1> QED
  BY <1>4, <1>5, <1>6, <1>7, <1>8 DEF Inv

LEMMA NextInv ==
    ASSUME Inv, Next
    PROVE  Inv'
<1> USE DEF Inv
<1>1. PICK s \in Sessions :
         \/ \E new : Begin(s, new) /\ Fresh(new)
         \/ End(s) \/ (Again(s) /\ Aborted(s))
         \/ EnsureSequence(s) \/ Look(s) \/ Insert(s) \/ Share(s)
         \/ Ask(s) \/ NextNumber(s) \/ WriteAudit(s) \/ Commit(s)
  BY Steps
<1>2. ASSUME NEW new, Begin(s, new), Fresh(new) PROVE Inv'
  <2>1. req' = [req EXCEPT ![s] = new] /\ UNCHANGED <<counter, issued, chain, semesters>>
    BY <1>2 DEF Begin, data
  <2>2. Numbered'
    BY <2>1 DEF Numbered, ChainUnbroken
  <2>3. \A t \in Sessions : req'[t] = req[t] \/ req'[t] = new
    BY <2>1 DEF Typed, TypeOK
  <2>4. Told'
    BY <1>2, <2>1, <2>3, ToldKeeps DEF Fresh, Follows
  <2> QED
    BY <1>2, <2>2, <2>4, BeginTyped, BeginOrdered
<1>3. CASE End(s)
  <2>1. req' = [req EXCEPT ![s] = Idle] /\ UNCHANGED <<counter, issued, chain, semesters>>
    BY <1>3 DEF End, data
  <2>2. Numbered'
    BY <2>1 DEF Numbered, ChainUnbroken
  <2>3. \A t \in Sessions : req'[t] = req[t] \/ req'[t] = Idle
    BY <2>1 DEF Typed, TypeOK
  <2>4. Told'
    BY <2>1, <2>3, IdleJudged, ToldKeeps DEF Follows
  <2> QED
    BY <1>3, <2>2, <2>4, EndTyped, EndOrdered
<1>4. CASE Again(s) /\ Aborted(s)
  <2>1. UNCHANGED <<counter, issued, chain, semesters>>
    BY <1>4, RetryNoted DEF data
  <2>2. Numbered'
    BY <2>1 DEF Numbered, ChainUnbroken
  <2>3. Told'
    BY <1>4, <2>1, RetryNoted, ToldKeeps DEF Follows
  <2> QED
    BY <1>4, <2>2, <2>3, RetryTyped, RetryOrdered
<1>5. CASE EnsureSequence(s)
  <2>1. UNCHANGED <<issued, semesters, req>>
    BY <1>5 DEF EnsureSequence
  <2>2. Told'
    BY <2>1, ToldKeeps DEF Follows
  <2> QED
    BY <1>5, <2>2, EnsureTyped, EnsureOrdered, EnsureNumbered
<1>10. CASE Look(s)
  <2>1. UNCHANGED <<counter, issued, chain, semesters, queue>> /\ req[s].op = "issue"
    BY <1>10, LookIs
  <2>2. PICK f \in {"missing", "there"} : req' = [req EXCEPT ![s].found = f]
    BY <1>10, LookIs
  <2>3. Typed'
    BY <2>1, <2>2, FoundTyped DEF data, Typed, TypeOK
  <2>4. Numbered'
    BY <2>1 DEF Numbered, ChainUnbroken
  <2>5. Told'
    BY <2>1, <2>2, FoundTold
  <2> QED
    BY <1>10, <2>3, <2>4, <2>5, LookOrdered
<1>11. CASE Insert(s)
  <2>1. /\ UNCHANGED <<counter, issued, chain, semesters>> /\ req[s].op = "issue"
        /\ req' = [req EXCEPT ![s].found = "there"]
    BY <1>11, InsertIs
  <2>2. queue' \in [Locks -> Seq(Sessions)] /\ \A l \in Locks : IsInjective(queue'[l])
    <3>1. PICK p \in Locks : p = req[s].partition
      BY OwnPartition
    <3>2. ~Asked(s, p) /\ queue' = [queue EXCEPT ![p] = Append(@, s)]
      BY <1>11, <3>1, InsertIs
    <3> QED
      BY <3>2, AskedIs DEF Typed
  <2>3. Typed'
    BY <2>1, <2>2, FoundTyped DEF data
  <2>4. Numbered'
    BY <2>1 DEF Numbered, ChainUnbroken
  <2>5. Told'
    BY <2>1, FoundTold
  <2> QED
    BY <1>11, <2>3, <2>4, <2>5, InsertOrdered
<1>12. CASE Share(s)
  <2>1. /\ UNCHANGED <<counter, issued, chain, semesters>> /\ req[s].op = "issue"
        /\ req' = [req EXCEPT ![s].found = "shared"]
        /\ queue' \in [Locks -> Seq(Sessions)] /\ \A l \in Locks : IsInjective(queue'[l])
    BY <1>12, ShareIs
  <2>2. Typed'
    BY <2>1, FoundTyped DEF data
  <2>3. Numbered'
    BY <2>1 DEF Numbered, ChainUnbroken
  <2>4. Told'
    BY <2>1, FoundTold
  <2> QED
    BY <1>12, <2>2, <2>3, <2>4, ShareOrdered
<1>6. CASE Ask(s)
  <2>1. UNCHANGED <<counter, issued, chain, semesters, req>>
    BY <1>6 DEF Ask, data
  <2>2. Numbered'
    BY <2>1 DEF Numbered, ChainUnbroken
  <2>3. Told'
    BY <2>1, ToldKeeps DEF Follows
  <2> QED
    BY <1>6, <2>2, <2>3, AskTyped, AskOrdered
<1>7. CASE NextNumber(s)
  <2>1. UNCHANGED <<counter, issued, chain, semesters>>
    BY <1>7 DEF NextNumber, data
  <2>2. Numbered'
    BY <2>1 DEF Numbered, ChainUnbroken
  <2>3. Told'
    BY <1>7, <2>1, NumberNoted, ToldKeeps DEF Follows
  <2> QED
    BY <1>7, <2>2, <2>3, NumberTyped, NumberOrdered
<1>8. CASE WriteAudit(s)
  <2>1. UNCHANGED <<counter, issued, chain, semesters>>
    BY <1>8 DEF WriteAudit, data
  <2>2. Numbered'
    BY <2>1 DEF Numbered, ChainUnbroken
  <2>3. Told'
    BY <1>8, <2>1, AuditNoted, ToldKeeps DEF Follows
  <2> QED
    BY <1>8, <2>2, <2>3, AuditTyped, AuditOrdered
<1>9. CASE Commit(s)
  BY <1>9, CommitTyped, CommitOrdered, CommitNumbered, CommitTold
<1> QED
  BY <1>1, <1>2, <1>3, <1>4, <1>5, <1>6, <1>7, <1>8, <1>9, <1>10, <1>11, <1>12

LEMMA StutterInv ==
    ASSUME Inv, UNCHANGED vars
    PROVE  Inv'
<1>1. UNCHANGED <<counter, issued, chain, semesters, queue, req>>
  BY DEF vars, data
<1>2. Typed'
  BY <1>1 DEF Inv, Typed, TypeOK, Shaped, Free, Creating, Serving
<1>3. LocksOrdered' /\ Taken'
  BY <1>1 DEF Inv, LocksOrdered, Taken, HasTaken, Asked, Holds, First, Sharers, Found, NextValue, Wanted
<1>4. Numbered'
  BY <1>1 DEF Inv, Numbered, ChainUnbroken
<1>5. Told'
  BY <1>1, ToldKeeps DEF Inv, Follows
<1> QED
  BY <1>2, <1>3, <1>4, <1>5 DEF Inv

LEMMA Invariance == Spec => []Inv
<1>1. Inv /\ [Next]_vars => Inv'
  BY NextInv, StutterInv
<1> QED
  BY InitInv, <1>1, PTL DEF Spec

(***************************************************************************)
(* Every variable keeps its type: at most one semester is current, and no  *)
(* session stands in a queue twice.                                        *)
(***************************************************************************)
THEOREM TypeCorrect == Spec => []TypeOK
<1>1. Inv => TypeOK
  BY DEF Inv, Typed
<1> QED
  BY Invariance, <1>1, PTL

-----------------------------------------------------------------------------
(* Deadlocks. *)

WaitsOn(s, l) == Asked(s, l) /\ ~Holds(s, l)

LEMMA BeforeIs ==
    ASSUME TypeOK, NEW l \in Locks, NEW t \in Sessions, NEW u \in Sessions, Before(t, u, l)
    PROVE  /\ t # u /\ Asked(t, l) /\ WaitsOn(u, l)
           /\ \A v \in Sessions : Before(u, v, l) => Before(t, v, l)
<1>1. queue[l] \in Seq(Sessions) /\ \A i, j \in DOMAIN queue[l] : queue[l][i] = queue[l][j] => i = j
  BY DEF TypeOK, IsInjective
<1>2. PICK i \in DOMAIN queue[l], j \in DOMAIN queue[l] : i < j /\ queue[l][i] = t /\ queue[l][j] = u
  BY DEF Before
<1>3. i \in Nat /\ j \in Nat /\ 1 \in DOMAIN queue[l] /\ j # 1
  BY <1>1, <1>2
<1>4. t # u /\ Asked(t, l) /\ Asked(u, l)
  BY <1>1, <1>2, <1>3 DEF Asked, ToSet
<1>5. Head(queue[l]) # u
  BY <1>1, <1>2, <1>3
<1>6. ASSUME NEW v \in Sessions, Before(u, v, l) PROVE Before(t, v, l)
  <2>1. PICK m \in DOMAIN queue[l], n \in DOMAIN queue[l] : m < n /\ queue[l][m] = u /\ queue[l][n] = v
    BY <1>6 DEF Before
  <2>2. m = j
    BY <1>1, <1>2, <2>1
  <2>3. i < n
    BY <1>1, <1>2, <2>1, <2>2
  <2> QED
    BY <1>2, <2>1, <2>3 DEF Before
<1> QED
  BY <1>4, <1>5, <1>6 DEF WaitsOn, Holds, First

(***************************************************************************)
(* Who waits for a counter has no lock; who waits for the row of a         *)
(* semester, or has one, acts on semesters; and one lock is waited for at  *)
(* a time.                                                                 *)
(***************************************************************************)
LEMMA WaitIs ==
    ASSUME Typed, LocksOrdered, Taken, NEW s \in Sessions, NEW k \in Locks, NEW l \in Locks, Asked(s, l)
    PROVE  /\ WaitsOn(s, k) /\ k \in Partitions => l = k
           /\ l \in Rows => req[s].op \in SemesterOps
           /\ WaitsOn(s, k) /\ WaitsOn(s, l) => k = l
           /\ l \in Rows \/ l \in Partitions \/ l = Chain
<1>1. ASSUME WaitsOn(s, k), k \in Partitions PROVE l = k
  <2>1. req[s].op \in NumberOps /\ k = req[s].partition
    BY <1>1, CounterIsOwn DEF LocksOrdered, WaitsOn
  <2>2. l = k \/ l = Chain
    BY <2>1 DEF LocksOrdered, Wanted, NumberOps, SemesterOps
  <2>3. l # Chain
    BY <1>1, <2>1 DEF LocksOrdered, Taken, HasTaken, WaitsOn
  <2> QED
    BY <2>2, <2>3
<1>2. l \in Rows => req[s].op \in SemesterOps
  <2>1. l \in Wanted(req[s])
    BY DEF LocksOrdered
  <2>2. req[s].partition \notin Rows /\ Chain \notin Rows
    BY OwnPartition, ConstantsAssumption
  <2> QED
    BY <2>1, <2>2 DEF Wanted, NumberOps, SemesterOps
<1>3. WaitsOn(s, k) /\ WaitsOn(s, l) => k = l
  BY DEF LocksOrdered, WaitsOn
<1> QED
  BY <1>1, <1>2, <1>3 DEF Locks

(***************************************************************************)
(* Who has to wait for one that waits too is behind it in a queue, unless  *)
(* it is for a new counter that the other shares.                          *)
(***************************************************************************)
LEMMA AheadIs ==
    ASSUME Typed, LocksOrdered, ~CounterIsNew, NEW t \in Sessions, NEW u \in Sessions,
           Waiting(t), Ahead(t, u)
    PROVE  \E l \in Locks : Before(t, u, l)
<1> SUFFICES ASSUME NEW l \in Locks, t # u, t \in Sharers(l), Asked(u, l), ~Found(u, "missing")
             PROVE  FALSE
  BY DEF Ahead
<1>1. Found(t, "shared") /\ req[t].partition = l
  BY DEF Sharers
<1>2. ~Holds(u, l)
  BY DEF Holds
<1>3. Waiting(u)
  BY <1>2 DEF Waiting
<1>4. l \in Inline
  BY <1>1, RequestTyped DEF Found, Shaped
<1>5. l \in Wanted(req[u])
  BY DEF LocksOrdered
<1>6. l = req[u].partition
  BY <1>4, <1>5, CounterIsOwn DEF Partitions
<1> QED
  BY <1>1, <1>3, <1>6 DEF CounterIsNew

(***************************************************************************)
(* Who waits, while at most one act on semesters does and no counter is    *)
(* new, waits for a set of sessions that do not wait for it.               *)
(***************************************************************************)
LEMMA DeadlocksKnown ==
    ASSUME Typed, LocksOrdered, Taken
    PROVE  DeadlocksAreKnown
<1> DEFINE Acts(t) == req[t].op \in SemesterOps /\ Waiting(t)
<1> SUFFICES ASSUME NEW s \in Sessions, Deadlocked(s), ~CounterIsNew,
                    \A t, u \in Sessions : Acts(t) /\ Acts(u) => t = u
             PROVE  FALSE
  BY DEF DeadlocksAreKnown, ActsCross
<1>1. TypeOK
  BY DEF Typed
<1>2. ASSUME NEW W \in SUBSET (Sessions \ {s}), \A t \in Sessions \ W : Waiting(t)
      PROVE  \E u \in W \cup {s}, t \in Sessions \ W, l \in Locks : Before(t, u, l)
  <2>1. PICK u \in W \cup {s} : \E t \in Sessions \ W : Ahead(t, u)
    BY DEF Deadlocked
  <2>2. PICK t \in Sessions \ W : Ahead(t, u)
    BY <2>1
  <2> QED
    BY <1>2, <2>2, AheadIs
<1>3. PICK k \in Locks : WaitsOn(s, k)
  BY DEF Deadlocked, Waiting, WaitsOn
<1>4. \A u \in Sessions, l \in Locks : WaitsOn(u, l) => Waiting(u)
  BY DEF Waiting, WaitsOn
<1>5. CASE k \in Partitions
  <2> DEFINE W == {u \in Sessions : u # s /\ ~Before(s, u, k)}
  <2>5. \A t \in Sessions \ W : Waiting(t)
    BY <1>1, <1>3, <1>4, BeforeIs
  <2>1. PICK u \in W \cup {s}, t \in Sessions \ W, l \in Locks : Before(t, u, l)
    BY <1>2, <2>5
  <2>2. WaitsOn(t, k) /\ Asked(t, l)
    BY <1>1, <1>3, <2>1, BeforeIs
  <2>3. l = k
    BY <1>5, <2>2, WaitIs
  <2>4. Before(s, u, k)
    BY <1>1, <2>1, <2>3, BeforeIs
  <2> QED
    BY <1>1, <2>1, <2>4, BeforeIs
<1>6. CASE k \in Rows
  <2> DEFINE W == {u \in Sessions : ~Waiting(u)}
  <2>1. s \notin W
    BY <1>3, <1>4
  <2>2. PICK u \in W \cup {s}, t \in Sessions \ W, l \in Locks : Before(t, u, l)
    BY <1>2, <2>1
  <2>3. WaitsOn(u, l) /\ Asked(t, l) /\ t # u
    BY <1>1, <2>2, BeforeIs
  <2>4. u = s /\ l = k
    BY <1>3, <1>4, <2>2, <2>3, WaitIs DEF WaitsOn
  <2>5. Acts(t) /\ Acts(s)
    BY <1>3, <1>4, <1>6, <2>2, <2>3, <2>4, WaitIs DEF WaitsOn
  <2> QED
    BY <2>3, <2>4, <2>5
<1>7. CASE k = Chain
  <2> DEFINE OnRow(u) == \E r \in Locks : r \in Rows /\ WaitsOn(u, r)
             W == {u \in Sessions : ~Waiting(u) \/ OnRow(u) \/ Before(u, s, Chain)}
  <2>1. Chain \notin Rows /\ Chain \notin Partitions
    BY ConstantsAssumption
  <2>2. s \notin W
    BY <1>1, <1>3, <1>4, <1>7, <2>1, BeforeIs, WaitIs DEF WaitsOn
  <2>3. PICK u \in W \cup {s}, t \in Sessions \ W, l \in Locks : Before(t, u, l)
    BY <1>2, <2>2
  <2>4. WaitsOn(u, l) /\ Asked(t, l) /\ t # u /\ u \in Sessions
    BY <1>1, <2>3, BeforeIs
  <2>5. l \notin Rows
    <3> SUFFICES ASSUME l \in Rows PROVE FALSE
      OBVIOUS
    <3>1. Acts(u) /\ Acts(t)
      BY <1>4, <2>3, <2>4, WaitIs DEF WaitsOn
    <3> QED
      BY <2>4, <3>1
  <2>6. u = s \/ Before(u, s, Chain)
    BY <1>4, <2>3, <2>4, <2>5, WaitIs DEF WaitsOn
  <2>7. Asked(u, Chain)
    BY <1>1, <1>3, <1>7, <2>6, BeforeIs DEF WaitsOn
  <2>8. l = Chain
    BY <1>7, <2>1, <2>4, <2>5, <2>7, WaitIs DEF WaitsOn
  <2>9. Before(t, s, Chain)
    BY <1>1, <1>7, <2>3, <2>4, <2>6, <2>8, BeforeIs
  <2> QED
    BY <2>3, <2>9
<1> QED
  BY <1>3, <1>5, <1>6, <1>7 DEF Locks

(***************************************************************************)
(* The registers are unbroken whatever fails or is given up: numbers       *)
(* without a gap and without a double, one chain, and no deadlock unless   *)
(* two acts on semesters wait, or two requests for a counter created       *)
(* inline that one of them found missing and shares.                       *)
(***************************************************************************)
THEOREM Unbroken == Spec => []RegistersUnbroken
<1>1. Inv => RegistersUnbroken
  <2> SUFFICES ASSUME Inv PROVE RegistersUnbroken
    OBVIOUS
  <2>1. Gapless /\ ChainUnbroken
    <3>1. \A p \in Partitions : issued[p] # <<>> => counter[p] = Len(issued[p]) + 1
      BY DEF Inv, Numbered
    <3> QED
      BY <3>1 DEF Inv, Numbered, Gapless
  <2>2. DeadlocksAreKnown
    BY DeadlocksKnown DEF Inv
  <2> QED
    BY <2>1, <2>2 DEF RegistersUnbroken
<1> QED
  BY Invariance, <1>1, PTL

-----------------------------------------------------------------------------
(* Semesters. *)

LEMMA CommitTells ==
    ASSUME Inv, NEW s \in Sessions, Commit(s)
    PROVE  NumbersTell /\ CurrentStays
<1> DEFINE r == req[s]
<1>1. Typed /\ Told /\ (r.overtaken \/ Judged(r)) /\ semesters' = Saved(r) /\ req'[s] = Idle
  BY CommitNoted DEF Inv, Told, Commit
<1>2. DOMAIN semesters \subseteq DOMAIN semesters'
  BY <1>1, CommitGrows
<1>3. \A m : ~LateSave(m) /\ r.semester = m => Judged(r)
  BY <1>1 DEF LateSave
<1>4. CurrentStays
  <2> SUFFICES ASSUME NEW m \in DOMAIN semesters, semesters[m].active, ~LateSave(m)
               PROVE  HasCurrent'
    BY DEF CurrentStays
  <2>1. \/ \E n \in DOMAIN semesters' : semesters'[n].active
        \/ IF r.op = "edit" /\ m = r.semester
           THEN semesters'[m].active = r.loaded ELSE semesters'[m].active = semesters[m].active
    BY <1>1, SavedIs
  <2>2. r.op = "edit" /\ m = r.semester => r.loaded = semesters[m].active
    BY <1>3 DEF Judged, UpToDate
  <2> QED
    BY <1>2, <2>1, <2>2 DEF HasCurrent
<1>5. NumbersTell
  <2> SUFFICES ASSUME NEW p \in Keys \cup Centres, NEW i \in DOMAIN issued'[p], NEW m,
                      m = issued'[p][i].semester, Astray(p, i)', ~Astray(p, i), ~LateSave(m),
                      p \in Centres => Counted(m, semesters, issued)
               PROVE  FALSE
    BY DEF NumbersTell
  <2>1. p \notin PartitionsFor(semesters'[m].key)
    BY DEF Astray, PartitionsFor
  <2>2. CASE i \in DOMAIN issued[p] /\ issued'[p][i] = issued[p][i]
    <3>1. m \in DOMAIN semesters /\ issued[p][i].semester = m /\ p \in PartitionsFor(semesters[m].key)
      BY <1>1, <2>2 DEF Told, Astray
    <3>2. semesters'[m].key # semesters[m].key
      BY <2>1, <3>1 DEF PartitionsFor
    <3>3. IF r.op \in {"edit", "activate"} /\ m = r.semester
          THEN semesters'[m].key = r.partition ELSE semesters'[m].key = semesters[m].key
      BY <1>1, <3>1, SavedIs
    <3>4. r.op \in {"edit", "activate"} /\ m = r.semester /\ r.partition # semesters[m].key
      BY <3>2, <3>3
    <3>5. ~Counted(m, semesters, issued)
      BY <1>3, <3>4 DEF Judged, UpToDate
    <3>6. p \in Keys => p = semesters[m].key
      BY <1>1, <3>1, SemesterTyped, PartitionsForIs DEF Typed
    <3> QED
      BY <2>2, <3>1, <3>5, <3>6 DEF Counted
  <2>3. CASE r.op = "register" /\ p = r.partition /\ m = r.semester
    <3>1. semesters' = semesters
      BY <1>1, <2>3, SavedIs DEF SemesterOps
    <3> QED
      BY <1>3, <2>1, <2>3, <3>1 DEF Judged, UpToDate
  <2> QED
    BY <1>1, <2>2, <2>3, IssuedIs
<1> QED
  BY <1>4, <1>5

LEMMA TermsStep ==
    ASSUME Inv, [Next]_vars
    PROVE  (NumbersTell /\ CurrentStays) \/ UNCHANGED data
<1>1. CASE Next
  <2>1. PICK s \in Sessions :
           \/ \E new : Begin(s, new) /\ Fresh(new)
           \/ End(s) \/ (Again(s) /\ Aborted(s))
           \/ EnsureSequence(s) \/ Look(s) \/ Insert(s) \/ Share(s)
           \/ Ask(s) \/ NextNumber(s) \/ WriteAudit(s) \/ Commit(s)
    BY <1>1, Steps DEF Inv
  <2>2. CASE EnsureSequence(s)
    <3>1. UNCHANGED <<issued, semesters>>
      BY <2>2 DEF EnsureSequence
    <3> QED
      BY <3>1 DEF NumbersTell, CurrentStays, Astray, HasCurrent
  <2>3. CASE Commit(s)
    BY <2>3, CommitTells
  <2>4. CASE Again(s) /\ Aborted(s)
    BY <2>4, RetryNoted DEF Inv
  <2>5. CASE \/ Look(s) \/ Insert(s) \/ Share(s)
             \/ NextNumber(s) \/ WriteAudit(s) \/ Ask(s) \/ End(s) \/ \E new : Begin(s, new)
    BY <2>5 DEF Look, Insert, Share, NextNumber, WriteAudit, Ask, End, Begin, data
  <2> QED
    BY <2>1, <2>2, <2>3, <2>4, <2>5
<1>2. CASE UNCHANGED vars
  BY <1>2 DEF vars
<1> QED
  BY <1>1, <1>2

(***************************************************************************)
(* Participant numbers go on telling their semesters, the centre's the     *)
(* year once a number of its own type freezes it, and a current semester   *)
(* stays there: _refuse_frozen_change, asked outside the transaction,      *)
(* suffices until the commit of a request about that semester whose        *)
(* grounds have changed since it was read.                                 *)
(***************************************************************************)
THEOREM Terms == Spec => TermsStand
<1>1. Inv /\ [Next]_vars => [NumbersTell /\ CurrentStays]_data
  BY TermsStep
<1> QED
  BY Invariance, <1>1, PTL DEF Spec, TermsStand
=============================================================================
