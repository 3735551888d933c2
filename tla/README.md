# A TLA+ model of the continuing-education system

The repository is a Django 5.2 application on MySQL 8.4 with which a university's
continuing-education centre runs its courses: participants enrol, pay at a till, are cleared and
certified, and the partners the centre teaches with are paid their share. It is a program about
money and signatures. What can go wrong in it goes wrong between two requests, or after a long
sequence of legal ones, and that is what these modules are about.

Paths below are relative to `src/apps/`.

## How the code works, and what that does to the models

Every operation of the services has one shape:

1. a view loads an instance (`billing/views.py`, `operations/views.py`, ...);
2. the service judges that instance, **before** any transaction, and refuses or goes on;
3. `transaction.atomic()` writes columns of it, without reading the row again and without locking
   it (the one lock is on a number sequence, `core/services/numbering_service.py`).

The isolation level is READ COMMITTED and requests are not atomic as a whole
(`src/config/settings/base.py`). Two requests therefore interleave between 2 and 3, and what
stands between them is the CHECK and UNIQUE constraints of the models alone.

The modules take this over literally. `req[s]` is what session `s` has read. `Read...` is steps 1
and 2, `Write...` is step 3, `Spread...` is what a transaction reads without a lock before it
writes, `Rollback` is a refused constraint or a lost connection. Where the transaction itself reads
before it writes, those reads are steps of their own (`Load...`, `Save...`, `Look`, `Start...`).

Some variables are history. A request in flight knows whether it was `overtaken`, that is, whether
another commit has changed what it was judged by, and `raced` remembers which rows, or which pairs of
operations, were written by such a request. Neither is in a guard except as a bound, so they change
nothing the system may do, and they let a property say exactly what holds in every interleaving, what
holds until a stale write, and which stale write breaks it. Where one stale write must not excuse
another row, the history is kept per row (`rewritten` and `redecided` of `Cohort`, `strays` and
`doubled` of `Offerings`, `overwritten` of `Catalogue`), or the property looks at the step alone and
at the request that makes it (`Periods`, `Journal`).

## The parts of the system

| Part | State | Operations | Model |
| --- | --- | --- | --- |
| Opening balances (`billing/.../opening_balance_service.py`) | `OpeningBalance` with status, three hands and an outcome; `OpeningBalanceRefund`; charge lines written | propose, review, approve, reject, post, carry forward, mark refund due, pay, reverse | `OpeningBalance`, `Obligation` |
| Till (`cashbox/.../payment_service.py`, `closing_service.py`) | receipts, void requests, one `DailyClosing` per cashier and day | take payment, late voucher number, request, approve and reject a void, count and sign off the day | `Till` |
| Ledger of an enrolment (`billing/services`) | charge lines, allocations with their reversals, refunds, deposits, credit returns, discounts | charge, allocate, void, return credit, request, decide and execute a refund, return and forfeit a deposit, discount, apply an old credit | `Account` |
| Enrolment (`operations/.../enrollment_service.py`, `special_case_service.py`, `daily_service.py`) | status, voucher | register, approve, complete, withdraw, dismiss, cancel, mark overdue; defer, substitute, upload names | `Enrolment`; the last three in `Cohort` |
| Clearance, certificate (`operations/services`) | `Clearance` and its steps, `Certificate` | open, custody, two signatures, block, close, cancel; issue, replace, hand over | `Enrolment` |
| Transfers (`operations/.../transfer_service.py`) | `Transfer`, two enrolments with their lines and allocations, the partner's recovery | request, recommend, reject, execute | `Transfer` |
| Cohorts, ministry submissions (`cohort_service.py`, `mohe_service.py`) | `Cohort` status, `MoheSubmission` with its decision and deadline, seats | open, edit, start, complete, cancel; prepare, send, resubmit, approve, reject | `Cohort` |
| Settlements (`settlements/services`) | claims, deductions, obligations, settlements, absences | build, offset and approve a claim; record an obligation; record, waive and fine absences; open, fill, pay and sign a settlement | `Settlements` |
| Catalogue and prices (`catalog/services`) | price lists with items and fee rules, programmes | create, copy, edit, fill, approve, resolve a price; retire and reinstate a programme | `Catalogue`, `Offerings` |
| Partners and agreements (`partners/services`) | agreements with their windows and predecessors | draft, amend, activate, supersede, run out | `Offerings` |
| Financial periods, expenses | periods OPEN or CLOSED, expenses with two hands | create, close; record, approve, reject | `Periods`, and the close in `OpeningBalance` |
| Numbers, audit chain, semesters, registration (`core/services`, `people/services`) | counters, the chain and their locks; semesters | take a number, append, register, create, edit and make current a semester | `Journal` |
| Historical import | batches, rows, links | import, supersede, validate, link, commit | planned |
| Users, permissions, settings, methods, attachments, branding, reports | records and files | | not modelled |

They meet in the tables. Posting an old debt, or applying an old credit, writes into the ledger of
an enrolment. A receipt is allocated to its lines. Approving a void unwinds them, may throw the
enrolment back to `PENDING_FINANCE`, and is refused by a counted day, a signed clearance or a
certificate. A clearance is signed on a zero balance, a certificate issued on the clearance, and
handing the certificate over closes the clearance. A claim bills what the enrolments of a cohort
have paid, and a settlement pays the claims. A transfer voids the lines of one enrolment and moves
their money to another, a decision of the ministry opens or shuts the door to a cohort, an approved
price list prices every enrolment after it, and a closed month refuses all dated money.
`PROJECT.json` has the same list with every source file.

What is hard in each, in short (every item is a hazard in `PROJECT.json`, at its line):

- two people decide one row at one time, or one decides it from a page opened before the other did
  (balances, voids, refunds, clearances, claims, settlements);
- a form sent twice (post, execute, sign, voucher number, penalty);
- money handed back in several ways from one receipt, in any order, and the receipt voided then;
- receipts that keep coming while a day is counted;
- a signature given on a balance that moves before it is saved;
- an obligation deducted from two claims, or a claim offset twice;
- a daily sweep that saves statuses it read when it started;
- a save that looks at the row before it updates it, and a list of rows that is read and then
  written, inside one transaction and without a lock;
- a transfer executed twice, or while a payment is on its way to the enrolment it empties;
- a decision of the ministry that arrives after the cohort was started, cancelled or enrolled on;
- an approval that retires what others stand on: a price list, an agreement, a programme, a month;
- row locks taken in different orders, and transactions that fail with a number in hand.

## Modules

`Obligation` is the abstract promise of an opening balance: one debt or credit takes effect once,
through one channel (ledger, account or cash), and only cash can be taken back.

`OpeningBalance` is the service. `row` is `billing_openingbalance`, one record per key with status,
proposer, reviewer, decider and outcome; `Admits` is the table's CHECK constraints, and a write
that they do not admit does not happen; `lines` counts the charge lines written for a balance;
`payouts` are its `OpeningBalanceRefund` rows; `periodClosed` is the period the cash falls in.
The last section refines `Obligation` (`GivesEffectOnce`).

`Till` is a day of one cashier. A `receipt` has its voucher number and whether it is attached to
the closing; `void` is the one `ReceiptVoid` row a receipt may have; `closing` is the
`DailyClosing` with its totals. The lock `record_external_ref` takes on the closing is why that
write reads the closing afresh (`WriteRef`) and the sign-off does not (`WriteReconcile`).

`Account` is the ledger. `charges`, `receipts`, `rows` (allocations and their reversals),
`refunds`, `deposits`, `returns`, `discounts` are the tables, `carried` the opening credit applied.
`Allocate` and `HandBack` are the two walks of the code: payments fill the lines in
`ALLOCATION_ORDER`, hand-backs walk the positive allocations. Either leaves to an item what the items
before it leave of the amount (`Portion`); the walk is not stepped through, its result is the same.
`Balance` and `Outstanding` are `get_account_state` and `outstanding_for_line`, which do not net the
same things. A void is three steps: what the service judges, the list of allocations its transaction
reads without a lock, and the reversals, one for each row of that list.

`Enrolment` is one enrolment with its clearances and certificates, over a simplified ledger (a
receipt is one unit on one line) that has what the doors look at: the balance, pending voids, an old
debt not yet posted. The steps of a clearance are four fields of its record. A first signature is
three steps: judged (`ReadCertify`), its row loaded inside the transaction (`LoadCertify`), and
saved with every column (`WriteCertify`). `WriteApproveVoid` reaches into the status, as in the
code. A credit goes back from the page of refunds or from the form of a clearance (`ReturnCredit`,
`ReturnCreditAtClearance`). Refunds are left out: a decided refund hands money back whatever was
built on it, on purpose, so what is said of money here is about voids and credit returns.

`Settlements` is one partner. `collected` stands for `shareable_collected`, `deductions[c, o]` for
the deduction rows of a claim, `seal` for the content hash: what the claim held when it was
approved. `apply_offsets` is four steps: it is judged, walks the obligations inside its transaction
without a lock (`SpreadOffsets`), and `PartnerClaim.save` looks whether the claim is frozen
(`SaveOffsets`) before it updates it (`WriteOffsets`). `approve_claim` is three in the same way. The
deductions an offset has inserted hold the claim by their foreign key until it commits (`Referenced`):
that lock alone keeps other saves of the claim out.

`Transfer` is one participant in short courses. `seats` (the enrolments), `money` (`lines`,
`receipts`, allocation `rows`), `transfers` and `partner` (`claims`, `owed`) are the tables,
`approved` the cohorts the ministry has approved of. A request is a `form` at one of the `Desks`, and
`outdated` its history of races. An execution is three steps: what the service judges
(`ReadExecute`), what the transaction reads without a lock (`StartExecute`), and the commit
(`WriteExecute`), which locks the lines it voids before it reads their allocations. The commit adds
three lists of rows: the money `Taken` from the old enrolment, `Laid` on the lines carried over, and
`Left` on no line. `Listing` puts such rows in the order of their indexes; `Account` uses it too.

`Cohort` has two tables more than its name: `files` with the ministry and `enrolments` as seats. An
enrolment is opened in three transactions, as in the code; the upload of names, deferral and
substitution are there because they stand on the same approval. `Stage` is the stage the register
shows. `today` moves on by itself, for the deadline; past it a name is sent by a manager for a written
reason, and `override` is the record of that.

`Catalogue` is the price lists. `InForce` is how a list is resolved at a date, `quotes` is what
enrolments were told, kept so that later steps can be held against it. `Offerings` is what may be
offered: `active` programmes, `agreements` with the one each replaces, `cohorts` on both. An edit of
a cohort saves every column it has loaded, its status too (`SavedCohort`).

`Journal` is one level below all others: a transaction is a sequence of locks. `queue` holds, for
each row, who asked for its lock, first the one that has it; `counter`, `issued`, `chain` are the
number sequences, the numbers given out and the audit rows by the row they follow. Locks
are granted in order of asking, a deadlock aborts one of its transactions (`Victim`), a wait may
time out, and a registration is retried. A request for a lock waits for every earlier request that
conflicts with it, those that still wait themselves included; a server that let some of them pass
would wait less. Most counters are committed before the transaction that locks them
(`EnsureSequence`). Those of `Inline`, the certificates' and the opening balances', are looked for and
inserted within it (`Look`, `Insert`), and where another has inserted them first a shared lock of the
row is taken before the exclusive one (`Share`). A participant of the centre is numbered from the
counter of the year alone (`CentreOf`).

`Periods` has the periods, expenses, and receipts by date. Three movements stand for the nine
services that ask `require_open`.

In every module the operators called `...View` are the pages: which forms a page offers, and what
it loads before a service judges. `Next` is made of them.

`MC...` give the constants values for TLC. `JournalProofs`, `EnrolmentProofs` and
`SettlementsProofs` hold the theorems about the module each is named after, `BalanceProofs` those
about `Account` and `OpeningBalance`, `ClosingProofs` those about `Till` and `Periods`,
`OfferProofs` those about `Offerings` and `Catalogue`, `SeatProofs` those about `Cohort` and
`Transfer`, and `Sums` the lemmas on sums, tables and listed rows that they share. Two components
proved in one module may not share a name, so `Periods` and `Catalogue` call the sessions `Workers`
and their requests `task`, and have `PeriodsSpec` and `CatalogueSpec`; `OpeningBalance` has
`Callers`, `call`, `crossed` and `BalanceSpec`; `Transfer` has `Desks`, `form`, `outdated` and
`TransferSpec`. The words mean what `Sessions`, `req`, `raced` and `Spec` mean everywhere else.

## What the runs show

Eleven runs pass. Each property has a mutant in `PROJECT.json`: a plausible slip in one definition
that the run catches. A property in brackets is a named part of the one before it.

**`opening_balance`** - one balance, two sessions, two officers and a manager who is an officer too.
Proposer, reviewer and approver are three people in every interleaving (`SeparationOfDuties`);
charge lines exist exactly while the balance is posted (`BilledIsPosted`). Until a stale write: cash
out agrees with the status (`CashMatchesStatus`); a debt has one line (`PostedOnceUnlessRaced`); a
balance takes effect once (`GivesEffectOnce`, the refinement of `Obligation`).

**`till`** - two receipts, two voucher numbers, two sessions. A void is asked for and decided by two
people, and a receipt is void exactly when its request was approved (`VoidsAreDecided`); a counted
receipt is not voided, no day is signed off with an unexplained difference, only issued receipts are
attached (`ClosingStands`); a voucher number is not replaced, a signed day not reopened
(`WrittenForGood`).

**`account`** - tuition and a deposit, two sessions, three movements. The paid column is the receipts
less what was handed back, and no line is paid above its gross (`LedgerAddsUp`); a deposit is settled
once and a void cancels what its receipt did (`SettlementsStand`); a credit return brings the account
to zero and a decided refund stays decided (`MovementsStand`). Each names the race that breaks it,
where there is one.

**`enrolment`** - a course of one unit, two receipts, two sessions. A running enrolment has paid or
owes nothing, unless one payment was handed back twice, and money under a signature or a certificate
is not taken back, unless a void and what stands on its money, two changes of the status, or two
requests about one form were written over one another (`StandsOnMoney`); a certificate means
completion, one is in force, and clearances complete in order, unless a first signature was saved
over the second (`PapersTellTruth`); a final status is final (`FinalStaysFinal`). Without any of the
first three TLC finds a violation.

**`settlements`** - two claims, two obligations, one absence, one settlement, two sessions. What was
deducted is what was recovered, a lecture is fined once, what is due is the net of what is attached
(`ChargedOnce`); an approved claim stays approved, and its figures move only by a request that looked
at the claim, in `save`, before another updated it; what both sides signed is paid and stays, but for a
request that loaded it before (`SignaturesStand`).

**`transfer`** - one participant, two courses, three enrolments, two transfers, two desks. Money is
moved, neither made nor lost (`MoneyStays`); the enrolment moved away from is empty (`SourceEmptied`);
one seat is live (`OneSeat`); the partner gives its share back once (`RecoveredOnce`); a first move
leaves tuition at the new price (`PricedAtFirst`): together `MovedWhole`. What was decided stays
decided (`DecisionStands`). Each names its exceptions: two executions at one time, a payment under
way, a refund before the move; for the share, two requests at one time, or a rejected transfer brought
back by a decision that had not seen the rejection.

**`cohort`** - two cohorts, two files, two seats, two days, two sessions and interruptions. Nobody
sits on a cohort without an approval but by a deferral or in the place of someone deferred
(`EnrolledUnderApproval`), the stage shown is backed by a file in that state (`StageHasItsFile`), names
reach the ministry within the deadline or with an override on record (`NamesInTime`):
`AgreesWithMinistry`. The first and the last except a cohort one of whose files was decided or sent
over a newer decision (`redecided`), the second a cohort whose status was saved over a newer one
(`rewritten`), and no other cohort. A completed or cancelled cohort stays so at every step but the
commit of a decision of the ministry about it, which does not ask, or of a request about it that
another had overtaken (`FinishedStays`).

**`catalogue`** - two lists in two semesters, two days, an enrolment, two sessions. What an enrolment
was quoted can still be read off its list, unless that list was written by a request that had read it
before its approval (`QuotesStand`); a day with prices keeps them, except through the approval of a
later list of the semester in force, or such a write in that semester (`PricesStayInForce`).

**`offerings`** - three agreements of one partner, a programme, a cohort, three days, two sessions.
No cohort runs on a retired programme, but one that the ministry gave back its status or whose status
or programme was saved by an overtaken request (`strays`), and one agreement alone replaces another,
unless one of them was activated by an overtaken request (`doubled`): `OffersStand`. A partner under
an agreement today stays under one, except through an appendix that begins later or was judged before
midnight (`StaysPartnered`).

**`journal`** - two sessions, two year-and-types of two years with the centre's counter of each, a
counter prepared beforehand and one created inline, up to two semesters. Numbers have no gap
and no double, the chain is not forked, and a deadlock is one in which two acts on semesters wait, or
two requests wait for a counter that one of them found missing in its own transaction
(`RegistersUnbroken`). A number goes on telling its semester, and once a semester is current one
always is, except by the commit of an overtaken request about that semester; a number of the centre
tells only the year, and only once its semester has a number of its own type too (`TermsStand`). Every
request ends (`EveryRequestEnds`, the liveness property).

**`periods`** - two periods, expenses and receipts, three days, two sessions. A day in a closed
period keeps its receipts, voids and expenses (`MonthStaysSigned`); who closed a period or decided an
expense is not overwritten (`SignaturesStand`). The first excepts the commit of a request about that
day that was judged before the close, the second that of a second hand on the same row; whatever any
other request did before excuses nothing.

`account_refunds` shows code and words disagree, with one request at a time: a second partial refund
walks the positive allocations again and takes from tuition what the first gave back already; tuition
ends below zero, the registration fee stays paid, while `billing/services/refund_service.py` says the
refund mirrors the allocation and the registration fee goes last.

### Divergences met while modelling, without a run of their own

Each is a behaviour of a module here, found by stating a property as the code's words have it.

| What the code does | What is said | Where |
| --- | --- | --- |
| two overlapping posts both write a charge line | "it can run once ... a second attempt collides at the database" | `OpeningBalance`, `post` |
| after a discount, an excess payment sits on charge lines and cannot be returned | "an excess payment always lands in rows with no charge line" | `Account`, `credit_service.py` |
| two returns hand one payment back twice, the others are voided: the sum paid is below zero, not zero, and an enrolment with no payment left is approved (15 steps, three receipts, one request at a time) | "no payment at all against a live charge" is refused | `Enrolment`, `enrollment_service.py` |
| a returned deposit can be refunded again | at most "what was actually collected" | `Account`, `refund_service.py` |
| a completed clearance asked to certify or close again goes back to BLOCKED and can be cancelled | "a completed clearance is not cancelled" | `Enrolment`, `clearance_service.py` |
| offsets applied twice overwrite the total of a claim | "every deduction names its origin" | `Settlements`, `claim_service.py` |
| two months of one agreement bill the same money | "what was actually collected in the period" | `Settlements`, `claim_service.py` |
| a settlement is signed while an approved claim of its period is not attached | nothing is outstanding | `Settlements`, `settlement_service.py` |
| a refund executed while the claim that bills its money is a draft raises no recovery | the share paid for it is recovered | `Settlements`, `refund_service.py` |
| a second move prices the difference from the tuition lines alone and leaves out the difference charged at the first | the price of the new course | `Transfer`, `fee_difference_for` |
| a decision arriving late puts a cancelled cohort back to PLANNED | a finished cohort is history and not edited | `Cohort`, `mohe_service.py` |
| an enrolment whose charges failed owes nothing and is approved unpaid | an enrolment comes with its charges | `Cohort`, `enrollment_service.py` |
| a cohort is edited to start outside the window of its agreement | refused when it is opened | `Offerings`, `cohort_service.py` |
| approving a list that begins later archives the one in force: the days before have no price | one list is in force | `Catalogue`, `catalog_service.py` |
| an expense recorded before is approved in a closed month | a closed month does not move | `Periods`, `expenses/models.py` |
| a participant of the centre, of a semester with no other number, does not keep its year from being edited: the number then tells a year that is not the semester's (one request at a time) | "Once one has been issued they are history" | `Journal`, `semester_service.py` |
| `save` looks whether a claim is approved, without a lock, and updates it afterwards: an approval committed in between is overwritten by an offset, or by an older approval | "an approved claim does not change" | `Settlements`, `settlements/models.py` |
| a void lists the allocations of its receipt and then reverses them: a hand-back that commits in between is not reversed | a void leaves nothing of its receipt on the account | `Account`, `payment_service.py` |
| a first signature whose row was loaded before the second one is saved over it: the second is gone from the row, and a closing judged before completes the clearance without it | the steps of a clearance are signed in their order | `Enrolment`, `clearance_service.py` |
| two certificates, or two opening balances, that are the first of a year may deadlock on the counter both create | "contention is an ordinary row-lock queue" once the row exists; here it does not yet | `Journal`, `certificate_service.py` |
| the closing sums the receipts at the count and attaches those of the sign-off | "so the closing is reproducible later" | `Till`, `closing_service.py` |

Known to be hard, and covered by no property: a discount granted while the first payment is being
allocated changes the base of the partner's share (`billing/services/discount_service.py`); the
minimum of the first payment is checked before the first receipt is voided
(`cashbox/services/payment_service.py`); the credit return of a clearance step is linked after the
money went, and an old debt is looked for at the first signature alone
(`operations/services/clearance_service.py`).

### Bounds, and why they are enough

- *Sessions*: two. A race is a commit between the read and the write of another request, and two
  sessions reach every pair of operations, each session serving any number of requests.
- *Rows*: the bounds (`MaxPayouts`, `MaxMovements`, `MaxReceipts`, `MaxLines`, `MaxClearances`,
  `MaxCertificates`, `MaxClaims`, `MaxObligations`, `MaxSettlements`, `MaxEnrolments`, `MaxSeats`,
  `MaxTransfers`, `MaxRefunds`, `MaxCohorts`, `MaxFiles`, `MaxLists`, `MaxQuotes`, `MaxAgreements`,
  `MaxPeriods`, `MaxExpenses`, `MaxRows`, `MaxEvents`, `MaxSemesters`, and `MaxUnused`, the counters
  prepared for a number that was not taken) are guards of the actions that create rows, and admit
  the rows a property needs to be broken: a payout and its repetition, a certificate and its
  replacement, two claims for one debt, two transfers out of one enrolment, two files of one cohort,
  two drafts that replace one agreement, two lists of one semester. `Enrolment` has one clearance:
  the run goes on after its cancellation, but does not open a second. `MaxValue` and `MaxAttempts`
  are the code's own constants, made small so that they are reached.
- *Days*: two or three, for before, within and after a window; a third separates an appendix that
  begins later from one in force.
- *Amounts*: units that let a payment end inside a line, at its edge and beyond the last one. In
  `Transfer` the courses cost 1 and 2, the registration 1, a payment 3: dearer and cheaper moves.
- *Agreements in `Settlements`*: one. Whether an obligation is pinned to an agreement or the
  partner's comes to the same then; two agreements bring no further pair of writes to a row.
- *Overlap*: `MayOverlap` lets two requests be in flight together only if one could make the other's
  reads out of date. The others commute, and an interleaving of them has the same effect as one after
  the other.
- *Races*: what two separate races do to one another is mostly not explored. After one stale write
  `Enrolment` and `Transfer` (`MaxRaces`), one rewritten cohort `Cohort` (`MaxRewritten`), one
  overwritten list `Catalogue` (`MaxOverwritten`) and one agreement activated late `Offerings`
  (`MaxDoubled`) go on with one request at a time; `Settlements` begins no other request while there
  was a race or one is under way (its `MaxRaces`). `Offerings` goes on overlapping after a stray
  cohort, and `Periods` and `Journal` after everything. In all of them the theorems have no such bound.
- *Symmetry*: sessions, and users, voucher numbers, years of receipts, receipts, participants,
  semesters or partners where nothing orders them, in the runs of properties that do not tell them
  apart. `Journal` has a liveness property and no symmetry.

`CHECK_DEADLOCK FALSE` stands where the row bounds end the behaviour: the system itself always
takes another request. `OpeningBalance` and `Till` are checked for deadlock, since their requests
can always be refused and asked again.

### Fairness

In ten of the eleven none is assumed and no liveness is claimed. A step is a person pressing a
button: an officer may never review, a cashier never count, a partner never sign, and nothing in the
code makes them. The daily sweep is a command an operator schedules. "Eventually" would be true of
the people, not of the program.

`Journal` is about the program alone, and there it can be said that every request ends. `FairSpec`
assumes that a worker goes on with the request it serves while it is not waiting (weak fairness of
`Advance(s)`: it is a thread that runs), and that MySQL's deadlock detection ends one transaction of
every deadlock (weak fairness of `Victim`; InnoDB has it on by default). Timeouts, rollbacks and new
requests are not fair: they may happen or not. What makes the property true is that locks are granted
in the order asked for, that the retry of a registration is bounded by `MAX_CREATE_ATTEMPTS`, and that
a deadlock, of acts on semesters or of a counter created inline, is resolved by ending a transaction.

## What is proved

Every property of the eleven runs, but the liveness of `Journal`, as a theorem for all
values of the constants: any number of sessions, people, rows, days and amounts. The only assumptions
are those the modules name (`ConstantsAssumption` and the like): bounds are numbers, a price and a
receipt are not zero, NULL is nobody, there is a programme, a participant, a day, a course, names of
different locks differ, a cohort has finitely many absences. TLC evaluates them in the runs.

| Module | Theorems |
| --- | --- |
| `BalanceProofs` | of the account: `TypeCorrect`, `AddsUp`, `SettlementsSettled`, `Movements`; of opening balances: `BalanceTypeCorrect`, `DutiesSeparated`, `DebtBilledOnlyWhenPosted`, `SourcesDistinct`, `PostedOnceWithoutRaces`, `CashFollowsStatus`, `PayerDiffersFromDeclarer`, `ImplementsObligation` |
| `ClosingProofs` | of the till: `TypeCorrect`, `VoidTakesTwo`, `DayStands`, `ForGood`; of the periods: `PeriodsTypeCorrect`, `MonthSigned`, `Signed` |
| `OfferProofs` | of the offerings: `TypeCorrect`, `NothingStrands`, `PartnersStay`; of the catalogue: `CatalogueTypeCorrect`, `PricesAreKept`, `DaysKeepPrices` |
| `JournalProofs` | `TypeCorrect`, `Unbroken`, `Terms` |
| `SeatProofs` | of cohorts: `TypeCorrect`, `MinistryAgrees`, `HistoryStays`; of transfers: `TransferTyped`, `MovesWhole`, `DecisionsStand` |
| `EnrolmentProofs` | `TypeCorrect`, `PapersAreTrue`, `MoneyStands`, `FinalStays` |
| `SettlementsProofs` | `TypeCorrect`, `DebtsChargedOnce`, `SignedAndSealedStand` |

### The argument they share

The guard of a write was evaluated one step, and any number of other requests, before it. So no
property is inductive by itself: what is missing is what each request in flight has seen. The inductive
invariants say, of every request, *either another commit has overtaken it, or what it was judged by is
still so* (`FreshGuardsHold`, `Judged`, `CatalogueJudged`, `UpToDate`, `PaperJudged`, `Grounded`). A
step keeps that for the others because a commit marks whatever it outdates, and lets the request that
commits count as if its guard had been evaluated now. A write from an overtaken request is in the
history, of that row or of that pair of operations, and of these alone nothing is claimed; where a
property is of steps (`Periods`, `Journal`, `FinishedStays`, `PricesStayInForce`) it is the step
itself that is excepted and nothing after it. What holds in *every* interleaving does without this
half: it comes from the constraints of the tables and from what no step undoes.

### What is particular to each

- `Account`. `Inv` has three equations between tables (the payment rows of a receipt come to the
  receipt; what is paid is what was collected less what was handed back; the rows of a voided receipt
  come to nothing) and, of requests, that what a payment brings comes to its amount, and what a
  hand-back takes lies on receipts in force unless a void overtook it (`ReceiptSeen`), and of a void
  that it has listed every row of its receipt unless a hand-back overtook it (`ListSeen`). The rows a
  commit adds are laid over a finite set of lines or rows (`Written`), so one lemma says what any
  commit adds to the sum over any set of rows (`MoneyWritten`); all three equations follow from it.
  That no line is overpaid is kept for two payments by the lock on the numbers of the year
  (`OneByOne`, `LinesKept`), and given up where two receipts of different years overlapped.
- `OpeningBalance`. `Constrained` (types, rows admitted by the CHECK constraints, an absent row blank,
  one balance per source, lines exactly where posted) needs nothing of what a request read: separation
  of duties and billing hold through the constraints, wherever the guards are. `History` adds the
  requests. `StatusTellsEffect` gives the abstract state of an undisturbed balance from its status, and
  each write is one step of `Obligation` or a stutter.
- `Till`. The invariant is the conjunction of the properties with what requests about voids and the
  closing have seen. `TypeCorrect` has to show that the totals of a closing are numbers, see below.
- `Periods`. A request no commit has overtaken sees the days and rows it was judged by as they are
  (`Current`), so what it writes is dated in an open period, and what it signs is unsigned.
- `Offerings`. No cohort is live on a programme that a request in flight is about to retire, but a
  stray (`Vacant`). An edit or a start that was not overtaken saves the status the cohort has, so it
  revives none.
- `Catalogue`. The list in force on a day is the latest that has begun; that there is one
  again after every step is argued from the set of candidates, not from the choice. Only the approval
  of a list that begins later, or a late write, can leave a day without. A request that was not
  overtaken writes a draft, and no quote names one (`Kept`).
- `Cohort`. `SeatStands` and `StatusStands` tie a seat and a stage to an approved file, a name to its
  deadline or its override; `Grown` says which approvals nothing takes away, of the cohorts none of
  whose files was decided over another decision (`Firm`).
- `Transfer`. `TransferInv` has the tables typed with what their rows refer to, what a row says of
  itself (`MovesTell`), and of each form that what it is about is there (`FormFits`) and what it has
  read is still so unless overtaken (`FormSees`). The rest is one part for each part of `MovedWhole`:
  `MoneyStays` and `Priced` say it again, `Emptied`, `Seated` and `Alive` add what the forms must leave
  alone. `MoneyStays` needs that what an execution takes, lays and leaves cancels, receipt by receipt
  (`RelaidWhole`); where a refund came first it does not, since of a reversed row nothing is laid.
  `Alive` is why the share comes back once: from one enrolment one transfer at most is
  anything but rejected, and an obligation bears the code of its transfer, which is unique.
- `Journal`. Five invariants, each relative to the ones before: what a request is (`Typed`), that it
  holds the locks of its kind in one order (`LocksOrdered`), that what it took under a lock is still
  the next number and the last row (`Taken`), that the registers are unbroken (`Numbered`), and what it
  read of semesters (`Told`). Which deadlocks there are follows from the order: of requests that lock a
  counter and then the chain, a cycle would have to turn at the chain, whose holder waits for nothing,
  unless two acts on semesters wait, or one waits for a counter it shares with another.
- `Enrolment`. `Inv` has the rows, the order of the steps of a form, and that only a completed course
  has a graduate's form. `Funded`, relative to it, has the money: lines are voided by a cancellation
  alone and forms opened after the course alone, so the price is due while anything stands on it;
  an approval in flight has found a payment, a void leaves one, a signature in flight has found the
  price paid, and a void none of them. `StepsStand` and `StepJudged` say of a form that its second
  signature stays once a clearance is closed on it, and of a first signature in flight that it saves the
  second as it is, unless the second was saved since.
- `Settlements`. `Inv` has the tables typed, with the limits that the CHECK constraints give them,
  and two things of every request in flight: it is *apt* (its rows exist and what it brings can be
  written, however often it was overtaken) and, race by race, *up to date* unless that race has
  overtaken it. From there `RecoveredHolds`, `FinesHold` and `DueHolds`, equations between a column
  and a sum over another table, are kept by one lemma each on what one row adds to a sum, and given
  up when their race is in `raced`. A request that spreads a share over obligations carries the sum
  of its portions, which is at most the share: that is why no claim bears more than it, in any
  interleaving. What `save` saw of the freeze is `FrozenSeen`; `SealStands`, the seal of an approved
  claim, is kept by every step but a late commit (`LateIs`).

*Sums* (`Total` of `Till`, `TotalPaid` and `TotalDue` of `Enrolment` and `Account`, the equations of
`Account`, `Transfer` and `Settlements`) are folds of the community
modules, recursive functions on finite sets. No induction over data is available to the provers, so
that a fold is defined, typed, and changes by what one element adds is proved by minimal
counterexample: among the finite subsets on which it failed there would be one minimal under
inclusion. The least row (the first line owed, the first fee collected, the latest file) is found the
same way. The lemmas are in `Sums`.

### What proving corrected

Looking for the invariants showed properties that held in their runs only because the bounds hid a
counterexample, an action that was missing and a check that was left out; the modules say now what is
true.

- `Journal`: numbers and chain never deadlock with two sessions; with three, a registration waiting
  for the chain may be the one given up while two acts on semesters wait (`ActsCross`).
- `Cohort`: a seat taken by deferral, without an approval, can be passed on by a substitution
  (`opened` of an enrolment goes with it); it takes three enrolments to see it.
- `Enrolment`: the credit return of the refunds page was missing, and with three receipts one payment
  is handed back twice and the enrolment runs on less than nothing: the exception in `ActiveOnMoney`.
- `Transfer`: two requests at one time are not the only way the partner's share is taken back twice.
  A recommendation is read, the transfer is rejected, a second one is requested from the same
  enrolment, the recommendation is saved and brings the first back, and both are executed at once
  (20 steps, three stale writes; the run stops at one). `RecoveredOnce` names that exception.
- `Account`: `allocate` adds up what it has spread and refuses a receipt its parts do not come to
  (`payment_service.py`, after the loop). The model left that check out; the proof that a payment
  brings its amount needs it, so `SpreadPayment` has it now.
- `Settlements`: that whatever is signed is paid is not kept by the steps that leave a settlement
  alone when one was signed on an outdated balance before; `SignedStands` now speaks of the step
  that signs and of what no step changes after.

### What reviewing corrected

Reading every definition again beside its lines found steps that were easier than the code, and
exceptions that were wider than their words.

- *Reads inside a transaction.* `approve_void` lists allocations, `PartnerClaim.save` looks at the
  freeze, and a first signature loads its step, each without a lock and before the write: they were one
  step with the write and are steps of their own now (`Account`, `Settlements`, `Enrolment`). The
  properties name the races this lets in.
- *Counters created inline* (`Journal`): the certificates' and the opening balances' do not come before
  their transaction, and can deadlock alone.
- *The numbers of the centre* (`Journal`), which do not freeze the year they tell.
- *Edits and starts of a cohort* (`Offerings`), which save a status loaded before.
- *The upload past the deadline* (`Cohort`), which a manager may let pass for a written reason.
- *Histories per row.* One overtaken write of any row used to excuse every row from then on, in
  `Periods`, `Catalogue`, `Cohort` and `Offerings`. What is excepted now is a row, or a step.

### What is only model-checked

- `EveryRequestEnds`, the liveness of `Journal`, and with it everything about `ENABLED`: the prover
  has no rules for fairness over these actions.
- The violation that `account_refunds` shows.

## Left out, and why

Who may ask (the permission matrix) is left out except where two hands must differ. So are names,
wording, printing, the audit log's content, and the parts listed as not modelled in `PROJECT.json`,
each with its reason. `Enrolment`'s course has no deposit; `Transfer` has neither deposits nor
discounts. `Account` has no financial period and no status of the enrolment; `Till` has no clearance;
`Cohort` has no capacity, which guards an edit and is read by nothing else. In each case the module
lets more requests pass than the code, so what it shows to hold, holds with the guard too.

Some functions of the services are called by nothing but tests (`close_name_list`,
`supersede_agreement`, `change_status`): the system cannot take those steps, and neither can the
models. Reports, exports, attachments, document texts, user administration and reference lists are
queries and single-row edits without a protocol: there is nothing in them for two requests or a long
sequence to get wrong that the modules above do not have.

Runs: one for each question. The divergences above had runs of their own while they were found; what
each showed is kept as text, with the module that still has the behaviour.

## Plan

Done so far: the money (`OpeningBalance`, `Till`, `Account`), the enrolment to its certificate
(`Enrolment`), the partner (`Settlements`), moves between courses (`Transfer`), the ministry
(`Cohort`), prices and agreements (`Catalogue`, `Offerings`), and what everything is written through
(`Journal`, `Periods`).

Proved so far: what the section above lists.

Next, in this order:

1. Abstract specifications: a decision taken once by two people (`Account`'s refunds, `Periods`'
   expenses), a day that is signed once (`Till`), a register without gaps (`Journal`).
2. A composition of `Account`'s refunds with `Settlements`' claims: what a partner was paid for money
   given back later is recovered once.
3. The historical import: batches superseded, validated, linked and committed to the archive that
   `OpeningBalance` takes as given.
