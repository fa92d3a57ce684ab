# PlanForge PMS, checked and proved

PlanForge is a hotel property management system in front of OPERA: a NestJS
service with a PostgreSQL database (Prisma) that keeps a *copy* of what OPERA
decides, and adds what OPERA does not do for it: card payments at a PSP, room
keys at a lock vendor, a city ledger of company accounts, cashier shifts,
housekeeping tasks, its own users.

Almost every write is a chain of awaits over systems that share no
transaction: read our rows, call the PSP, OPERA (through Core) or the lock
vendor, write our rows, copy OPERA's answer. Nothing is locked between two
awaits, so the requests of several clerks interleave at each of them, an answer
may get lost after its effect took place, and the process may stop anywhere.
That is what the modules here model: **one action per await**, a record
`req[c]` with what the request of clerk `c` has read and still uses, and a
constant (`Trouble`, or a bound such as `MaxDead`) that says which failures of
the environment may happen.

## Contents

1. [Inventory](#inventory)
2. [Plan](#plan)
3. [Modules](#modules)
4. [Runs](#runs)
5. [What is proved](#what-is-proved)
6. [Where the code disagrees with its comments](#where-the-code-disagrees-with-its-comments)
7. [What is not modelled](#what-is-not-modelled)
8. [Checking it](#checking-it)

## Inventory

Paths are relative to `src/src/`. "OPERA" stands for Core and OPERA behind it.

| Component | State it keeps | Operations | Talks to | Hard about it | Correct when |
|---|---|---|---|---|---|
| Payments `payments/` | payment rows, unique by idempotency key | authorize (card, cash), capture, void, refund | PSP driver, OPERA postings, folio mirror, cashier shift | duplicate keys in flight, lost answers of PSP and OPERA, crash between PSP and row, stale refundable amount | money taken is recorded and on the folio once; refunds stay within what was taken; a guest is held and charged once per key |
| Payment driver `payments/*.driver.ts` | the PSP's transactions | authorise, capture, void, refund | called by payments | declined or unknown; the key is not looked at | a transaction is captured or voided once |
| Folio mirror `folios/folio-mirror.ts` | copies of folios and postings | copy OPERA's answer, delete what it does not name | called by payments, folios, POS, AR, check-out | answers copied out of order | our copy follows OPERA |
| City ledger `ar/` | accounts, transactions, allocations, invoices | transferFolio, recordPayment, createInvoice, updateInvoiceStatus, updateAccount, aging | OPERA postings, folio mirror | reads outside the transactions, OPERA settled and ledger not written, number generation | a window is charged once, an invoice asks for exactly its charges, the oldest are paid first, limits are passed by no more than what was charged meanwhile, report and detail agree |
| Front desk `reservations/reservations.service.ts` | reservation and room rows | checkIn, checkOut | door lock, OPERA, folios | keys, OPERA, rows in one request; key issue and pull at the same time | no card of a guest who left or moved opens a door; rows say what OPERA says; who leaves owes nothing |
| Door lock `doorlock/` | room key rows | issue, reissue, revoke, revokeActive | lock vendor driver | lost answers, one card of several failing, crash after encoding | a card recorded as dead is dead; what had to die is dead first |
| Folios `folios/folios.service.ts` | folio windows, routings | openWindow, recordDeposit, addPosting, transferPosting, setRouting, removeRouting | OPERA, folio mirror | posting moved before its payment is linked; charge against closing | a posting is on one window, balances are the sums of postings |
| Point of sale `pos/` | POS charges, outlets | postCharge, voidCharge | folios, reservations | duplicate sends, duplicate voids | a check is charged once and reversed once |
| Booking `reservations/booking.service.ts` | reservation rows, profiles | create, update, cancel, guarantee, no-show, waitlist, share, unshare | OPERA, sync log | OPERA did it and the local write failed; find-then-create | rows are OPERA's answers; penalties are on the folio; guests are not doubled |
| Pull and sync log `sync/` | reservation rows, sync log | syncReservations, start and finish of a log row | OPERA | two writers of one row; the pages of a list; log row left pending | a pull that ended well missed nothing; the log is not ahead of OPERA |
| Rooms: outages and housekeeping `room-outages/`, `housekeeping/` | room status, outages, tasks | create, release; updateRoomStatus, tasks, discrepancies | OPERA | four writers of one status column | our rooms agree with OPERA's and with who is in house |
| Cashier `cashier/` | shifts | open, close, summary | payments | two opens; close against a cash payment in flight | one open shift per cashier; a counted drawer shows no difference |
| Users and authentication `users/`, `auth/` | users | login, create, update, guards | | two administrators demoting each other; a token that outlives its role | an active administrator is left |
| Profiles `profiles/` | guest profiles | create, update, merge | OPERA, reservations | merges that cross, or cross a booking or a pull | one row per OPERA profile, merged rows lead to a live one, stays go along |
| Traces `traces/` | instructions on a stay | create, complete, remove | | complete against remove | |
| Night audit, journal, reports | none | audit, daily report, performance report, journal | reads all of the above | the past read later; rounding | past days are kept, parts add up, the journal balances |
| Group blocks `blocks/` | blocks and their allotments | list, get, create, update | OPERA | answers copied late, or some of a list not | a row says what one answer said |
| Rates, rooms list, properties | rooms, properties | read or pass through | Core | | |
| Core client `core/` | none | HTTP with a time limit | OPERA | unknown outcome | refused and unknown are told apart |

The hazards of each component, with the line where each bites and the
properties that watch it, are listed in `PROJECT.json` under `hazards`. Some of
them the code does not guard against: there the outcome is permitted, the entry
says so, and the property named, if there is one, says what remains true.

## Plan

In the order of what would cost a hotel most.

| Step | Modules | State |
|---|---|---|
| 1 | `PaymentLifecycle` (abstract), `OperaFolio`, `Payments`, `PaymentBooks`, `PaymentsHistory`; invariant and refinement proved | done |
| 2 | `ArLedger`, `ArStatements`, `ArHistory`; invariants proved | done |
| 3 | `FrontDesk`, `DeskHistory`: check-in, check-out, room keys; invariant proved | done |
| 4 | `FolioDesk`: windows, deposits, postings, transfers, check-out's balance check and closing; invariant proved | done |
| 5 | `PosCharges` on `FolioDesk`, with the promise `PosCheck` it implements; refinement proved; `Journal` over both | done |
| 6 | `Bookings`, with the promise `ReservationCopy` it implements; invariant and refinement proved | done |
| 7 | `RoomStatus`, `Staff` (users, shifts, tasks, instructions), `Profiles`; invariants proved | done |
| 8 | `Reports`: the performance report and the night audit; invariants proved | done |

Left: group blocks, the outlets' table and the terminals' keys, routings, room
types and rate plans.

Every module keeps to what can be proved about: no `RECURSIVE`, named
assumptions on the constants, one action per step, invariants as conjunctions
of named parts. Every safety property and every refinement the runs check is
proved as well; what is left to TLC is at the end of
[What is proved](#what-is-proved).

## Modules

Two things are common to most modules.

* A request is a `Start...` that reads and checks, and one action per await
  after it (`CoreAnswers`, `Write...`), with `CoreRefuses`, `...Silent`,
  `...Fails` and `Dies` where those may happen instead.
* `calm` is a history variable: no two requests overlapped so far, and nothing
  failed. What the code's authors rely on holds under `calm`, since nothing is
  locked; what is stated without it survives every interleaving and failure.
  The code never reads it. Both kinds are checked in one run. A property guarded
  by `calm` is about sequences of requests, long ones and of all kinds; it says
  nothing of two that overlap, of a lost answer or of a process that stops.
* Other history variables name exactly what was disturbed, where the code lets
  the harm be told: the keys of `uncertain` (payments), the invoices of `raced`
  and the windows of `lost` (city ledger), the log rows of `lost` (bookings).
  The property is then stated for everything else.

### Payments

* `PaymentLifecycle` - what the component promises for each payment: held,
  taken or released once; credited on the folio only with money that was taken,
  once, for the amount taken; no more recorded as returned than was taken.
* `OperaFolio` - OPERA's folio window and our copy (`folio-mirror.ts`): a check
  number is accepted once, a closed window takes no posting, the copy is
  replaced by each answer and local links survive only on postings OPERA names.
* `Payments` - `payments.service.ts`. `pay` are our rows by idempotency key,
  `psp` the PSP's transactions, `opera` and `local` the folio and its copy,
  `linked` the check numbers whose local posting carries a payment id. A
  capture, for instance, is `StartCapture` (the row is read and checked),
  `PspDone` (the PSP takes the money), `WriteCapture` (the row), `CorePosts`
  (OPERA's posting) and `Mirror` (our copy), with `PspRefuses`, `PspSilent`,
  `CoreKnows`, `CoreRefuses`, `CoreSilent` and `Dies` where those may happen
  instead. Check-out closes the window in two steps (`CloseAtOpera`,
  `CloseLocally`). The PSP makes a new transaction for every
  authorisation it is sent: the driver does not look at the key.
* `PaymentBooks` - statements that sum over postings, and the liveness
  statements. Refunds are told apart by the refunded total rounded to a whole
  unit of `Whole` minor units (`RefundNo`), so those on the folio may fall short
  of the total on the row by less than a unit for each of them
  (`RefundsHeardOf`). `PaymentsHistory` adds `calm`, and `uncertain`: the keys
  two requests asked the PSP for at once, or one asked for and then ended
  without an answer or without its row.
* `PaymentsProofs` - the theorems, over all of these.

### City ledger

* `ArLedger` - `ar.service.ts` for one account. `opera` and `local` are the
  windows of a reservation, `charges` the CHARGE transactions, `invoices` the
  invoices by number with their status, total and the sum of what was put on
  them, `paid` the sum of payments. A transfer has OPERA's posting and its
  answer in between. `CoreAnswersKnown` chooses between a Core that answers a
  check number it knows with the folio as it is and one that refuses it.
  Invoice numbers are compared the way the database compares the padded text
  (`Base`, `Padded`).
* `ArStatements` - what is read off it: the automatic allocation of a payment
  (`AutoPlan`, a fold over the open invoices, the earliest due first and of
  those the earliest issued), the aging report and the account detail. Due
  dates are an arbitrary function of the invoices and the order of issue an
  arbitrary order, since `ArLedger` keeps neither. The detail flags invoices
  past due *today*, and only among the last `DetailShows` issued (50 in the
  code); the report counts from the day asked for, `Ahead` days from today, and
  over all invoices. The two therefore agree for today as long as the detail
  lists everything, and for a later day the detail flags no more than the
  report (`AgingAgrees`); for other days and longer lists they do not agree,
  and nothing is claimed.
* `ArHistory` - the ledger with what its requests have overtaken: `reach`, what
  a transfer may bring the balance to (the limit it was checked against plus
  what others charged since); `stale`, the invoices a request has read and
  others wrote since; `raced`, those it wrote, or billed the charges of anew,
  all the same; `lost`, the windows whose transfer was cut off after OPERA took
  it. The properties of the ledger are stated in terms of them, for any number
  of clerks and with failures.
* `ArLedgerProofs` - the theorems, and the facts about sums they need. The
  charges and the invoice numbers are finite sets (`ArAssumption`), since the
  ledger adds them up.

### Front desk and room keys

* `FrontDesk` - `checkIn` and `checkOut` of `reservations.service.ts`, all of
  `doorlock.service.ts`, and what a pull does to a stay. `stay`, `room` and
  `key` are our rows; `opera` OPERA's reservations; `lock` what each card
  opens, with the guest it was handed to as a ghost. `ListKeys` is
  `revokeActive`'s query, then each card is killed at the vendor
  (`VendorKills`) and marked (`MarkRevoked`), after which the request goes on
  to OPERA (`OperaChecksIn`, `OperaChecksOut`), to the encoder
  (`VendorEncodes`), or ends. Guests of one group in `Sharing` may be in one
  room; check-out vacates it under the partner who stays. `WriteIn`, `WriteOut`,
  `RecordKey` and `WritePull` are the last transactions.
* `DeskHistory` adds `calm` and what desk, OPERA and doors owe each other.
* `FrontDeskProofs` - the theorems about `FrontDesk` and `DeskHistory`.

### Folios, point of sale, journal

* `FolioDesk` - the windows of one stay: `opera` (windows, postings, reversals)
  and `local` (status and balance of each window, the row of each posting with
  the tag of who made it and the reversal that voided it). `Mirrored` is all of
  `mirrorFolios`: windows named in the answer, their balances, rows moved,
  deleted and linked. Openings, deposits, postings, transfers, the postings of
  payments and check-out's check and closing are its requests. The desk posts
  either sign. A payment looks at our window first (`StartPay`); OPERA is asked
  in a step of its own (`CoreAnswers`), when the window may be closed.
* `PosCharges` - `pos.service.ts` on top: a check is looked up by its outlet
  and number (`Found`), charged, and reversed.
* `PosCheck` - the promise to an outlet: a check goes from none to charged to
  reversed, once each.
* `FolioProofs` - the theorems about `FolioDesk`, `PosCharges` and `Journal`.
* `Journal` - the closing journal of `reports/journal.service.ts` over the same
  postings.

### Bookings and the pull

* `Bookings` - `booking.service.ts`, `sync.service.ts`, `sync-log.ts`. `opera`
  are OPERA's reservations, `said` everything OPERA answered about each
  (history), `row` ours, `owed` those whose penalty is on our folio, `log` the
  log rows, with `acted`, `due`, `cut` and `lost` as history. A write opens a
  log row, calls OPERA, writes the answer, copies the folio or the share
  partner where concerned and closes the log row; a pull lists a page at a time
  (`ListPage`) and copies each reservation in a transaction that fails alone
  (`PullRow`, `PullRowFails`). `OperaDesk` is what OPERA's own users do.
* `ReservationCopy` - the promise: each part of a row is something OPERA said.
* `BookingsProofs` - the theorems.

### Rooms

* `RoomStatus` - one room's status and occupancy, written by outages
  (`StartOut`, `StartRelease`), housekeeping (`StartStatus`), check-in and
  check-out; OPERA first and its answer copied. An outage covers a range of
  nights, OPERA may confirm other dates than were asked for, and the status is
  touched when the range has tonight in it. One guest is in a room at a time
  here; those who share one are in `FrontDesk`. `Discrepancies` is
  `findDiscrepancies`.
* `RoomStatusProofs` - the theorems.

### Guests

* `Profiles` - `profiles.service.ts`, and the profile that a booking or a pull
  finds or makes (`EnsureLinked`, `EnsureByEmail`, `MakeProfile`). A merge of
  two linked profiles asks OPERA first; `WriteMerge` is the transaction that
  moves stays and facts, `MergeFails` is the unique constraint.
* `ProfilesProofs` - the theorems.

### Staff

* `Staff` - accounts with the role their token carries (`Login`,
  `TokenExpires`, `CreateUser`, `StartUpdate`, `CountAdmins`, `WriteUser`; an
  update writes the fields it was sent and no others),
  shifts (`OpenShift`, `CloseShift`) and the cash payments in them (`TakeCash`,
  `RefundCash`), housekeeping tasks and instructions. What is in each cashier's
  drawer (`cash`) is a ghost the summary is compared with.
* `StaffProofs` - the theorems.

### Reports

* `Reports` - days pass, reservations, outages and room flags change, and the
  performance report (`Row`, `Totals`, `Breakdown`) and the audit (`Ready`) are
  read in every state. Amounts are in sixths of a cent, so that stays of two
  and three nights divide and rounding is seen. Its theorems are at the end of
  `ArLedgerProofs`, after the facts about sums they share with the ledger.

The `MC...` modules add symmetry sets for TLC. Clerks are interchangeable
everywhere; so are cards, rooms, guests, profiles, links, users, outlets and
checks. Amounts, numbers and nights are ordered and never permuted. No run with
a liveness property uses symmetry.

## Runs

| Run | Instance | Shows |
|---|---|---|
| `payments` | 2 clerks, 2 keys, 2 PSP transactions, a currency whose unit has 2 parts, every failure, check-out in between | the inductive invariant and the refinement of `PaymentLifecycle`; one hold for each key that is not uncertain; while calm, row, PSP, OPERA's folio and our copy agree after every request |
| `payments_liveness` | 2 clerks on 1 key, nothing failing, fairness | requests are answered, settled payments reach the folio |
| `ar_invoices` | 2 clerks, 1 window, 1 charge, 2 invoice numbers (one longer than the padding), payments to 2, statuses set by hand | an invoice not raced asks for its charges and is not overpaid, numbers are free, the oldest are paid first, statements agree, an invoice marked paid by a payment is covered |
| `ar_transfers` | 2 clerks, 2 windows, 2 charges, a limit, guests who go on, an account that is suspended, lost answers and crashes, a Core that refuses a known check | no window billed twice, a void invoice holds nothing; limits passed by no more than others charged, what OPERA took charged unless cut off |
| `desk` | 2 clerks, 3 guests of whom 2 share, 2 rooms, 2 cards, every failure | a card recorded as dead is dead, and what had to be killed is dead before OPERA or the encoder is called; while calm, cards let in whom they should, rows are as OPERA has them, and a room is marked as occupied as sharers leave it |
| `bookings` | 2 clerks, 2 reservations, 2 log rows, pages of 1 and at most 2 of them, lost answers, failing writes, crashes; fairness | log, penalties and pages; the refinement of `ReservationCopy`; log rows are closed |
| `folios` | 2 clerks, 2 windows, 2 postings, 1 outlet, 1 check, one failure | sent or voided twice a check is charged and reversed once; while calm, our copy follows, the journal balances, payments stay put, who leaves owes nothing |
| `rooms` | 2 clerks, 1 room, 2 guests, 2 outages, 2 nights, one crash | outages are OPERA's and no two overlap in OPERA; while calm, our rooms are OPERA's and no discrepancy is found |
| `guests` | 2 clerks, 2 profiles, 2 OPERA profiles, 2 stays, 1 email, one crash | no link is lost or doubled by a merge, linked merges were OPERA's; while calm, stays and notes are with the right profile and a known guest is not made twice |
| `staff` | 2 requests at once, 2 accounts, 2 shifts, 1 payment, 1 task, 1 instruction | payments are in their taker's shift; while calm, one open shift each, drawers balance, an administrator is left |
| `reports` | 2 rooms, 2 stays, 1 outage, 3 days | past days keep their rooms, channels add up to the totals within the rounding, a finished audit agrees with the report |
| `merge_takes_link` | 1 clerk, 2 profiles, 1 link | (expected violation) see below |

`CHECK_DEADLOCK FALSE` is everywhere because the bounds (amounts, transactions,
cards, numbers, log rows, days) are used up and the system then rests.

Bounds. Two clerks put any step between any two steps of a request; the code
keeps no state that counts requests. Two PSP transactions let one key be
authorised twice; amounts to 2 let a payment be captured in part and refunded
in two parts; `MaxReturned` lets the PSP return more than it took, so that
staying within is not given by the bound; a charge and two invoice numbers let
it be billed twice, and guests who go on using a window let it be transferred
twice; one reservation on pages of one makes a pull ask for a page that is
empty, and two make it stop at the limit of two pages, cut off; two outages let
one be released while the other covers the room. `MaxTrouble` and `MaxDead`
count failures where each needs a counter.

Some bounds depend on `calm`: `MaxKeys` (payments), `MaxRooms` and `MaxCards`
(desk), `MaxRows` (rooms, staff) limit how much is in use once requests
overlap or something failed, and `MaxCalm` (staff) before; `MaxSent` (staff)
has an update that overlaps another request send one field, while calm it may
send several. Calm histories get
the larger instance, because what is stated about them is about several rows;
disturbed ones get the interleavings on fewer rows: at the desk on one room
and the two guests who share (`Followed`), since what `DeskInv` says of
strangers it says of sharers, and three guests with two rooms while calm.
These bounds are part of the next-state relations, and the proofs hold for each
of their values.

`Whole = 2` with amounts to 2 has refunds whose totals round to the same number
and ones that do not. `Lateness = {0, 31}` has an invoice on its due date and
one in the second bucket, `Ahead = {0, 1}` a report of today and of tomorrow,
when the first becomes overdue, and `DetailShows = 1` a detail that lists every
invoice and one that does not. `Base = 3` and `Padded = 2` make the number 3
the first that is longer than its padding.

Fairness. `FairSpec` asks weak fairness of `Resumes(c)` for each clerk and of
nothing else: a promise that settled is resumed by the event loop, and every
call to the PSP and to Core has a time limit (`core.client.ts`). No request has
to start, and no failure has to happen. Payments' liveness is stated with
nothing failing because the code has no retry: a lost answer is reported and
left to the clerk. `LogsAreClosed` is stated with every failure: only a request
that died leaves its log row pending (`lost`).

Each property of a passing run has a mutant of the code in `PROJECT.json`: an
alternative definition in the module, kept next to the original and named
`Original_Change`, that the run refutes.

## What is proved

TLAPS checks the theorems for every value of the constants that satisfies the
`ASSUME` of the module: any number of clerks, keys, guests, cards, log rows,
outages and accounts, any bounds, any set of failures. First what holds
whatever interleaves and fails.

* **Payments** (`PaymentsInvariant`): `PaymentsInv` is inductive. Its heart is
  `RequestInv`, what a request that read a row some awaits ago may still count
  on: a request that is about to write a capture is the one the PSP let
  through, since the PSP captures or voids a transaction once (`OneWriter`),
  and no other step takes the row out of AUTHORIZED. From it follow
  `TypeCorrect`, `CreditIsTaken`, `LedgerAgrees`, `RefundsWithinPayment` and
  `ChargedOnce`. The last three need the strengthening: a row alone does not
  say that the request in flight has the row's own transaction.
* **Payments implement their lifecycle** (`PaymentsImplementLifecycle`): a
  payment is where its row says it is, and its credits are the postings of its
  check number in OPERA. Initial states map to initial states, and each step to
  a step of `PaymentLifecycle` or a stutter. `RowsMoveForward` is the action
  property that goes with it.
* **One hold for a key** (`HeldOnce`): `HeldInv` says that while a key is not
  uncertain one request at most asks for it, that the PSP holds nothing for it
  before that request is approved, and afterwards nothing but what this
  request, or the row, names. A request that finds a row asks nothing, and a
  row is never deleted.
* **City ledger** (`ArInvariant`): with a Core that refuses a known check,
  `BilledOnce`; always, `VoidIsEmpty` (the write of an invoice or a void moves
  the charges in one transaction) and `MarkedPaidIsCovered` (what a payment
  counted on when it was planned can only have grown, since what was put on an
  invoice is never taken off).
* **Transfers** (`ChargeWithinLimitAlways`, `TransfersAreSoundAlways`): the
  balance and what a request may charge stay within `reach`: others' charges
  raise both, payments only lower the balance (`ReachInv`). What OPERA took off
  a window waits in a request, which can end only by writing the charge or by
  being cut off (`TransferInv`). A request cut off is remembered in `lost`, so
  both hold for any number of clerks and any failures.
* **Invoices** (`InvoicesAreSoundAlways`, `StatementsAgreeAlways`): `BooksInv`
  says of every request what it has read and still holds, for the invoices not
  in its `stale`; what it writes on these is therefore right, and what it
  writes on the others is in `raced` from then on. The balance adds up as long
  as nothing is raced.
* **Oldest first** (`ClearsOldestFirstAlways`): the fold takes the invoices in
  order (`DueLastIsLast`), and whatever is left when it comes to one, all
  before it are filled (`AllFilled`). That the fold's recursive function exists
  is proved as well (`FillsExist`).
* **Front desk** (`DeskInvariant`): records are never deleted, a dead card
  stays dead, and a made card stays what it was made (`Onward` in the proof);
  so what a request learned about the cards on its list survives the steps of
  all others (`HoldsOnward`). From it `NoCardOutlivesItsRecord`, `KilledFirst`,
  `RecordsAreCards` and `DeskTypes`.
* **Folios** (`FolioInvariant`): `FolioInv` is inductive. A row is a posting
  OPERA has, with the tag of who made it, and a row said to be voided is
  reversed by the posting it names. OPERA forgets no posting and moves some
  (`Onward`), so what a request was answered is still there when it is copied,
  however old the answer is (`InFlightInv`); the tag is right because a check
  number is on the bill once, so the posting found by it is the one the request
  made.
* **Point of sale implements its promise** (`ChecksPostOnce`): two sends of one
  check both find it absent and both ask for the charge, but OPERA refuses the
  number it has; a reversal carries the number of the charge it names, so there
  is one of each. Every step adds at most one posting (`StepAdds`), and that
  moves one check a step on (`AddedState`).
* **Bookings** (`BookingsInvariant`, `PenaltiesAreCopied`, `PullsMissNothing`):
  the strengthening `IInv` says what a request in flight knows: a write that
  has its answer names a reservation OPERA has (`HoldsWrite`), a pull has
  copied, or will report as failed, every reservation of the pages behind it
  (`HoldsPull`). Nothing told, made or cancelled is taken back (`Onward`), so
  this survives the steps of others. That a page shorter than asked for is the
  last one follows from OPERA's numbers having no gaps.
* **Bookings implement the copy** (`RowsAreCopies`): under the map `copy <-
  row`, each step writes at most one row, and each part of it (status and
  dates, terms, share group) is something in `said`.
* **Guests** (`ProfilesInvariant`, `MergesInvariant`, `LinkedMergesAreOperas`):
  between reading its two profiles and writing them, a merge loses no link
  OPERA still honours and doubles none, because a link leaves its row only
  through a merge that OPERA carried out, or through a write the unique
  constraint refuses.
* **Rooms** (`RoomsInvariant`): the outage rows are OPERA's outages; of two
  rows of one room that overlap, OPERA has let go of one; and an id OPERA gave
  to a request in flight is no other's and in no row yet, so its row can be
  written.
* **Staff** (`StaffInvariant`, `AnAdminIsAlwaysThere`, `DrawersBalance`): while
  calm, an update in flight that takes an administrator away was told there is
  another (`AdminKept`), and what a shift was found to be when a request began
  it still is; from that, one open shift each, and a drawer that holds what
  float and receipts say. The number of receipts of a shift enters through the
  library's facts about finite sets.

Then what holds while calm. The argument is the same in every module: the
inductive invariant (`CalmInv`) says that at most one request is at work, and
for each of its stages what of ours already differs from OPERA or the PSP, and
that this is exactly what the request is about to write; with no request at
work nothing differs. A step of the request moves it to the next stage
(`CalmStep`), and a step that overlaps or fails ends `calm` (in payments, a
check-out that closes the window too). Refusals do not end it; at the front
desk neither does a vendor that fails to kill a card.

* **Payments** (`PaymentsFollowPspAlways`, `SettledPaymentsAreOnFolio`,
  `FolioFollowsPaymentsAlways`): `Books` relates rows and PSP, `OnFolio` rows,
  OPERA and our copy. That the refunds on the folio follow what the row
  records needs `RefundInv`: the numbers on the folio are those of running
  totals, a refund whose total rounds to a new number is posted, and one whose
  total rounds to a number that is there is within a unit of it. It is proved
  for every unit (`Whole`); with a unit of one the two sums are equal.
* **Front desk** (`OnlyGuestsEnterAlways`, `StaysFollowOperaAlways`,
  `DeskFollowsOperaAlways`): `CalmInv` adds that a live card is its guest's and
  for the room the guest is in, and on record unless it was just encoded.
  `MarkedInv` adds the marks on rooms, with sharers: a room marked occupied has
  a guest in house, and a guest in a room that is not marked had a share
  partner check out of it. This is what the code keeps; that the room of a
  guest in house is marked is false for sharers (see below).
* **Folios and journal** (`CopyFollowsOperaAlways`, `PaymentStaysPutAlways`,
  `DepartsSettledAlways`, `JournalBalancesAlways`): a transfer is refused by
  the tag on our row, and while calm every posting of a payment has it by then.
  The journal balances because what a check-out closes adds up to nothing
  (`ClosedInv`), so the closed windows may be left out of what is owed.
* **Guests** (`StayIsWithItsGuestAlways`, `FactsMoveOnAlways`,
  `GuestKnownOnceAlways`), **Rooms** (`RoomsAgreeAlways`): the four writers of
  a room's status all copy what OPERA answered them, and while calm no other
  answer came in between.

Reports have no requests in flight, and their statements no guard.

* **Reports** (`ReportsAlways`, `PastIsKeptAlways`, `ChannelsAddUpAlways`): a
  release counts from its day on and a flag from today on, so a past day
  changes by an outage entered late alone. The breakdown is a table of nights
  by channel and day, which adds up to the same by rows and by columns
  (`TotalSwap`); each of its sums is rounded once, and a rounded sum is within
  half a cent (`TotalRounded`).

Sums over sets are folds over a set in an order `CHOOSE` gives. What is needed
of them (`Total...` in the proofs: a term can be taken out, disjoint parts add
up, terms can be sorted) is proved by the least counterexample: among the
subsets for which the fact fails one has no smaller one (`Least`, `LeastSet`,
from the library's well-foundedness of `<`), and taking one term out of it
gives a smaller one. No induction scheme with a predicate is used. This is why
charges, invoice numbers, reservations and channels are finite sets in the
assumptions.

Assumed of the environment, and so of the proofs: what the modules say of the
PSP, of OPERA, of the encoder and of the vendor. In particular that OPERA
accepts a check number once and refuses an outage that overlaps another of the
room, that the PSP captures or voids an authorisation once, that the encoder
gives out a new card id each time, and that OPERA lists reservations in the
order of their numbers.

Only model-checked: liveness (`CaptureReachesFolio`, `RequestsAreAnswered`,
`LogsAreClosed`), which is out of the proof system's reach with its fairness.

## Where the code disagrees with its comments

`merge_takes_link` (`profiles/profiles.service.ts:230`): merging a linked
profile into one without a link writes the source's `operaProfileId` to the
canonical row while the source still has it. The column is unique
(`prisma/schema.prisma:345`), so the transaction fails before it reaches the
line below the comment that the id "must be detached from the source" (`:251`).
Such a merge is never carried out; the reverse order of the two updates would
do.

The statements guarded by `calm`, and those that except what was disturbed, are
false without the guard. Found so, without a run of their own (put the named
statement into the configuration without its guard):

* Payments. `RefundsOnFolioWithinPayment`: two refunds in flight both pass the
  check against the same row, and both reach the folio. `SettledIsOnFolio`: a
  hold captured after check-out closed the window is taken at the PSP and never
  on the folio. `CopyFollowsOpera`: two answers of OPERA copied in the other
  order leave our folio without a posting OPERA has, until the next copy.
  `GuestHeldOnce` for uncertain keys: a resend that overtakes the first insert,
  or follows an authorisation whose answer was lost, holds the money twice
  ("Money leaving a guest twice is harder to undo than anything else",
  `payments.service.ts:60`). `RefundsAtPspWithinTaken` with lost answers of the
  PSP: a refund reported as failed is asked for again. And while calm, with
  `Whole` above 1: two refunds whose totals round to the same unit share a check
  number (`payments.service.ts:302`) and the second is not posted, which is why
  `RefundIsOnFolio` has two bounds.
* City ledger. For an invoice in `raced`: two invoices of the same charges each
  ask for them, two payments planned on the same figures overpay. For a window
  in `lost`: OPERA took it and no account owes it. The limit as it was checked:
  two transfers that both read the old balance pass it together. Voiding a
  partly paid invoice releases its charges in full and leaves the payment on
  the void invoice, so the next invoice asks again; `StatementAddsUp` counts
  this. A number longer than the padding compares as smaller, and is given out
  again from then on.
* Front desk. `DepartedOpensNothing`: a key issued while its guest is being
  checked out is on no list and stays alive. That the room of every guest in
  house is marked occupied, with guests who share it: the first to check out
  marks it vacant and dirty while the other is in house
  (`reservations.service.ts:318`); `RoomsAreMarked` says that this is the only
  way, while calm. `StaysFollowOpera` and `LiveCardIsOnRecord` with lost
  answers: nothing retries, the pull repairs the reservation row but neither
  the room nor the cards.
* Folios. `ClosedIsSettled`: check-out adds up the balances of all open windows
  (`reservations.service.ts:262-264`), so two windows that owe and are owed
  close together, each with its balance, though "closing a folio that still
  owes money leads straight to missing revenue" (`:246-247`).

Seen while modelling, and in the modules as the code has it:

* Reports: each day's revenue is rounded to cents before the days are added
  (`reports.service.ts:164`, `:170`), while each channel adds up unrounded
  shares; so "the range total still matches the reservation" (`:151-152`) and
  "These must sum to the totals above" (`:202`) hold up to half a cent a row.
  `ChannelsAddUp` states and checks the exact bound. An outage may begin in the
  past as long as it ends today or later (`room-outages.service.ts:107` checks
  the end), and then changes the rooms past days had. A guest who leaves early
  still counts on the nights booked.
* City ledger: the account's detail looks at the last 50 invoices
  (`ar.service.ts:155`), the aging report at all; the detail compares due dates
  with the UTC date of today, the report with the day asked for.
* Journal: `outstanding` is what the open folios owe today 
  (`journal.service.ts:148`), whatever day the journal is of.
* Rooms: nothing changes a room's status when the days of an outage begin or
  end. Check-in looks at the status only, so a stay may run into an outage of a
  later night. "Today" is the UTC date, not the business date.
  `findDiscrepancies` also lists a guest who just checked into a clean room.
* Staff: a refund in a later shift makes the differences of both shifts wrong;
  nobody else may close the shift of a cashier who was deactivated
  (`cashier.service.ts:101`); the last-administrator check also refuses to
  demote an inactive administrator (`users.service.ts:114-118`); a role that
  was taken away works until its token is over; a finished task leaves the
  status of its room alone, though `housekeeping.service.ts:210` suggests
  otherwise; an instruction completed and removed at once ends as either.
* Guests: a pull or a booking that finds a guest by email alone
  (`sync.service.ts:224`, `booking.service.ts:513`) also finds merged profiles,
  which `booking.service.ts:308` says would revive a duplicate.

## What is not modelled

* Group blocks: each operation asks OPERA and writes each block of its answer
  whole, in one transaction, with nothing after it, and nothing else writes it;
  `Bookings` shows all of that, and more.
* Rates, availability and policies, the rooms list, the dashboard's lists:
  they read, or pass a request to Core.
* Properties and their scope: a filter on every query; the modules have one
  property.
* Routings, the outlets' table and terminals' keys, room types and rate plans:
  tables looked up or made sure of on the way. A routing chooses a window, and
  `PosCharges` tries every window; a room type made twice is a unique
  constraint and changes nothing modelled.
* Bootstrap, configuration, health, DTO validation, the arithmetic of tokens
  and passwords, the HTTP transport of the Core client beyond "answers,
  refuses, or the outcome is unknown".
* Abstracted within the modules: amounts are small integers in minor units, or
  whole; currencies, card masks, texts and most dates are left out. What a
  request reads before its first call to another system is read in one step. A
  room key's validity hours are left out, so a card counts as opening until it
  is killed. `OperaFolio` and `FolioDesk` take OPERA's folio numbers to be
  unique over reservations.

## Checking it

    tlc -workers 2 -config payments.cfg MCPaymentsHistory
    tlc -workers 2 -config payments_liveness.cfg MCPayments
    tlc -workers 2 -config ar_invoices.cfg MCArLedger
    tlc -workers 2 -config ar_transfers.cfg MCArLedger
    tlc -workers 2 -config desk.cfg MCDeskHistory
    tlc -workers 2 -config bookings.cfg MCBookings
    tlc -workers 2 -config folios.cfg MCPosCharges
    tlc -workers 2 -config rooms.cfg MCRoomStatus
    tlc -workers 2 -config guests.cfg MCProfiles
    tlc -workers 2 -config staff.cfg MCStaff
    tlc -workers 2 -config reports.cfg MCReports
    tlc -workers 2 -config merge_takes_link.cfg MCProfiles
    tlapm BookingsProofs.tla

Each run takes at most three minutes on two cores. `PROJECT.json` lists every
run with its module and configuration, the mutants, the source lines each
definition models, the hazards and the theorems.
