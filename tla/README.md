# ZAYA ticketing platform: TLA+ specifications

The platform sells tickets and merchandise for events, sells its own plans and
print credits to organizers, and checks tickets at the gates, online and
offline. These specifications cover the parts of the backend
(`src/backend/src`, NestJS over PostgreSQL and Redis) that move money, seats,
goods and credits, that keep sessions, mail campaigns and share out the tasks of
a project, the scanner app (`src/mobile/lib`, Flutter), and the code of the web
site (`src/frontend`, Next.js) and of the organizer's phone (`src/zaya_core`)
that keeps state of its own.

## The system

Requests and cron jobs interleave, in one Node process or in several, over one
PostgreSQL at its default isolation. **Every `await` lets other requests in**;
that is the concurrency the modules model. (Only the daily round of campaigns is
taken to run once at a time: `docker-compose.prod.yml` deploys one backend.) What is
one step in a module:

- one Prisma statement. An `updateMany` whose `where` names the status or the
  stock is a compare-and-set; an `update` by id writes whatever is there;
- a `$transaction` whose writes cannot be seen half-way, except where its result
  depends on a read made before or inside it that another request can overtake:
  then the read is a step of its own (`ClaimRefund` and `CommitRefund`). Where a
  date given inside one matters, the date and the commit are two steps (`Act` and
  `CommitAct` of `GateScan`).

A request keeps in its record (`job[r]`, `req[r]`, `pc/pay/via/todo`) exactly
what the code keeps in local variables across its awaits. FlexPay, the mobile
money gateway, is modelled from how the code calls it: it may accept, refuse,
decide at any later time, call back any number of times or never, and be
unreachable.

### Inventory

| Component | State | Operations | What is hard | What makes it correct | Module |
|---|---|---|---|---|---|
| Payment flow (`payment/`) | `Payment.status`, `orderNumber`, `ticketsData` | checkout, callback, poll, cron, claim and generation | repeated, late, lost callbacks; three confirmations at once; crashes between statements | tickets once, in full, and only for money; nothing pending for ever | `PaymentFlow`, `Fulfilment` |
| Tickets (`tickets/`) | `TicketTemplate.quantity`, `availableCount`; tickets, serial numbers | generate, cancel, bulk status, edit a category, cancel the event | checks made before an await, unconditional writes after it | no seat sold twice, a refunded order is out but for passes already inside | `TicketStock` |
| Refunds (`billing/refunds.service.ts`) | `Refund`, and parts of the three above | refund an order, refund an event, mark a transfer done | two people at once, scans and handovers meanwhile | money once, tickets dead, unhanded goods back | `PaymentFlow`, `TicketStock`, `MerchOrders` (each its part) |
| Shop (`shop/`, stand in `controllers-mgmt/controller-space.service.ts`) | `ProductVariant.stock`, `MerchOrder.status`, `fulfilledAt` | reserve, expire, pay, status by the organizer, hand over, refund, edit the stock | expiry against a late payment, stale forms, two stands | pieces and orders balance, goods leave once and paid | `MerchOrders` |
| Gate: server (`validation/`) | `Ticket.status`, `checkedInAt`, scan rows | scan, upload of offline scans | two gates at once, uploads out of order | one entry per ticket | `GateScan` |
| Gate: phone (`src/mobile/lib`) | list of tickets, queue of entries, retry counts | scan online, fall back offline, upload, refresh the list | answers lost after the server acted, list older than the queue | no entry unnoticed, none twice on one phone | `GateScan` |
| Billing of organizers (`billing/billing.service.ts`) | `BillingPayment.status`, `receiptNumber` | checkout, callback, status, receipt | confirmations at once, failures after the claim | one grant per payment, receipts without gaps | `Billing` |
| Plans and print credits (`subscription/`) | `BillingAccount` credits, `OrganizerSubscription.expiresAt` | quote, take, give back, extend, go back to the free plan, administrator's edits | prints at once, prints that fail, a plan changed while a month is granted | credits and months add up | `Billing` |
| Payouts and pricing (`billing/payouts`, `pricing`, the closing in `privacy/`) | `Payout` rows, `Refund.status`, the account | summarize an event, record the advance and the reserve, transfer a refund, close the account | summaries in three queries, two administrators, refunds meanwhile, cents | what is paid out is what is owed; an account is closed by hand on settled sales only | `Payouts` |
| Sessions (`auth/`, `users/`, and the clients' renewal) | `UserSession.tokenHash`, the cookie jar, tabs, the phone's store | sign in, renew, sign out, change the password, deactivate, close, purge | two tabs, lost answers, renewals under way when a session ends | one current token, ended sessions stay ended, a new password ends the others | `Sessions` |
| Campaigns (`communication/`) | `NotificationCampaign.status`, `CampaignRecipient.status` | create, schedule, send by hand, daily round, delete | hand and round at once, crash while sending, deleted while sent | one message per ticket, the status tells what happened, what is due is sent | `Mailings` |
| Project board (`project/`, collaborators in `account/`) | `TaskAssignee`, `TaskPendingAssignee`, `ProjectInvitation`, `ProjectMember`, `AccountMember` | save a task, claim at sign-in, invite, accept, remove | three commits per save, stale forms, sign-in meanwhile | a task is assigned to whom it was given; a link admits once | `ProjectBoard` |
| Events (`events/`) | `Event.status`, drafts | publish, back to draft, cancel | orders placed meanwhile | a cancelled event sells nothing | cancellation in `TicketStock` |
| Controllers (`controllers-mgmt/`) | controllers, invitation tokens | invite, activate, switch off | quota checked, then used | the plan's limit | not modelled |
| Free orders (`public/`) | Redis counter per address | daily limit | check, then count | the limit of the day | generation in `TicketStock` |
| Reminders of plans (`billing/plan-reminders`) | audit rows | notify, mail, record | a crash before the record | one reminder per stage | not modelled |
| Guests, team, users, admin | rows of one organizer | create, update, delete | little: no shared counter | access rights | not modelled |
| Notifications, realtime, analytics, audience, audit | rows nobody acts on | send, list | best effort by design | – | not modelled |
| Crypto, QR codes, Redis, storage, exports | – | libraries and rendering | outside a model checker | – | not modelled |
| Web site, organizer's phone (`frontend`, `zaya_core`) | tokens, forms opened earlier | pages over the API | stale forms, shared cookies | – | `Sessions`, `Payouts`, `ProjectBoard` (their part) |

How they meet: a checkout reserves goods (shop), creates the payment, calls
FlexPay. A confirmation claims the payment, generates tickets line by line
(tickets), completes it, then marks the goods paid (shop). A refund claims the
payment and, in the same transaction, cancels tickets and restores seats and
goods. The gate writes the same tickets that cancellations and refunds write.
Batches of tickets take print credits (subscription), which billing payments
add. The phone's list is a copy of the tickets, refreshed incrementally. Completed and
refunded orders are what payouts are computed from, and the closing of an
account looks at both. A sign-in opens a session and claims the tasks of the
board assigned to its address; a change of password, a deactivation and a closing
end sessions. Each module holds what its component can tell apart of the others:
an order is a row with its steps in `PaymentFlow`, a generation in
`TicketStock`, a reservation in `MerchOrders` and an amount in `Payouts`.

## Modules

### `PaymentFlow` and `Fulfilment`

One row per order. `request[p]` is the place of the checkout request in
`initiatePayment`; a worker `w` runs a callback, a poll, a cron round or a
refund, at step `pc[w]` on payment `pay[w]`. `CreatePayment` …
`CloseRequest` are the request; `HandleCallback`, `PollStatus`, `SettleStale`
are the three readers of a PENDING row; `VerifyAnswers`/`VerifyUnreachable` the
check with FlexPay; `Claim`, `GenerateLine`, `GenerationFails`, `Complete` are
`claimAndGenerate` and `generateTicketsForPayment`; `FailPayment`, `RefundTx`
the conditional writes. `Crash` and `RequestDies` stop a job or a request at any
await. A paid order whose amount is not the payment's is verified as refused
(`payment.service.ts:370`): no property tells the two apart. FlexPay's `BuyerDecides` is external. Whether an order is taken by card
or by mobile money does not matter to any property, and shares the steps.

`Fulfilment` is what the flow promises a buyer: an order is opened, then lost
without a ticket, or paid, served line by line, each line once, and only then
possibly returned, once. `KeepsPromise` is the refinement: the phase of an order
is a function of its status, `given` is `issued`, `taken` is what FlexPay holds.

### `TicketStock`

One category. `job[r]` goes through `generateTickets` (check, count, insert in
one transaction with the conditional decrement and the unique serials),
`cancelTicket` (check, `CANCELLED`, seat back), the refund (claim and read the
unused tickets; commit), the edit of the category (read; the seats, when the quantity
is another than the one read; the quantity, in any case), the
cancellation of the event (check; status; tickets), and a pass at the gate (read; used).
`Admit`, `CondemnForged` and `BulkStatus` are single writes. `pass`
says whether the category is valid several days, which decides how the gate writes; it
is fixed here, and edited in `GateScan`. `FormQuantities` is what a form sends: a
quantity typed in or loaded earlier, and, from the editor of the ticket design
(`TicketEditor.tsx:868`), the seats that are left, sent as the quantity.

Several writes are unconditional, so a request may write over a change it has
not seen. `entered` keeps the tickets somebody has entered with, whatever is written over
them: their seat is taken. `doubled` counts the seats brought out twice: `Frees` one of a
ticket that was dead or inside (a second cancellation, a cancellation or a refund written
over an entry), `Revives` one of a ticket that had given its seat up (a pass set used over
its cancellation, a bulk change). `leak` is set by an edit that writes over a change it has
not seen, or goes below what was sold (`LeakIf`), after which no number is owed.
`NoSeatSoldTwice` is thus the statement: *these are the only ways to sell a seat twice,
and each of the former sells one*. `reopened` keeps which tickets a bulk change let open
the gate again, until a refund takes them. `RefundedStaysOut` is about the tickets of a
refunded order: but for the reopened ones, none that nobody has entered with opens the
gate, and one that was entered with does only as a pass (`Opening`). Such a pass still
does, on another of its days: the property says so, and the refund does not prevent it.

### `MerchOrders`

Orders of goods over variants. `CreatePendingOrder` is the reserving
transaction; `ReleaseOrder` the conditional release used by an aborted checkout,
a failed payment and the expiry; `CompletePayment`, `ReadOrder`, `Retake`,
`SetPaid` are `markPaidForPayment` statement by statement (`MarkPaidFails`: its
caller only logs an error); `StartUpdate`/`SetOrderStatus` the organizer's
change; `HandOver` the stand's conditional update; `StartStockEdit`/`SetStock`
the form of a product, which replaces the stock; `StartRefund`, `RefundTx` the
shop's part of a refund. `payment[o]` keeps of the payment flow what the shop
can tell apart. `stale` keeps the orders whose status had changed when a request
wrote over it, `edited` the variants whose stock had. What the properties promise, they
promise of every other order, and of every variant that neither concerns (`Trusted`).

### `GateScan`

`ReadTicket`, `Claim` or `EnterPass`, and `Record` are `scanTicket` between its awaits;
`Date` is the last write of an upload, which gives the record the phone's time, kept only
when it is not too old (`KeptTime`, the clamp of `syncOfflineScans`). `FailRequest` ends a
request between any two of them, what was written staying written; an answer returns
unless the phone has given up (`TimeOut`, `Abandoned`). A phone scans online, falls back
on its list (`ScanOffline`), marks the ticket used (`MarkScan`) and, an await later,
queues the entry (`QueueScan`; `DropScan` when either fails), uploads it (`Upload`,
`TakeUpload`, `UploadLost`) and refreshes its list (`FetchList`, `SaveList`), in any order
and with any number of losses. `Keep` is the one rule of `saveOfflinePack`: an entry
still queued keeps its ticket used against a list that says valid.

A write has a date (`updatedAt`), given when its statement is built, and a commit, when
others see it. `Act` dates what the organizer or a refund writes, `CommitAct` commits it; a
request at the gate dates its write between `ReadTicket` and its claim. A list is dated when its reading begins
(`FetchList`) and asks for what is dated after the list the phone has (`changed`, what it
would get). `early` are the writes under way at that moment: each may commit under a date
before the list (`CommitDated` with `late`), or after. An edit of the days of a category
(`Act` with `"days"`, then `WriteDays`) touches the tickets and writes the category a
statement later; a phone judges a scan offline by the days of its list (`listed`).

Three auxiliary variables keep what the properties set apart, and nothing else:
`torn`, entries whose record was cut short by a failure, or read before it was dated;
`exposed`, tickets put back by a list between their mark and their queueing; `hidden`,
tickets last written under a date earlier than a list already read. Without any one of the
exceptions its property is false of the code (see the end of this document).

Time is counted in minutes of a small clock, each on a day given by `Day`; the clocks of
server and phones agree, and an online scan is recorded within the minute of its claim.

### `Billing`

A payment of ZAYA by an organizer: `CreatePayment` … `CloseCheckout` (`start`),
`HandleCallback`, `CheckStatus`, `Verify`, `Claim`, then the receipt number
(`ReadNumbers`, `AssignNumber` against the unique column) and the grant:
`AddCredits` increments; `ReadPlan` reads the subscription, and a statement later
`ExtendPlan` adds a month to the end it read or `StartPlan` starts the plan now.
Meanwhile the organizer may go back to the free plan and an administrator write the
row (`ChooseFreePlan`, `AdminChanges`), and months pass, though not during those two
statements. `due` counts the months paid or offered, not yet passed nor given up;
`crossed` records a grant that wrote over a change it had not seen. Printing:
`StartPrint` reads the credits, `Quote` takes what is left of the quota, any number,
and refuses, `TakeCredits` is the conditional decrement, `MakeTickets`
the transaction, `PrintFails`/`RefundCredits` its `catch`. A job may die at any
step (`Crash`), which is also what an exception before the transaction does. A paid
order whose amount is not the payment's is refused (`flexpay.client.ts:89`). The free
plan is a row a migration inserts (`20261009000000`), so the branch of
`subscription.service.ts:434` for a plan that has none is left out.

### `Sessions`

A row of `UserSession` has the number of the token it expects (`hash`) and the
password it was opened with. A call `call[r]` is one request: `SignIn` →
`CreateSession`, `Renew`/`LoadPage` → `CheckToken` (the strategy's read) →
`RotateSession` (the unconditional write), `SignOut` → `EndSession`; its answer is
taken (`Signed`, `SignedOut`, `Refused`) or lost (`GiveUp`, `Vanish`). The tabs of
a browser share one jar; a tab waits while its own renewal is under way, not for
the other tab's. `ChangePassword` stores the password, `DeleteSessions` ends the
sessions a statement later, `DeletionDies` never. `spared` marks the sessions a
deletion could not see; `missed` the clients that lost an answer or raced.

### `Payouts`

Amounts are cents. `Fee`, `OrganizerGets`, `Net` and `Shares` are `pricing.ts` and
the arithmetic of `summaries`, with `Math.round` on binary fractions: `HalvesDown`
are the amounts whose half is represented just below it. A clerk (an administrator, or a
request to close the account) reads the event,
the refunded and the completed orders in three queries
(`ReadEvent`, `ReadRefunded`, `ReadCompleted`), shows them (`OpenPage`), is told
what was transferred by hand (`MarkPaid`), and computes again what it records
(`RecordPayout`); the request goes through the same reads, then counts the refunds still
to transfer (`CountRefunds`), and, once a new password is hashed, closes the account
whatever happened since (`CloseAccount`). `RetireAccount` is the nightly retention, which
closes an account without looking at either. The last of the three queries stands for two
that the code sends together (`payouts.service.ts:40-53`), read here at once: an order
is in the same one of the two for ever, by its `netAmount`.
Orders complete and are refunded between any two of those. `Paid` and `Left` are
what a summary read in one piece would tell. Auxiliary fields (`asRead` and `asShown` of
a clerk, `asRead` and `current` of a row, `current` of the account) say that no order
changed since it was read, shown, written or closed.

### `Mailings`

A sender is a request or the daily round (`Cron`). `CountRows`/`MakeRows` are
`buildRecipients`, `MailOne` one message and its row, `Finish` the final status.
The round reads the due campaigns once (`StartRound`), writes no SENDING and reads
no status again; one process runs it. A recipient is a ticket: who bought two has two
rows (`buildRecipients` removes no double address), and two messages. `MailOne` lets the mail server take a message whose answer is
lost; `Break` is a read or a write the database refuses: the round writes FAILED and
goes on, or ends when that is refused too, and a campaign sent by hand stays as it is.
`Crash` and `CrashBeforeRecord` stop every sender. `Delete` takes the rows
along, and the next write of a sender at work fails (`Fail`).

### `ProjectBoard`

One task; accounts are only added. A worker is a form and the request it becomes: `OpenForm` ticks boxes
of the lists it shows, `Submit` sends them any time later, then `CheckTask`
(`validateAssignees`), `SyncWaiting` (one transaction), `ClearAssignees`,
`FillAssignees`; or a sign-in or an acceptance: `Join`, `ReadWaiting`,
`CommitClaim` (one transaction, by row numbers), `MarkAccepted`. `named` is what the
last save asked for; `mixed` records that two saves, or a save and a claim,
crossed, or that one died half done.

The `MC…` modules give the instances; the operators named *Mutant* in the
modules are versions of an action with a plausible bug, each placed before the
action it replaces; `PROJECT.json` says which property refutes which.

## What is checked

| Run | Shows | Instance |
|---|---|---|
| `payment_flow` | whatever confirms, fails, refunds or crashes: each line once, completed means in full, a failed order gave nothing, one refund, statuses only go forward, and the refinement of `Fulfilment` (so: nothing before the money) | an order of two categories and a shop-only order, two workers |
| `payment_flow_live` | every pending order is settled, under the cron's fairness | one order, two workers, no symmetry |
| `ticket_stock` | no seat twice, a refunded order out, with an order, batches, bulk changes, edits of the quantity, gate and cancellation of the event, for ordinary tickets and for passes | two requests, two seats, two tickets ever made: an order of one against batches of two, quantities edited to three or to the seats left, a cancelled seat sold again |
| `merch_orders` | pieces balance, negative stock only from late payments, goods leave once; a stale write spoils only the orders and variants it is about | two orders wanting the last piece, two variants, two requests |
| `gate_scan` | an ordinary ticket enters once, every entry is recorded, reported or queued, a queued entry keeps its ticket used, a list that is behind is fetched again, but for what `torn`, `exposed` and `hidden` name | two phones that scan with two requests under way, or one phone with one request that also refreshes its list while the organizer cancels the ticket, makes it valid again or edits its days; a ticket whose category is valid once or by the day, two scans or changes, two minutes |
| `stale_days` | *violated*: "touch the tickets of this tariff so their new days reach the scanners": a list fetched between the two updates of an edit of the days keeps the former ones, and is not fetched again | one phone |
| `billing` | a payment is granted at most once and only if paid, credits add up, receipts are 1, 2, … without gap, no month of a plan is lost or added but by a crossed change | a month and a pack of two credits, two jobs, a batch of three that takes both or is refused, one change of plan, one month |
| `sessions` | a client that missed nothing holds the current token, an ended session stays ended, a new password ends every session but those named | two sessions, two tabs and a phone, two calls, three tokens, one change of password |
| `payouts` | the reserve settles what is left to the cent, the row is what was transferred, an account its organizer closed leaves no buyer waiting and rows that are the net of the sales, but for the orders that changed as named | two orders (fee on the buyer, fee on the organizer, an amount rounded down), two clerks |
| `cannot_close` | *violated*: "can be closed once they are settled": after a refund that follows the first payout the reserve is negative, nobody can record it, and the account never closes | two orders, one administrator |
| `mailings` | a campaign is not received twice for a ticket, the status tells what happened, a due campaign is sent | two campaigns (one without recipients), the round and one request |
| `project_board` | a task is assigned to whom the last save named, a link admits once | the organizer and a guest, one link, two forms or requests |

### Bounds, and why they are enough

- *Two concurrent requests, jobs or phones.* Every race found in this code is
  between one read and one write of two requests; a third only adds
  orders of those. The theorems hold for any number, in every module.
- *Quantities 1 and 2*: an order that fits, one that needs all the seats, a
  batch that competes; a line that can fail after another succeeded.
- `MaxTickets`, `MaxGoods`, `MaxMoves`, `MaxTime`, `MaxPrinted`, `MaxMonths`, `MaxChanges` bound what would
  grow for ever; each is a guard of the action that grows it. `MaxTries` and
  `MaxAttempts` are the code's own limits made small (3 and 5 there): what
  happens at the limit is reached.
- *Two gates, or one and its list* (`TwoGatesOrLists`). Two phones matter for two entries
  of a ticket, and one phone for a list against its own queue: while both phones have
  begun, no list is fetched and the organizer changes nothing, and two requests are under
  way; while one has not, the other meets all of it, with one request at a time (two of
  them are twice as many states and no new answer of TLC). Lists depend on no other phone but through the ticket's status, which
  the organizer changes there. `FewRecords` follows two records of a pass at one time.
  `MaxAge` is 0: an entry is too old a minute later, young enough until then. A phone sends
  an entry that was answered an error no more (`MaxTries` is 1), and again one whose answer
  was lost.
- `CONSTRAINT Uncrossed` (`billing`) and `ClosedForGood` (`payouts`) stop at a state of
  which the properties promise nothing more: `crossed` is never reset, nor is an
  account reopened (a retired one is followed while a request to close it is at work).
  `Balanced` (`ticket_stock`) does so at `leak`, lets one ticket enter, and follows one seat
  doubled or one ticket reopened, while neither the category nor the event is edited; an
  edit and the cancellation of the event do not meet.
  `OneStale` (`merch_orders`) follows one order, or one variant, acted on after it
  changed, with that order left alone then and no other stock edited: the rest must
  still balance. `FewFaults` (`sessions`) lets one store miss answers, or the
  password change, or the account be deactivated: each fault is explored with
  everything else, two of them together are not.
- `project_board`: a second link (17 million states in five minutes without
  error) does not fit the time of a run; the collaborator's invitation already
  lets a guest be listed twice.
- `mailings`: rows are numbered by batch, so that two senders that both made the
  list of recipients are told apart; two campaigns are enough for the round to have
  a next one, and the second has no recipients, which is the case that can be
  SENT without a row.
- Symmetry is over requests, jobs and phones only, and never in the two runs that
  check liveness.
- `CHECK_DEADLOCK FALSE` everywhere: a shop whose orders are settled, or a
  model that has reached its bounds, stops.

### Fairness

`mailings` assumes: the scheduler starts a round as long as something is due
(`@Cron('0 8 * * *')`), the round goes on to the next campaign, a sender that can
go on does, and neither does the process die nor the database refuse for ever. Without
the last, a crash at the same message each morning would keep a campaign due. `DueIsSent` says
nothing of how a campaign ends: it may be sent, fail, be put off or deleted.

`payment_flow_live` assumes: time passes (`HourPasses`); a job that can go on
does (`JobStep`: Node's event loop); and for each payment, strongly, that the
cron takes it again and again (`@Cron('*/15 * * * *')`), that FlexPay's check is
answered at some time, and that the process does not die at the same step for
ever. Callbacks, polls and the buyer have none. The cron takes 50 rows in no
order: with more rows that can never be checked than that, the second assumption
is not the code's; this limit is not modelled. A row can be an hour old while
its request still waits, since the request to FlexPay of the sales flow has no
timeout.

## What is proved

One module of proofs per component (`Billing_proofs` extends `Billing` and `Payouts`, which
add amounts up by the same laws; for that the names of `Payouts` differ from those of
`Billing`), for any sets of orders, payments, requests, jobs, clerks, people, phones,
campaigns or sessions, and any bounds. A property is seldom inductive: each proof builds its invariant in layers, `TypeInv` first (the *exact*
record a request holds at each step, where the `TypeOK` of the component only says what
its variables may hold), then one layer per group of properties, with one step per
action. A layer may use those below it. Each of them was an invariant of the
component's run before it was proved. Lemmas named `…Frame`, `…Step` or `Keeps…` say
once what most actions do to a layer, mostly nothing.

| Module | Theorems | What the invariant adds to the property, and why it is needed |
|---|---|---|
| `PaymentFlow_proofs` | `TypeCorrect`, `NoDuplicateTickets`, `CompletedIsServed`, `FailedIsEmpty`, `SingleRefund`, `NeverBack`, `ImplementsPromise` | `Linked`, `RequestFirst`: a busy job has a payment, no row before its request. `ClaimPaid`: a job at the claim was told the money is there. `Remaining`: the lines the generating job has left are exactly those not issued, else it could issue one again. `NotBeforeClaim`: a row not yet claimed, or failed, has none |
| `TicketStock_proofs` | `TypeCorrect`, `RefundIsFinal`, `SeatsAreEnough` | `OrderInv`: an order is generated by one request, while it has no ticket (`GeneratedOnce`); a refund about to commit holds every ticket of the order still unused, but the reopened ones (`HoldsUnused`). `PassEntered`: what is USED and opens the gate was entered with, or reopened. `SeatInv`: seats on sale, owed by a cancellation and taken, less the doubled ones, fit the quantity, or the one an edit is about to write, since an edit writes the seats a statement before the quantity |
| `MerchOrders_proofs` | `TypeCorrect`, `ShortIsAccounted`, `GoodsLeaveOnce`, `StockAndOrdersBalance` | `PayInv`: one request serves a completed payment. `ShortInv`: what late payments took, without the lines still to take. `HandInv`, order by order: the handover count is the one the status tells, also in a refund's snapshot. `StockInv`, variant by variant: stock, held goods and those being taken again, from below (`Taking`) and from above (`MayHave`): between the two statements of a late payment the pieces are under no order |
| `GateScan_proofs` | `TypeCorrect`, `EnteredOnce`, `QueuedStayUsed`, `ListsCatchUp`, `EntriesAreRecorded` | `TypeInv` says whose request is whose: no phone is answered by another's. `EnteredInv`: an ordinary ticket still unused never entered, so the conditional claim counts its first entry. `ListInv`: a list on its way is right but for the tickets changed since it was asked, or hidden from it (`OnItsWay`). `RecordInv`: every time of entry somebody has read is in the records, about to be, or torn, else ALREADY_USED could dismiss an entry nobody wrote; and what an upload may have made of the time of its entry (`Means`) |
| `Billing_proofs` | `TypeCorrect`, `GrantsOnce`, `ReceiptsFollow`, `NoMonthLost`, `CreditsBalance` | `NextNumber`, in `TypeInv`: the number a job is about to try is at most one more than the highest. `GrantInv`: one job past the claim may still grant, before which nothing was granted, and all that know of the payment know it paid. `CreditInv`: what a print holds is counted, a month buys no credit |
| the same, of `Payouts` | `PayoutsTypeCorrect`, `ClosedAccountSettled`, `ReserveCovers`, `RowsTellTransfers` | `DueInv`: while no order changes, a row holds its share of the net (`RowsFit`); the rows a clerk read are still there, and one written since was written on the same orders or shows that it was not (`RowsRead`); so what it computed is what is left now (`ReadIsLeft`), what was transferred too (`SentFits`), a request past the summary has nothing left to find, nor, past the count, a refund asked (`ClosingFits`), and a closed account neither (`ClosedFits`) |
| `Sessions_proofs` | `TypeCorrect`, `GoneForGood`, `PasswordEndsSessions`, `StoresStayCurrent` | `TokenInv`: where the tokens of a session may be. A session lives in one jar or phone (`OneJar`); a token being answered is nowhere else and is the one the row expects (`OnItsWay`, `AnswerIsCurrent`); who left an answer behind is known (`LeftMissed`) |
| `Mailings_proofs` | `TypeCorrect`, `TicketMailedOnce`, `StatusIsTrue` | `SendInv`, campaign by campaign: one sender has it, one row per holder, the rows left to that sender are not served and the others are, or it knows of a failure; one that broke off leaves its mark (`dead`) |
| `ProjectBoard_proofs` | `TypeCorrect`, `SavedAsNamed`, `LinksAdmitOnce` | `SaveInv`: after each of a save's three commits, who is on the task together with whom it has still to write is whom it names; a task being created has no one. `LinkInv`: a link that admitted is closed, or its acceptance is under way; two that follow it are known |

`NeverBack`, `GoneForGood`, `ReserveSettles` (`ReserveCovers`) and `RecordedIsTransferred`
(`RowsTellTransfers`) are action properties; `ImplementsPromise` is the
refinement of `Fulfilment`, step by step. `OneGenerator` and `PaidFirst` are proved with
`NoDuplicateTickets` and `CompletedIsServed`; no run checks them on their own.

### What the proofs assume

Only the named assumptions on constants, which TLC evaluates in every run. Besides
the types of the constants they say: requests, orders, payments, jobs and workers are
finitely many; the names used for *nothing* (`NoPayment`, `NoOrder`,
`None`, and `"signin"` for a claim that follows no link) name no real thing, and the
cron is no request (`SendersAssumption`), a ticket no request (`WriterAssumption`: both
write); a bulk change gives a status of the enum
(`BulkStatusesAssumption`); an order has an item; the clock has two times
(`TimeAssumption`). Of the payouts they ask natural prices and quantities, and let any
set of amounts have its half rounded down (`HalvesDown`), whichever the floating point
takes.

Three theorems of `GateScan_proofs` have a hypothesis more, about
`OrganizerActs`, the statuses given to tickets otherwise than by a scan. TLC finds each property
violated without it: a queued ticket made PENDING is let in again, as `Keep` only holds
against VALID (`QueuedStayUsed`, `ListsCatchUp`); a ticket marked USED in bulk has a time
of entry in no record (`EntriesAreRecorded`). The code justifies both: nothing calls
`bulkStatusUpdate` (`tickets.service.ts:162` is its only occurrence), and no
other statement makes a ticket PENDING, or USED without a scan.

### Sums and counts

`CreditsAccounted`, `StockBalances` and the net of the sales add up over sets of any size. The library's
`SumFunction` is a fold, whose laws are not among its theorems, and its induction
theorems take an operator, which the provers cannot instantiate. `Billing_proofs`
therefore proves what it needs of sums by least counterexamples: the recursive function
exists and is unique, its elements may be added in any order (`TotalsSplit`), and one
changed value changes the sum by as much (`SumUpdate`). Of the net of the sales nothing
more is needed than that it is an integer, and of the fees refunded that none is
negative (`SumNat`): every change of an order ends what `DueInv` says of the past, and
between two changes both sums stay what they are. `MerchOrders` counts pieces
instead (`Pieces`): the cardinality of the set of pairs of an order and a number up to
the quantity ordered, for which the library's cardinality theorems suffice (`PiecesMore`,
`PiecesAdd`, `PiecesLess`; `PiecesOthers`: an order without a piece of the variant does not
count). `SeatsAreEnough` rests on the same theorems.

### What the proofs showed about the models

- `due` of `Billing` may be negative after a crossed grant. Its type was `Nat`, which
  held in the run only because its constraint stops at `crossed`.
- `ShortOnlyByLatePayments` holds whatever is stale; the property lost that condition.
  `StockBalances` and `HandedOverOnce` hold of every order and variant no stale request
  touched, whatever happened to the others: one crossing spoils one order, not the shop.
- A refunded order stays out whatever crosses its refund, stale edits and double
  cancellations included: only a bulk change of that very ticket, or a pass that had already
  entered, opens the gate. `RefundedStaysOut` has no condition `~leak`. And a crossing at the counter of
  seats costs exactly one seat each time: `NoSeatSoldTwice` counts them (`doubled`).
- In `Mailings`, `ProjectBoard` and `GateScan` three actions had a `CASE` of which two
  guards could hold at once. TLC takes the first, the language promises none: they
  are exclusive now.
- The two parts of a payout may be recorded in either order, by two administrators at
  once: while no order changes they add up to the net. The proofs need neither that the
  amounts be positive nor that the advance be nine tenths, only that it be one function of
  the net.
- The assumptions listed above on finite sets, on `"signin"`, `None` and the bulk statuses
  were implicit in the instances.

### Only model-checked

- Liveness (`EventuallySettled`, `DueIsSent`): liveness under fairness and `ENABLED` are
  beyond the prover.
- The two violated statements (`stale_days`, `cannot_close`): their counterexamples are
  the result.

## What the code does that its text does not say

The two violated runs keep one each. The others were met while modelling; each is a
behaviour of the module named, found by TLC when the statement quoted was a
property of it:

- `refunds.service.ts:190` "Les billets de cette commande sont annulés": a pass that
  entered before the refund of its order stays USED and enters again on another of its days
  (`validation.service.ts:204`, `TicketStock`, the second half of `RefundedStaysOut`);
- `scanner_repository_impl.dart:176` "Same entry already recorded … is not a conflict": the
  server fails between the claim (`validation.service.ts:284`) and the record (`:301`), and
  the phone dismisses the upload it sends again, the entry being nowhere (`GateScan`, `torn`);
- `local_database.dart:269` "A ticket validated offline whose scan is not uploaded yet stays
  "used"": not when a list is saved between the mark and the queueing
  (`scanner_local_source.dart:128`, `GateScan`, `exposed`);
- `controller-space.service.ts:80` "With `since`, just the tickets changed after that time":
  a cancellation dated before the list and committed after it (`refunds.service.ts:81`)
  never reaches the phone (`GateScan`, `hidden`);
- `privacy.service.ts:126` "nothing pending": both payouts recorded, an order refunded, and
  the account closes in debt, since a part once recorded counts as settled whatever the
  net is (`payouts.service.ts:78`, `Payouts`, the last exception of `ClosedOwesNothing`);
- `communication.service.ts:230` "Envoi déjà en cours": SENDING is read and written without
  a condition, and the daily round looks at it in neither way, so a request sends a campaign
  the round has in hand (`Mailings`, `overlap`);
- `payment.service.ts:155` "Nothing will be paid": the answer of FlexPay lost
  after it took the order, the buyer pays a FAILED payment (`PaymentFlow`);
- `ticket-generation.service.ts:161` "prevents overselling": two cancellations of
  one ticket (`:235`) free two seats and a sale fills both (`TicketStock`, `doubled`);
- `shop.service.ts:464` "Paid after the reservation expired: take the stock again":
  not when it expires between the read and the write of PAID (`MerchOrders`,
  `stale`);
- `controller-space.service.ts:152` "two stands can't give it out twice": they can
  after the organizer's READY was written over PICKED_UP (`MerchOrders`, `stale`);
- `validation.service.ts:237` "A pass enters once a day": two gates that read
  before either writes both answer VALID (`GateScan`);
- `auth.service.ts:644` "the second one simply retries with the new cookie": the
  interceptor of the web site answers any refusal by leaving for the sign-in page
  (`lib/api.ts:125`), only a page that loads tries again (`Sessions`, `expelled`);
- `communication.service.ts:230` "Envoi déjà en cours": the status SENDING left by
  a process that died is refused for ever, and the page offers only to delete
  the campaign (`Mailings`, `dead`); a read or a write refused while a campaign is sent by
  hand leaves it so too, without a death (`:241`, `Break`);
- an order of two tickets receives a campaign twice, since both have the buyer's address
  (`payment.service.ts:424`, `communication.service.ts:411`);
- an account three years without a sign-in or an event is closed at night with payouts due and refunds
  to transfer (`privacy.service.ts:79`, `Payouts`, `RetireAccount`);
- a scan of a pass may read the record of an upload before it has the phone's time, and so
  take an entry of another day for one of today (`validation.service.ts:240`, `GateScan`, `torn`);
- saving the design of the tickets sends the seats left as the quantity of the
  category (`TicketEditor.tsx:868`), so each save after a sale shrinks it by what
  was sold (`TicketStock`, `FormQuantities`);
- a generation that read the event before its cancellation leaves valid tickets
  on a cancelled event (`events.service.ts:359`, `TicketStock`);
- an order whose generation failed stays PROCESSING and no refund, not even
  "Every paid order of an event" (`refunds.service.ts:129`), takes it; two
  generations that count the same tickets (`ticket-generation.service.ts:113`)
  are enough to cause it;
- the cron fails an order which the buyer may still approve
  (`payment.service.ts:346`);
- `markPaidForPayment` that fails leaves the order PENDING_PAYMENT, to expire
  (`payment.service.ts:455`);
- a list asked before an online entry and saved after it brings the ticket back
  to valid on that phone (`local_database.dart:292`); an entry refused too often
  stays in the queue (`local_database.dart:382`); two phones admitting within a
  minute are not reported (`scanner_repository_impl.dart:180`);
- two grants of the same plan can lose a month
  (`subscription.service.ts:400`); a month paid while the organizer goes back to the
  free plan is written as an end of the free plan, and gives nothing (`:404`); a month
  paid over a plan given without end gives that plan an end (`:402`) (`Billing`; the first two are `crossed`);
- a crash between claim and grant loses the grant (`billing.service.ts:231`), two prints share one remaining quota
  (`subscription.service.ts:302`), an exception between `consumePrint` and the
  transaction keeps the credits (`ticket-generation.service.ts:84`);
- a password stored without its sessions being deleted, the process dying between
  the two (`users.service.ts:148`), leaves them all signed in;
- recipients are written without a telephone number
  (`communication.service.ts:411`), so every SMS or WhatsApp campaign fails for
  everybody; a campaign deleted while the round sends it ends the round, and the
  campaigns after it wait for the next day (`:383`); a campaign scheduled again
  while it is sent loses its schedule to the final status (`:492`);
- a claim between the commits of a save is wiped out by it
  (`project.service.ts:221`); a claim that read the row of a person whom a save
  then took off assigns them again; a member removed from the project keeps their
  tasks, and may return by any other link still pending (`:743`); an acceptance
  whose claim fails, since the task is deleted meanwhile, leaves the link open
  although the membership is written (`:805`).

## Not modelled

- Liveness of PROCESSING orders, of granted payments and of the phone's queue: the
  code has no retry for the first two, and the third depends on the controller
  coming back to the screen.
- A module that would join payment, seats and goods of one order: each
  component already holds the steps of the others it can tell apart (see how they
  meet), and what the whole adds are the losses listed above, which no code
  repairs.
- Controllers, free orders per day, reminders of plans: a count or a row is read
  and then used, without a guard; the behaviours are those of their hazards.
- Guests, team, users, administration: plain updates of rows of one person.
- Notifications, realtime, analytics, audit: nothing acts on what they write.
- Cryptography, QR codes, storage, exports, pages of the web site and screens of
  the phones other than those listed: libraries, rendering, input and output.

## Plan

Done: the modules above, and a proof of each of their safety and action properties. What
would say more of the system, in this order:

1. Fewer crossings: `crossed` (`Billing`), `mixed` (`ProjectBoard`) and `overlap`
   (`Mailings`) each cover several races, as `leak` and `stale` once did. For each of
   them, the weaker balance that still holds after it.
2. A second refinement: `MerchOrders` against an abstract stock where every piece is on
   the shelf, promised or gone.
