# A verification of the WhatsApp order automation platform

This directory models the parts of the platform in which things can go wrong
between several requests: the customer's credit, the stock, the invoice numbers,
the intake of messages, the cache of product names and the order pipeline that runs
through all of them; and two algorithms, the arithmetic of the tax and the analysis of
reference photos. The modules are TLA+, checked with TLC and proved about with TLAPS. Paths like `webhook_service.py:132`
are below `src/app/` (`services/`, `routers/`, `core/`, `models/`).

## 1. The system

FastAPI handlers work on PostgreSQL through one SQLAlchemy `AsyncSession` per
request (`database.py:26`, `get_db`): a READ COMMITTED transaction that commits
when the handler returns, **also when it returns a dict that reports an error**,
and rolls back when anything raises. Redis holds the marks of messages seen.
Several processes may serve requests, and within one the handlers interleave at
every `await`.

| Component | State | Operations | Talks to |
|---|---|---|---|
| Message intake (`webhook.py`, `webhook_service.py`, `idempotency.py`) | marks in Redis, `orders` | `receive_webhook`, `handle_event`, `_process_message`, `is_duplicate` | every other service, in one transaction per delivery |
| Inventory (`inventory_service.py`, `routers/inventory.py`) | `inventory` rows | `deduct_stock`, `add_stock`, `set_stock`, adjust, upload | called by the webhook for each line of an order |
| Credit ledger (`credit_ledger_service.py`, `routers/payments.py`) | `customers.current_balance`, `credit_ledger`, `invoices.amount_*` | `check_credit`, `record_invoice_created`, `record_payment`, `adjust_credit` | webhook (orders), payments router |
| Invoice service (`invoice_service.py`) | `invoices`, `invoice_items` | `_next_invoice_number`, `create_invoice` | webhook; GST engine |
| GST engine, HSN tables (`gst_engine.py`, `hsn_lookup.py`) | none (tables) | `calculate_line_item_tax`, `calculate_invoice_tax` | invoice service |
| Canonicalization (`canonicalization.py`, `routers/products.py`) | one in-memory engine per tenant and process; `products`, `product_aliases` | `load_aliases`, `add_alias`, `resolve`, `invalidate_engine` | webhook, products router |
| Order pipeline (`webhook_service.py`, `routers/customers.py`) | `customers`, `orders` and the rows of the services it calls | `_process_message` from the text to the confirmation, `create_customer` | every service above, the LLM, WhatsApp |
| Order parsing, voice, notifications | none | HTTP calls to an LLM, Sarvam, WhatsApp | webhook |
| Reference photo analyzer (`reference_analyzer.py`, `routers/reference_photos.py`) | none, a request works on its own image | `analyze`, `analyze_reference_photo` | a thread pool |
| PDF, lists, configuration | none of their own | formatting, reads | routers |

**What is hard.** Requests of one customer read the balance before they lock it;
SELECT ... FOR UPDATE does not refresh an object the session already has; foreign
key inserts take a lock that conflicts with FOR UPDATE; stock rows are locked in
the order of the message; the refusal of an order is returned, so it commits; the
mark in Redis is set before the work and survives its rollback; WhatsApp delivers
again; the invoice count is not locked, and the date in the number moves on; each process
caches the product names on its own, and changes its cache before the change commits.
One transaction takes locks in four tables, for one message after the other of a delivery,
on a pool with fewer connections than there may be requests, and tells the customer of an
order before it commits. The analyzer divides images that may have hardly any pixels.
`PROJECT.json` lists each hazard with its line and the properties that watch it.

**What makes each component correct.**

- *Credit ledger*: invoices, ledger and balance tell one story; payments settle the
  oldest invoice first and lose no update; an order is billed once or not at all;
  the limit holds; nobody waits for ever.
- *Inventory*: a request takes effect as if in one step; no piece is sold twice or lost.
- *Invoice numbering*: numbers are unique and sequential per tenant.
- *Intake*: a message becomes one order however often it is delivered, takes stock
  once, and is not acknowledged before it was taken care of.
- *Canonicalization*: an order takes the product it names, and only committed ones,
  whatever the caches hold; a name belongs to one product.
- *Order pipeline*: a delivery takes effect as if in one step; what a customer was told is
  booked; requests that block each other do so for a known reason, and all end.
- *Reference photo analyzer*: every image that is not too thin has a profile, and what the
  profile says does not depend on how the picture lies.
- *GST engine*: rounding costs no more than a paisa or so a line, the kind of tax follows
  from the states alone, and invoices add up.

## 2. The modules

| Module | Models | Size of the instances |
|---|---|---|
| `CreditLedger` | order sessions (steps 4 to 11 of `_process_message`) and payment sessions over balances, invoices and ledger | 2 orders, 2 payments, 1 customer |
| `Inventory` | stock rows under FOR UPDATE: orders, adjustments, uploads | 2 orders, 1 adjustment, 1 upload, 2 products |
| `StockPromise` | the abstract inventory: each request in one step | refined by `Inventory` |
| `InvoiceNumbering` | count, date, insert, unique index | 3 requests, 2 tenants, 2 days |
| `MessageIntake` | deliveries, marks, the loop in one transaction, answers | 2 messages, 2 requests |
| `Canonicalization` | engines per process, lazy load, new products and aliases, orders | 2 processes, 1 new product, 1 new alias, 2 orders |
| `GstEngine` | the tax of a line and an invoice, rates, the issue of the invoice | orders of 1 to 3 of 8 items, 2 states |
| `OrderPipeline` | deliveries side by side over customers, stock, orders, invoices and the connection pool (steps 2 to 11) | 3 deliveries, one of two messages, 2 phones, 2 connections |
| `DeliveryPromise` | the abstract pipeline: each delivery in one step, over `StockPromise` | refined by `OrderPipeline` |
| `ReferenceAnalyzer` | the photo endpoint: checks, resize, profile | images with sides of 1, 3, 6 or 20 pixels, two of 5 colours |
| `CreditLedgerProofs`, `InventoryProofs`, `InvoiceNumberingProofs`, `MessageIntakeProofs`, `CanonicalizationProofs`, `GstEngineProofs`, `OrderPipelineProofs`, `ReferenceAnalyzerProofs` | theorems for every value of the constants | - |
| `MC...` | the constants of the TLC runs | - |

A session is a process with a program counter `pc`. What it has read or changed and
not committed is in its own variables (`seen`, `draft`, `mine`, `results`), and only
its commit action writes the tables: that is READ COMMITTED with a unit of work. The
guards of the locking actions say when PostgreSQL grants the lock; a session whose
guard is false waits. `RollBack` discards what the session has, and `Fail` may
happen in every open session, for any exception and for a crash of the process,
which look the same from the database. `DeadlockVictim` stands for PostgreSQL's
deadlock detector.

### CreditLedger

`LoadCustomer` is the unlocked select of step 4; the `Customer` object it returns
(`seen`) lives as long as the session. `PlaceOrder` is steps 7 to 9: the insert of the
order (its foreign key takes KEY SHARE on the customer), `check_credit` on the object
and on the amount before tax, and the branch into hold or invoice. `RecordInvoiceCreated`
waits for FOR UPDATE and adds to the object, **not** to the row. `CommitOrder` publishes
everything; the UPDATE of the balance is emitted only when the object's value has changed
(`WrittenBalance`). A payment is `InsertPayment` (KEY SHARE), `LockForPayment` (FOR UPDATE,
first read of the customer, so current), one `SettleNext` for each turn of the FIFO loop,
`CommitPayment`. The customer lock makes the row locks on the invoices redundant, and they
are left out.

Amounts are whole paise; the columns are floats. Two comparisons depend on how floats
round, and both outcomes are allowed: whether a due of one paisa is `<= 0.01` (`NearZero`),
and whether a subtraction of equal amounts leaves a sliver above 0 that keeps the loop
going (`dust`). `created_at` is the start of the transaction (`began`), as `now()` is.

### Inventory and StockPromise

A session takes the steps of its `work` in order. `TakeStep` is one call of `deduct_stock`,
`add_stock` or `set_stock` that finds the row: it waits for the row lock, reads what is
committed or what the session itself has written, and changes its `draft`. `MissRow` is the
same call without a row, which locks nothing; add and set leave a new row `pending`, which
`InsertRow` flushes with the next query, under the unique constraint. `Commit` belongs to
orders, uploads and adjustments alike; a refused adjustment raises (`Refuse`), a refused
order does not. `Fail` covers also what happens later in the order's pipeline.

`StockPromise` is what "atomic inventory management" can mean: one step per request, on
the stock as it is in that step, all or nothing for adjustments and uploads, and for
orders, whose lines are refused one by one, an honest verdict for each: a product is reported
missing only if it had no row when the request came in (`begun`, `known`). The mapping takes
a session's verdicts as `served` from its commit on.

### InvoiceNumbering

`Count` and `Stamp` are the two halves of `_next_invoice_number`, `InsertInvoice` the flush
of `create_invoice`. The unique index makes the insert wait while another open transaction
has the number and fail (`LoseNumber`) when it is committed. `Midnight` moves the date.
A request creates up to `Batch` invoices, as a delivery may hold several orders.

### MessageIntake

`Check` is `SET NX`: it marks the message whatever becomes of it later. `EndWithoutOrder`
gathers the ends of steps 2 to 6 that return, of which only the inventory error leaves
anything behind (its deductions), and `PlaceOrder` steps 6 to 11, held or confirmed. The
unique `whatsapp_message_id` makes it wait for, or lose to (`LoseInsert`), another request's
order. `Commit` publishes what all messages of the delivery did, `Answer` is the 200,
`LoseAnswer` a connection that breaks after the commit. WhatsApp may `Deliver` any batch at
any time, acknowledged or not; `LoseMark` is the 24-hour expiry or a Redis restart (the
container has no volume). Stock deducted is recorded per message, not per product.

### Canonicalization

`engine[p]` is what the tenant's engine in process `p` was given, as a sequence of
normalised aliases with their products; the three indices of the class are functions of it
(the last entry of a token counts for exact matches, the first for ties, the shortest for
sounds). `count[p]` numbers the engine objects: `invalidate_engine` and a restart leave a
new, empty one. An order that finds entries resolves its line at once (`UseEngine`); one that
finds none keeps the object it has (`held`), awaits the alias rows (`FindEmpty`,
`ReadAliases`) and loads them, in whatever order they come, into that object
(`LoadAliases`), which by then may no longer be the process's. `CreateProduct` and `AddAlias`
flush under the unique constraint and change the engine; `Commit` or `Fail` follows.
Aliases, tokens, `Distance`, `Soundex` and `Length` are constants, the tokens not empty: any
values of `_normalise`, of the Levenshtein and of the jellyfish library are instances.
Prices matter in one respect: the loading order has a price map and every other order has
an empty one (`LoadersPrice`).

### GstEngine

Decimals are whole numbers: unit prices count tenths of a paisa, amounts paise, rates
hundredths of a percent. An HSN code is a sequence of two-digit groups, so that `code[:4]` is
its first two. `TaxLine` is a turn of the loop of `calculate_invoice_tax` with all of
`calculate_line_item_tax` in it, `Summarise` the end of the function, and `Issue` or `Raise`
what `create_invoice` makes of it (a quantity of 0 divides by zero). `exact` is a history
variable: the tax without rounding. Two remarks on the code that no property is about:
`_round2` rounds halves up where its docstring says banker's rounding, and a product in none
of the tables gets code 9999 at 0 % without a word.

### OrderPipeline and DeliveryPromise

A request processes the messages of its delivery one after the other; `results` is what
`_process_message` returned for those it is through with, and `lines`, `items`, `verdicts`,
`account` and `number` are its local variables for the current one. `mine`, `draft`, `locked`
and `billed` are the session's: rows inserted, stock changed, and the rows it has locked.
`ReadOrder` and `ReadNothing` are steps 2 and 3, whatever the language model answers within
the schema; `FindCustomer` and `CreateCustomer` step 4, whose select takes the connection;
`Canonicalize` one turn of step 5, which cuts a quantity to whole pieces; `Deduct` and `MissRow`
one turn of step 6; `InsertOrder` and `HoldOrder` steps 7 and 8; `CountInvoices` and
`InsertInvoice` step 9; `RecordInvoice` and `Confirm` steps 10 and 11. `Register` is
`POST /customers/`. The credit check may go either way, because `CreditLedger` has the
balances, and each message comes once, because `MessageIntake` has redelivery. `told` holds
the confirmations that may have gone out: `send_text` swallows its errors, so the code cannot
know. Five ways to fail have a cause in the model (`FindTwo`, `PoolTimeout`, `Undividable`,
`LoseNumber`, `DeadlockVictim`), and `Fail` is any other.

`DeliveryPromise` says what all that amounts to: one step per delivery, with the numbers that
follow on the invoices there are, the stock by `StockPromise`, and each order on a customer
of the sender's phone. It promises no more than the code: a refused order keeps the lines it
could take, an order on hold keeps all of them and nothing ever releases them, a quantity
below one piece fails the delivery, or, if the order is held, is an order of no piece; and two
first messages of a phone may make two customers, after which every message from that phone
raises `MultipleResultsFound`.

`DeadlocksHaveACause` lists what PostgreSQL has to break. Stock rows are locked in the order
of the lines. Two orders of one customer each hold KEY SHARE on its row from their orders'
insert, and each waits for FOR UPDATE on it, or one waits for the other's invoice number
meanwhile. And a request that has placed an order goes on to the next message's stock rows with
the number and the customer of the first still locked. No other circle exists: a request with one order asks
for stock, customer, number and customer in this order.

### ReferenceAnalyzer

A picture is a rectangle of one colour (`figure`) on a ground of another. `Load` is the
decoding and the resize, which leaves the pixels to the resampling: any picture of the new
size may come of it. `Analyze` is `analyze` without the palette, the temperature, the contrast
and the depth map, numbers on which nothing else depends; means are tenths of L and
thousandths of a saturation. A
mean of no pixel is `Undefined` (NaN), which `argmax` takes for the largest; a response with
it fails or has `null` in its place, depending on the version of FastAPI (`Render`). The lightness of
a colour is a constant: the conversion to CIE-LAB is left out.

The program computes hues and saturations in float32, and a hue that is 30 or 90 degrees by
arithmetic may come out on either side: RGB(3,2,1) gives 30.0000038 and counts as orange, while
(1,3,2), the same colour with its channels changed round, gives 150 and counts as green. A tone
of the model is what rounding makes of a colour: twice the hue, so that one less or more stands for
a hue just below or above the exact one (`Hues`), and for a saturation of exactly 15 % either
verdict (`Neutrals`). A hue with two equal channels is exact (`ExactHue`): its quotient is 0, 1 or
-1, and the bound of 60 degrees is such a hue. `Analyze` reads each colour of the picture as any
of its tones. Rounding cannot matter off the bounds, where it would have to move a hue
by 30/255 of a degree at least, the least distance there is.

Remarks on the code: an image more than `max_pixels` long and a few pixels high stays above
`max_pixels` (`max(1, ...)` holds the short side up), against the docstring of
`_resize_for_analysis`; sides below 3 give NaN zones and `TOP_LEFT`; pure yellow (60 degrees) counts
as orange; zones of unequal width make the light of a mirrored picture differ from the mirrored
light, so `MirroredLight` speaks of widths that 3 divides.

## 3. The runs

| Run | Shows | Result |
|---|---|---|
| `credit_ledger` | all safety of `CreditLedger` and that sessions end; a taxed, an over-limit-with-tax and a zero-priced order, payments of 3 and 5 | holds, 156,963 states |
| `credit_ledger_chain` | `LedgerChained` | violated: a lost update between two orders |
| `inventory` | no piece sold twice or lost, refinement of `StockPromise`, sessions end | holds, 120,819 states |
| `invoice_numbering` | gapless on a day | holds, 17,623 states |
| `invoice_tenants` | `TenantsDoNotClash` | violated: two tenants' numbers collide |
| `message_intake` | one order, one deduction per mark, acknowledged means taken care of, every message acknowledged | holds, 299,037 states |
| `message_intake_lost` | `DuplicatesWereProcessed` | violated: a failed request's order is lost |
| `canonicalization` | committed products only, the loading order is right, rolled-back aliases stay in one process | holds, 1,750,142 states |
| `canonicalization_names` | `OrdersWhatWasNamed` | violated: after `chini` is put into an empty engine, an order for the committed `chana` is given the product of `chini` |
| `gst_engine` | tax close to the exact one, the two kinds of tax, sums, rates | holds, 51,360 states |
| `order_pipeline` | refinement of `DeliveryPromise`, confirmations are booked, the causes of deadlocks, requests end | holds, 309,048 states |
| `reference_analyzer` | ranges of a profile, which images have none, light in the mirror, hue bands | holds, 131,177 states |

The four violated properties are statements of the repository, quoted at their
definitions and in the findings of `PROJECT.json`. Two more are not kept and
have no run of their own: overlapping orders of one customer can together pass the credit
limit (`CreditLedger` lets both through on one balance), and a refused order keeps what
it could deduct, which `StockPromise` and `DeliveryPromise` allow for. Because of all this the
properties that do hold are worded for what the code really gives. `ChainedLedgerIsRight` says that lost
updates cannot hide: if the running balances of a customer's ledger follow from its amounts
then the balance is right. `OnlyOverlapPassesLimit` bounds how far the limit is
not kept: what the invoices of a customer still owe passes it by more than the tax of one order
only if two of the billed orders overlapped, neither having seen the other's invoice when it
began (`known`, a history variable); no interleaving with payments and no failure is enough. The
tax of one order is in it because the code checks the amount before tax and bills the one after.
`PiecesAddUp` says that stock is what it was, less all that committed sessions deducted and
more all that they added, as long as no upload has set the row: a lost update would show
there, even one that leaves the stock above zero. `GaplessOnOneDay` is confined to one date because two requests that count on
both sides of midnight commit the same sequence number under different dates.
`AckedIsTakenCareOf` excludes failed requests and lost marks. `LoaderIsRight` is what is left
of "an order takes what it names": it holds for the order that loads the engine, against
every change of the engine meanwhile, and for no other. `ClosestRateUpToSixDigits` leaves out
eight-digit codes, for which the six-digit entries of the table are passed over.

**Bounds.** Two orders and two payments of one customer give every pair of session kinds,
and with them each deadlock and each lost update; the third session a scenario needs (one
that fails, or that settles what the others billed) is there too. Limit 6 is met exactly,
missed and passed by sums of the bills 0, 3 and 6; 3 and 5 pay bills of 4 and 7 in part,
in full but for one paisa, and over. In `Inventory` the works lock the two rows in opposite
orders, name one product twice, miss the row of the second product, and raise, lower,
repeat and overdraw it. Three requests of two tenants and two invoices each make clashes
within a tenant and across; two days suffice for one midnight. Two messages, delivered
together in either order, and two requests give each overlap of deliveries, as a message
that ends without an order is as good as absent; one failure and one lost mark per message
(`MaxFailures`, `MaxLosses`) are enough to run each recovery once. In `Canonicalization` the
creator, the adder and one order share a process, so each of their steps falls between any
two of the others, and a second process holds the other order; of three spellings two have
one token, two tokens are a distance of 2 apart, one is like another in sound only and one
is like none, so each stage of `resolve` decides some order; `MaxEngines` bounds restarts
to one before any other change of the engine. The items of `MCGstEngine` meet every slab and each way to
a rate, amounts on, just below and just above half a paisa, and a quantity of 0; three lines
let rounding add up, and all pairs of seller and customer forms are tried. In `OrderPipeline` a delivery of a message
from either phone overlaps with a single message of each, so each pair shares a customer,
stock rows in either order, or neither, and one of the three has placed an order before it
goes on; of the readings one has half a piece, one a name nobody knows, one a product without a row,
and one is no order; one phone has a customer and the other may get it from the
clerk, from either message or from both; two connections serve three requests. In
`ReferenceAnalyzer` the sides are below 3, divisible by 3 and not, and eight of the sixteen
pairs pass `MaxPixels`, with a shorter side that stays at 3 or more, falls below, or is held up at 1; the colours are dark and bright,
with and without a hue, on a bound that rounding decides and near 330 degrees. No symmetry is used.

**Fairness.** `FairSpec` of `CreditLedger`, `Inventory` and `OrderPipeline` gives weak fairness to the steps of
sessions that have begun, taken together (the event loop resumes a task that can go on, and a
lock that is free is granted), and to PostgreSQL's deadlock detector (it ends some session of
a circle). Every session has finitely many steps, so that is enough. It gives none
to failures, none to the start of sessions, and none to losses. The
number of sessions is finite, so starvation of one waiter by an endless stream of others is
not covered. In `MessageIntake` each request is fair on its own, and WhatsApp delivers some
batch that holds a message again and again as long as the message has no 200: strong
fairness, as deliveries need a free request. That is an assumption on WhatsApp and not on
this code. `InvoiceNumbering`, `Canonicalization`, `GstEngine` and `ReferenceAnalyzer` state no liveness. The
runs of the last three do not look for deadlocks, as they just end: every order is resolved, every
invoice issued, every image answered.

## 4. The proofs

All theorems are `Spec => ...` for any sets of sessions, customers, products, requests,
tenants, processes, names and tables, and any amounts; the assumptions are those named in the
modules: kinds of sessions are disjoint, each has a customer, tenant or process, amounts are
natural numbers, an adjustment's quantity is not negative and orders only deduct, rates are
of the five slabs, and the first aliases are finitely many and unique.

- `CreditLedgerProofs`: `TypeCorrect`, `InvoicesBalance`, `PaymentsReadCurrent`,
  `SettlesOldestFirst`, `BooksAreFinal` and `OrdersBilledOnce`. `InvoiceAccounts` is not
  inductive: what a payment commits it has computed over many steps from what it read first.
  `IInv` adds that the two row locks exclude each other (`LockExclusion`), that invoices exist
  only after their session is done, and for each payment in its loop (`LoopInv`) that what it
  read is still current, that the drafts of invoices already visited balance and differ from
  the tables only there, and that it visits in order of age and leaves no visited invoice
  open while money remains. `OldestFirst` and `BooksOnlyGrow` follow from `IInv` for each
  step. `OrderBilledOnce` needs `BilledInv` as well: the ledger entries of an order are the one
  its commit appended. `BooksMatch` and `ChainProvesBalance` are about sums over a ledger and
  over the invoices: a payment keeps the sum of what it has put on its drafts, for the
  entry its commit appends. For `LimitHolds`, `LimitInv` says that of orders that do
  not overlap, what their invoices still owe is no more than the balance, and that what an order
  knew when it began owes no more than the balance it was checked on, as payments since only lower
  what is owed. The newest of such orders knows of all the others (`OrderSolvent`), so its check
  was of everything, and its tax is what may be on top.
- `InventoryProofs`: `TypeCorrect`, `LocksExclude`, `NoOverselling`, `ServesInOneStep`. `IInv` adds
  that a session other than an upload holds no draft below zero unless the committed stock is at
  least as low (`Covered`), and that the verdicts never outrun the work. The last theorem is the
  refinement of `StockPromise`. Its invariant `RInv` says of each working session that the steps it
  has taken are those it would have taken alone, from the stock as it is committed now (`Serial`:
  a level of stock after each step, fair verdicts, and nothing changed but the rows it
  holds), unless it is about to fail for a row that another inserted. When another session
  commits, the levels are rebuilt from the new stock (`SerialElsewhere`): it changed only rows
  this one does not hold, and a step refused for want of a row stays refused. At the commit
  the levels are what `Replay` computes, as a recursive function over 0..n has one
  solution (`OneSolution`, by the smallest n where two differ). A step is refused as `missing` only
  if the product had no row when the request came in (`known`). `NoOverselling` proves
  `OnlyUploadsOverdraw`, an action property no run needs to repeat.
- `InvoiceNumberingProofs`: `TypeCorrect`, `Unique`, `NoGaps`. `IInv` bounds every sequence
  number by how many invoices its owner sees; with unique numbers on one date, n different
  numbers within 1..n leave no gap.
- `MessageIntakeProofs`: `TypeCorrect`, `OneOrder`, `OneDeductionPerMark`, `AckedIsHandled`. To bound
  the deductions of a message by its marks, `IInv` counts claims: what is committed and what
  open requests have in hand are together no more than the marks it ever had (`ClaimsInv`),
  as each `Check` that goes on has set one. `PlacedInv` says that what open requests
  have inserted is of different messages, none of which has a committed order. `AckedIsHandled` needs that
  while nothing has failed or been lost, each marked message is settled or in the hands of one open
  request (`FreshInv`): then a message is taken up once, so no request can lose the unique
  insert or a deadlock over one message, and none rolls back with marks behind it.
- `CanonicalizationProofs`: `TypeCorrect`, `CommittedOnly`, `AliasesUnique`, `LoadersAreRight`,
  `AliasesStayHome`. Whatever `resolve`
  returns is a product of the entries it searches (`ResolveType`, from the fact that the
  least of finitely many ranks exists), so it is enough that every entry and every row read
  is of a committed product (`EnginesInv`, `RowsInv`): a creator drops the engine and tells it
  nothing, and an adder's product is committed already. `WritersInv` says that no two open
  writers, and no writer and the table, have one alias. `LoadersAreRight` rests on the list of rows
  being onto them (`ListOntoRows`), so that a row of the name is among the entries, and on the
  order's own name, rows and result not changing once it is done. For `AliasesStayHome`, `SourcesInv`
  adds that a row once read is never withdrawn and that an adder inserts once.
- `GstEngineProofs`: `TypeCorrect`, `TaxStaysClose`, `PlaceIsNearlyNeutral`, `OneKind`,
  `SummaryIsSum`, `RateOfClosestEntry`. Lemmas bound
  what `Round` adds or takes, then what a line's tax differs from the exact one for each of
  the five slabs; `IInv` says the lines are the breakdowns of the items in order and that the
  totals are of one kind of tax. The bounds 0.64 and 1.14 paise a line hold for the slabs of
  this table; other rates would need other bounds. `RateIsClosest` holds for any table: the code,
  its heading and its chapter are all prefixes there are of a code of at most three pairs of
  digits.
- `OrderPipelineProofs`: `TypeCorrect`, `ConfirmationsHold`, `DeadlockCauses`, `DeliversInOneStep`. `ToldIsBooked` is not
  inductive: that a commit books what was confirmed needs the order and the invoice of every
  earlier message to be in the session still (`ToldInv`), and that two confirmations differ
  needs all numbers, committed and not, to be apart (`NumbersApart`), which the unique index and its wait
  give. For the deadlocks `RequestInv` ties what a session without an earlier order has locked to
  its program counter. `RequestInv` speaks of one request, so each action's lemma proves
  it for the one that moves, and `StepInv` carries it over for the others. `DeliversInOneStep` is
  the refinement of `DeliveryPromise`. Its invariant `DInv` says what each working delivery has
  done so far, as if it were alone on the tables as they are committed now: its results are
  just (`ResultsInv`); it has made each customer for a phone of its messages, once a phone
  (`CustomersInv`); its orders are one for each result that was placed and the current
  message's (`OrdersInv`); its invoices bear the numbers that follow on the committed ones, in
  the order of its messages (`NumbersInv`); and its verdicts are those it would get alone
  (`StockInv`, over all its messages' items in one sequence). A commit of another
  request moves the ground under the last two: the stock levels are rebuilt from the new stock,
  which is changed only in rows this one has not locked (`LocksApart`, `SerialElsewhere`); and a number
  counted before it falls behind, but only in a session without invoices, as two with
  invoices would both hold the first number after the committed ones, which `NumbersApart`
  excludes (`NumbersCommitted`, with `Gapless` of the committed invoices). A result once placed is never
  changed by `HoldOrder` as messages are all different.
- `ReferenceAnalyzerProofs`: `TypeCorrect`, `ThinImagesFail`, `LightIsMirrored`, `EveryHueTurns`.
  `ThinImagesFail` needs the arithmetic of the resize (a side scaled by the root of
  `MaxPixels` by the number of pixels, cut to whole ones) and that three rows or more fall into
  three bands, none of them empty (`Thirds`). `TypeCorrect` bounds every mean of a profile. For `LightIsMirrored` the flip is a bijection from the
  pixels of a zone to those of its mirror zone (`FlippedSet`), so a zone has as many pixels, as
  many of them in the figure, and the mean of its mirror zone (`MirroredZones`), and the one
  brightest zone of the picture stays the one (`Peak`). Of the hues the run tries five colours, the theorem all 16.7 million, with every tone that
  rounding may make of each. The hue is freed of its remainder (`HueWithoutMod`), then turning the channels adds
  120 degrees (`HueTurns`), and the bands are intervals of the hue (`InRegion`, `OneRegion`,
  `RegionTurns`); off the bounds (`OnBound`) a rounded hue is in the interval of the exact one.

`LocksExclude`, `Unique` and `AliasesUnique` state invariants (`RowLocksExclude`, `NumbersUnique`,
`OneProductPerAlias`) that only the proofs check.

**Sums and recursive functions.** The library's induction theorems take a predicate as a
parameter, which the provers cannot instantiate. The proofs that sum over a set (`SumFunction`)
or replay steps go by the smallest counterexample instead: a set of naturals that is not empty has a
least element (`LeastNatural`, from `WFMin`), and so a family of finite sets that leaves one out
leaves out one of least size (`SmallestSet`). From it come that any term may be taken out of a sum
first (`SumMember`), that equal functions have equal sums, and what a change of one term does.
Modules with theorems do not extend one another, so each that needs such a lemma has its own.

**Only model-checked**: liveness (`SessionsEnd`, `RequestsEnd`, `EveryMessageIsAcked`), which needs ENABLED and
fairness; `PiecesAddUp`, of which `ServesInOneStep` proves the refinement it rests on; and what the runs that find a violation are about.

## 5. What is not modelled, and the plan

Left out: `adjust_credit`, `mark_processed` and `remove` (no callers), like
`LLMDisambiguationService`, `send_payment_reminder` and `send_low_stock_alert`; the signature
check; voice, LLM parsing and notifications beyond their outcomes (external I/O); the PDF, lists
and configuration (no shared state); of the photo analysis the palette, the temperature, the contrast, the depth map and the values of
CIE-LAB; products that an upload makes. Customers exist beforehand
in `CreditLedger`, and one transaction carries one order there; `OrderPipeline` has several, and one tenant
and one date. Isolation is PostgreSQL's READ COMMITTED as these statements use it, not a
model of the database; the uniqueness and the foreign keys are those of the
models and of `migrations/versions/001_initial_schema.py`, which is only read for them.

Next: `Receivables`, the abstract credit book, with `CreditLedger` shown to implement it for
payments; product creation races of uploads.
