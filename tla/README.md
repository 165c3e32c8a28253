# Verification of magic-api

TLA+ models of magic-api, a shop's HTTP service in Go over PostgreSQL, with the TLC runs
that check them on small instances and TLAPS proofs of the main results for every value of
the constants.

The service has no transaction around a checkout, a cancellation, the use of a promotional code,
a sign-up or an import: each is a series of SQL statements that other requests, failing
statements, departing clients and restarts can come between. That is what most of these
modules are about. The rest is about what lives in the memory of the process: the hub of the
notifications, the rate limiters, the logins under way, the start and the end of the process.

## 1. Inventory

Paths are relative to `src/`.

| Component | State | Operations | Status |
|---|---|---|---|
| Orders and stock (`handler/order.go`, `service/order_service.go`, `store/postgres/{order,product}_store.go`) | `product_variants.stock`; `orders.status`, `orders.metadata` with `stock_reserved` and `stock_released` | `Create`, `UpdateStatus`, `reserveStockForItems`, `releaseStockForItems`, deletion of a product | modelled: `OrderStock` |
| Lists of orders (the same files) | the pages a reader has seen | `AdminList`, `ListMyOrders` | modelled: `OrderList` |
| Promotional codes (`service/promo_service.go`, `store/postgres/promo_store.go`) | `promo_codes` with its rule, `usage_count` and limits; `promo_usages` | `Create`, `Update`, `Delete`, `Validate`, `MarkUsed`; `applyPromoCode`, `afterOrderCreated` | modelled: `PromoUsage`, `Pricing` |
| Settings (`store/postgres/settings_store.go`) | one row per group | `Upsert`; the reads of a checkout | partly: `Pricing`, `Mails` |
| Catalogue (`store/postgres/product_store.go`, `service/product_service.go`) | `product_variants`, `product_sizes`, `product_colors`; the listing | `DecrementVariantStock`, `IncrementVariantStock`, `syncAggregatedStockFromVariants`, `Upsert*`, `Update`, `List` | partly: `StockTotals`, `ProductList` |
| Categories (`service/category_service.go`, `store/postgres/category_store.go`) | `categories` | `SeedDefaultCategories`, `Create`, `Update`, `Delete` | modelled: `Categories` |
| Import of products (`service/product_import.go`, `cmd/importproducts`) | slugs used by the import, `products` | `ImportFromCSV`, `ImportProducts`, the command | modelled: `ProductImport` |
| Address book (`service/address_service.go`, `store/postgres/address_store.go`) | `addresses`, one default per user | `Create`, `Update`, `SetDefault`, `Delete`, `SaveFromShipping` | modelled: `AddressBook` |
| Accounts and tokens (`service/auth_service.go`, `store/postgres/user_store.go`, `handler/auth.go`, `cmd/createadmin`) | `users`, `validation_tokens`, the sessions signed | sign-up by password and provider, activation, reset, login, `createadmin` | modelled: `Accounts` |
| Users (`service/user_service.go`, `handler/user.go`) | `users` | creation, the two updates, deletion | partly: `Accounts` |
| Access control (`middleware/{jwt,access_control,ownership}.go`) | none | `RequireRole`, `RequireSelfOrAdmin`, `DualTokenMiddleware` | partly: guards of `Accounts` and `Gatekeeper` |
| OAuth logins (`pkg/gatekeeper`) | maps of the states and of the sessions | `LoginHandler`, `CallbackHandler`, `createSession`, `Authorize` | modelled: `Gatekeeper`; not wired to the server |
| Notifications (`pkg/sse/hub.go`, `handler/notification.go`) | the set of clients, a bounded channel each | `Subscribe`, `Unsubscribe`, `Broadcast`, `Stream` | modelled: `SseHub` |
| Rate limits (`middleware/ratelimit.go`, `middleware/login_limiter.go`) | timestamps per key | `Allow`, the cleanup goroutine, `LoginRateLimit` | partly: `RateLimiter` |
| Statistics (`service/stats_service.go`, `store/postgres/stats_store.go`) | none of its own | `Overview` | partly: `Dashboard` |
| Consent log, e-mail (`service/{consent_service,order_email,consent_email}.go`) | `consents`; goroutines that send | forms, confirmations, news of a shipment | partly / modelled: `Mails` |
| Process (`cmd/magic/{main,setup}.go`, `store/postgres/postgres.go`) | the parts built, the pool, the closers | `Setup`, `Shutdown`, signals | modelled: `Lifecycle` |
| Uploads (R2) | none here | calls of an external service | not modelled |
| Generated documentation, helpers | none | stateless | not modelled |

How they interact. `OrderService.Create` reads the products and the settings, validates the
promotional code, takes the stock line by line through the product store, inserts the order
through the order store, then records the use of the code, saves the shipping address in the
address book, starts a goroutine that sends the confirmation and broadcasts the order to the
administrators. An administrator's `PATCH` on an order calls the product store for each line,
then the order store, then the mailer. Every change of the stock of a variant is followed by a
recomputation of the totals per size and color of its product, which the form of the
administrator writes as well. Every shared state but the hub, the limiters and the maps of the
gatekeeper is in PostgreSQL, at READ COMMITTED.

What is hard, and the properties that make it correct:

* **Stock.** The check of a checkout is made on what it read, the reservation one `UPDATE` per
  line, the `INSERT` later still. Correct means: the stock is never negative, an order exists
  only with all of its lines taken, a failed checkout leaves nothing taken, a unit is promised
  once, and the two flags in the metadata say whether the stock of the order is taken.
* **PATCH.** Every decision is made on the order as it was read; any status may follow any
  other; a request may fail half way and be tried again; two may both find that shipped is news.
* **Promotional codes.** Validation and recording are far apart. The counter must stay within
  the limit, what it counts must have its row, and the discounts granted beyond the limit must
  be bounded. Two editors must not leave a rule neither could have asked for, and the amounts of
  an order must agree to the cent.
* **Totals.** The rows of a totals table are replaced by DELETE and INSERT in a transaction of
  their own, computed from variants read outside of it.
* **Addresses.** Transactions that each decide on what they read keep one default per user.
* **Accounts.** A sign-up is two statements; a mailed token is deleted after it was used; a
  session carries claims of the past.
* **Import and seeding.** Both may stop half way, be run again and meet each other; the second
  run must complete the first and repeat nothing.
* **Pages and sections.** A page is counted and then read by an offset, an overview is read by
  nine statements side by side, while the tables move.
* **Hub.** A channel is closed by its own stream while broadcasts send on it.
* **Limiters.** The cleanup removes what requests still count on, or not.
* **Logins.** States may be chosen by the front-end and reused, callbacks loaded again, tokens
  outlive their session.
* **Process.** Two goroutines may shut it down together, in any step of the start, under the
  requests being served.

`PROJECT.json` lists the hazards one by one, at their lines, with the properties that cover them.

## 2. Modules

| Module | Models | Extends / instances |
|---|---|---|
| `OrderStock` | checkouts and PATCH requests, statement by statement | |
| `StockLedger` | abstract: what the stock promises, claims granted and given back as a whole | |
| `OrderStockLedger` | the refinement mapping from `OrderStock` to `StockLedger` | `OrderStock`, instance of `StockLedger` |
| `PromoUsage` | one promotional code and the checkouts that use it | |
| `Pricing` | the rule of a code under two editors, the shipping settings, the amounts of an order | |
| `Mails` | who is told what, from goroutines and inside PATCH requests | |
| `OrderList`, `ProductList` | a reader who goes through pages while the table moves | |
| `StockTotals` | the three stock tables of one product | |
| `AddressBook` | the addresses of one user over the partial unique index | |
| `Accounts` | accounts, mailed tokens and sessions | |
| `ProductImport` | imports of a CSV file and the administrator beside them | |
| `Categories` | the seeding of the taxonomy and the administrator beside it | |
| `Gatekeeper` | logins through an OpenID provider | |
| `Dashboard` | the overview of the administrators | |
| `SseHub` | the hub, its streams and its broadcasts | |
| `SlidingWindow` | abstract: a rate limit that forgets nothing | |
| `RateLimiter` | the limiter with its cleanup | instance of `SlidingWindow` |
| `Lifecycle` | the process from its start to its exit | |
| `MCOrderStock`, `MCPromoUsage`, `MCStockTotals` | data of small instances for TLC | the module they are named after |
| `MCSales` | what surrounds an order beside its stock, one part at a time | `MCPromoUsage`, instances of `Pricing`, `Mails`, `OrderList` |
| `MCBackOffice` | what the shop has beside the orders, one part at a time | `AddressBook`, instances of six others |
| `MCRuntime` | what lives in the memory of the process, one part at a time | `SseHub`, `Lifecycle`, instance of `RateLimiter` |
| `Filtering` | the loop of `filterRecent` | extended by `RateLimiter`, `SlidingWindow` |
| `OrderStockProofs` | theorems about `OrderStock` | `OrderStock` |
| `SalesProofs` | theorems about what surrounds an order | `MCSales`, which instances `MailsProofs` |
| `OfficeProofs` | theorems about the back office | `MCBackOffice`, which instances `AccountsProofs`, `GatekeeperProofs` |
| `RuntimeProofs` | theorems about what lives in memory | `MCRuntime` |
| `StockTotalsProofs` | theorems about the stock tables of a product | `StockTotals` |
| `MailsProofs`, `AccountsProofs`, `GatekeeperProofs` | what one step of the part keeps, for the theorems above | the module they are named after |

`MCSales`, `MCBackOffice` and `MCRuntime` check modules that share no variable. A variable
`focus`, chosen in the initial state, says which of them moves; the others stand still in one
initial state. A behaviour is thus a behaviour of one module, and one run reaches them all.

History variables record what happened and are read by no guard; each is marked "history" where
it is declared. A definition said to be "used by no action" is a plausible slip in the code beside
it: the properties are known to notice it.

### OrderStock

A checkout is named by the order it will create, an administrator is a process with at most
one PATCH under way. `job[r]` is the local state of a request: the step it is at, the line its
loop has reached (`at`), the last line it will undo (`upto`), whether a call reported an error
(`err`), whether its context is cancelled (`cut`) and, for a PATCH, the reading `prev` of the
order (`previous` in the code).

| Action | Code |
|---|---|
| `Begin`, `CheckLine` | `Create`, `buildOrderItem`, `hasVariantStock`: one read per line |
| `Reserve` | one turn of `reserveStockForItems` with `DecrementVariantStock` |
| `Release` | one turn of `releaseStockForItems` with `IncrementVariantStock`, for the undoing of a reservation and for a cancellation |
| `Persist` | `OrderStore.Create`: a transaction and the SELECT after it |
| `Patch` | the request arrives and reads the order |
| `Write` | `OrderStore.UpdateStatus`, an UPDATE by id with the metadata as a whole |
| `Disconnect`, `Crash` | the client leaves and its context ends; the process restarts |
| `DeleteProduct`, `DropVariant` | `ProductStore.Delete`; a form that leaves a variant out |

A statement may run, fail, commit and then fail in what follows it ("sync": the
recomputation of the totals after the UPDATE; "reload": the SELECT after the INSERT), or be
refused because the context has ended. `held[o][i]` is history: how many times line `i` of
order `o` was taken and not given back. It is what the flags in the metadata claim to say.

Left out: prices, shipping fee, e-mail, and a PATCH that carries no status (it writes other
columns). The promotional code of a checkout is in `PromoUsage`; a checkout refused there has
touched no stock yet.

### StockLedger and its refinement

In the ledger an order has a claim, `none`, `held` or `returned`. A claim is granted as a
whole, out of units nobody claims, and given back once. Units may get lost, never appear. In the
mapping the free units are the rows of the table plus what running requests have in hand
(`InHand`): the lines reserved for an order not yet inserted or marked, the lines a
cancellation has not put back yet. The property `LedgerSpec` says that each statement of
each request is a step of the ledger or none. A sum of quantities is the size of a set of units, so
that a step that moves a line moves a set.

### PromoUsage

Each action is one statement: `Validate` (GetByCode and IsValid), `CountUses`
(CountUserUsage), `Reload` (the second GetByCode of `applyPromoCode`), `Create`, `Record`
and `Increment` (the two halves of `MarkUsed`), and the edits of an administrator. `open`
stands for `is_active` and the two dates. `untracked`, `peak` and `changed` are history:
discounted orders whose use could not be recorded, the largest limit there was, whether the
limit was ever changed.

### Pricing

`update[e]` is an edit under way: the code as `GetByID` read it and the fields the request
carries (`delta`). `Update` writes what `PromoService.Update` puts in its map of fields: kind and
value as the pair that was judged where one of them is given, the dates and bounds one by one.
`Upsert` replaces the shipping settings. `cart` is the checkout between the reads of
`OrderService.Create`: `buildOrderItems`, `computeShippingFee`, `applyPromoCode`, the second
`GetByCode`, `buildOrder`; `Refuse` stands for every other early return.

Money: the inputs are cents. What the code holds in a float between two roundings is exact here,
in hundredths of a cent; the columns round half a cent up, each for itself (`Rounded`). Float
noise below that is left out. A value of the settings is a number, or `NULL` for a field that is
missing or of another type; the code then takes its default.

### Mails

`task` is the local state of a request that sends or starts a goroutine, `outbox` the goroutines
that have not sent yet, `sent` history: how often each message was handed to the mailer.
`afterOrderCreated` and the forms start a goroutine with a context of its own; a `Restart` loses
the outbox. `sendOrderShippedEmail` runs inside its PATCH, with the context of its client, who may
`Leave`. An order goes through pending, shipped and cancelled only: the mailer tells no other
status apart.

### OrderList and ProductList

`CountPage` and `FindPage` (`CountTotal`, `FindPage` for the products) are the two statements of a
page; between any two statements orders come and change status, products come and change. Orders
have distinct times of creation, so their order is total. Of products, `Arrangements` holds every
order of the rows that the ORDER BY allows. `steady` is history: the orders that have matched
since the reader began; `slid`: did a row leave, or a row come between the count and the rows of
one page.

### StockTotals

A totals table is replaced inside a transaction at READ COMMITTED, modelled as two steps:
`Delete` fixes the rows the DELETE sees, `Insert` stands for the rest up to the COMMIT or the
collision with the UNIQUE index. A transaction that commits takes the rows it replaced away
from those that still see them; what it inserted they do not see. This is how PostgreSQL runs
a DELETE that waits for another one; its statements and the order of its tables are
`UpsertSizes`, `UpsertColors` and `UpsertVariants`. The "sync" fault of `OrderStock` is an
assumption there; the run `StockTotalsCollide` shows that it happens with nothing failing.
A total is the number of units of the variants it adds up (`Units`), which is their sum and, unlike
a fold, can be reasoned about for any set of variants. The form of the administrator (`Save`) carries
a list for each table, written as it was sent: it may add, rename, drop and empty what it likes, and
its sizes and colors need not add up its variants. `job[r].lists` is what a request is about to
write. Any statement of a request in `Faulty` may fail (`Fail`): what its transaction did is rolled
back, what it committed before stays. `written` is history, every content a table had or was meant to
have; `met` too, the requests beside which another one ran.

### AddressBook

`book` is the committed table of one user, `request[r].writes` what the transaction of `r` has
written and not committed. A row written by another transaction is locked (`Locked`), an entry of
the partial unique index that another is about to add or remove makes an insert into the index wait
(`IndexBusy`), and a second default is refused (`IndexViolated`). `clearDefaultAddress` is two
steps: `Snap` finds the default in the committed table, `Clear` waits for its row and writes it if
it is a default still. `UpdateService` is the read before the transaction, whose flag a request
without one writes back. A checkout's `SaveFromShipping` arrives as an update of a matching
address or a creation. Which other columns an address has makes no difference and they are left out.

### Accounts

`call[r]` is a request between its statements, `users` and `tokens` the tables, `sessions` the
signed claims in use. Every action is one statement of the store with the decision that follows
it. A token or a session may be over at any moment: `ReadToken` may find a token expired,
`SessionOver` ends a session. `CreateToken` signs what a login through a provider signs,
`Login` and `GenerateToken` what a login by password and a renewal do. Account 0 is the first
administrator, made by the command. `ResetPassword` and `ActivateAccount` write the account;
`Reload` is the SELECT that `UpdateUserFields` makes after its UPDATE, and when it fails, or the
account is gone, the request returns with its token used and not deleted. `shaky` is history: tokens
that two requests held together, or that were used and then, for that reason or because the deletion
failed, not deleted. Left out: the check of a password against its hash (an account with one may
log in), the form of a JWT, the profile fields, user names (a taken one is a failing statement).

### ProductImport

`Parse` and `UniqueSlug` translate `parseProductsCSV` and `uniqueSlug` over sequences of words: a name, a
code or a slug is a sequence of words, a sign that `Slugify` drops is the word `"*"`. An import is
`Look` and `Create` per article; the slugs it has used (`usedSlugs` in the code, `used` in the model)
grow in the order of the file whatever becomes of the articles, so two runs of one file give each
article the same slug. Beside it are
another import, a kill, and the administrator (`CreateProduct`, `Rename`, `Delete`). A product he makes
or edits has a name and a code of his choice or no code; the form that renames a product writes its
code in the same UPDATE, an empty one as NULL, which the unique index on codes does not tell from
another NULL. `strange`, `renamed`, `recoded` and `removed` are history of what he did.

### Categories

`SeedGroups`, `SeedChildren` and `SeedScope` are the three statements of
`SeedDefaultCategories`; `SeedFails` ends a seeding, the server starts all the same. The
administrator's `Create`, `Update` and `Delete` come in between. `calm` is history: starts
during which no administrator changed anything.

### Gatekeeper

One window of a browser makes one login and may load its callback again. `states` and `sessions`
are the two maps, `window[w]` the local state of the window and of the request it has under way,
`fresh` the codes the provider has not taken back. `CallbackHandler` to `Set` are the calls of
`CallbackHandler` in its order; `Reply` is the response on its way to the browser, or lost. `Set`
decides on the Max-Age, whole seconds of a time to live that is at most `SessionTTL`; the browser
counts them from the response, follows Expires where there are none, and takes the cookie away where
they are negative (`KeptUntil`). `Ask` and `Get` are a request with the cookie: what it was sent with
and how old the cookie was. A session's life under a second, which would leave Max-Age out and the
cookie uncapped, is not modelled. The map of the sessions
has no lock, so two calls in it with a write among them may end the process (`Crash`). The package
is not wired to the server (`setupGatekeeper` is not among the steps of `setup.go`); the module says
what its routes would do. The methods of the identity store that nothing calls are left out.

### Dashboard

Each section is read by `Fetch` in one step; the KPIs follow one another in their goroutine,
the other sections come in any order. Time is in half days, so that the midnight of the server,
`Zone` ahead, need not be that of the database.

### SseHub

The read-write lock of the hub is `ReadLocked` (a broadcast is under way) and `WriteAsked` (a
stream waits for the lock; Go keeps new readers out meanwhile). A broadcast serves the clients in
any order, as the range over a Go map does. `Expire` breaks a connection: the 30 seconds the server
gives a response to be written are over (`WriteTimeout`), or the network is gone. The stream looks at
none of its writes, so `Forward` takes the next message out of the channel for a broken connection
like for any other, and it is lost. `got`, `lost` and `due` are history: what was sent over each
connection, what was taken out for it and lost, who was subscribed when each broadcast began.

### RateLimiter and SlidingWindow

The mutex makes `Allow` and a tick of the cleanup one step each. A timestamp is its age, kept up
to `Window`: an older one behaves the same, so time is unbounded in a finite state space. The
refinement `WindowKept` compares every answer with that of a limiter that never cleans up.

### Lifecycle

`stage` is the step of the start main is about to make, one action per `Setup...` method, each of
which may fail and call `Shutdown`. `halt[t]` is a call of `Shutdown` by main or by the goroutine that
listens: the closers it has still to go through, and whether it carries an error. They may run
together. `Signal` before main listens for it kills the process, and so does a second one after main
has closed the channel it listens on (a panic). A request is served, and answered
with or without a database, until `Exit`.

## 3. Runs

| Run | Instance | Shows |
|---|---|---|
| `OrderStockRaces` | a checkout of two lines, a legacy order with two lines in the other order, two administrators, two PATCH requests in any interleaving, one fault of any kind, one edit | the stock stays above zero (`TypeOK`), `RollbackComplete`, `ReleasedImpliesReserved`, `PlacedFullyReserved`, and every request ends (`RequestsEnd`) |
| `OrderStockSerial` | two checkouts that compete for a variant, a legacy order, three PATCH requests, one at a time per order, one fault in a checkout | `FlagsTellStock` and the refinement `LedgerSpec` |
| `OrderStockRetry` | as above, one product, no faults, one edit | violation: a cancellation that failed on one line and is tried again gives the other lines back twice |
| `OrderStockReopen` | as above, no faults | violation: an order cancelled and then shipped leaves without its stock |
| `Sales` | four checkouts of two users and a guest with one code, two at a time; two editors of its rule with two updates; an order, its mails and two PATCH requests; three orders in the list; one fault, one edit | `CountWithinPeak`, `CountIsAudited`, `OverrunBounded`; `RuleInOrder`, `BooksBalance`; `ToldOnce`; `SteadySeen` |
| `PromoRace` | the checkouts, undisturbed | violation: two checkouts share the last use |
| `StockTotals` | a decrement, an increment and a form out of three that change, rename, add and empty lists; three sizes and two colors; a statement of each may fail | `TypeOK`: the stock stays above zero; `NeverAMixture`, `AloneRepairs`, `CallsReturn` |
| `StockTotalsStale` | two decrements of one size | violation: the older totals are written last |
| `StockTotalsCollide` | the same | violation: a decrement that moved the stock returns an error |
| `Runtime` | two connections, which may break, two broadcasts, channels of one; three keys, two requests per three units of time; a process with two requests | `NoSendOnClosed`, `LossIsExplained`, `NeverBlocked`; `WindowKept`, `Forgotten`; `CleanExit`, `Stops` |
| `BackOffice` | two requests, three addresses; two accounts, two tokens, one session; four files, two imports; five categories, two starts; three products; two orders; two windows | `DefaultKept`; `TokenSpentOnce`, `ClaimsCovered`, `HalfMadeIsExplained`, `LinkKept`; `CleanImportComplete`, `NoTwin`; `TaxonomyThere`; `WalkSeesAll`; `SectionsAgree`; `OwnLogin`, `WithinTTL` |
| `SubjectIsAccount` | the accounts, nothing failing | violation: a session opened through a provider carries a user name for its id |

Every run but the violations also checks the type invariants of its modules.

**Bounds.** Two lines per order are the least at which a loop can fail in the middle, and two
carts in opposite orders the least at which two loops cross. Two administrators are what an
overwritten metadata needs; a third PATCH is needed for reserve, cancel, and once more. One fault
per behaviour: each finding and each slip that a property is known to notice needs one at most, and
a cancelled context makes every later statement fail. A limit of 1 or 2 with two checkouts at a time
is where the counter meets its limit; `MaxParallel` appears in `OverrunBounded` itself. Two updates
of a rule are what crosses, half a cent and a cap above the goods what rounds. Two
messages for channels of one is the first loss at a full channel. A form that renames
a size to one that no other content has is where two contents share no key; a third size makes it
possible. A life of sessions of one second, tokens that live three and a clock that goes to two are
where a cookie can outlive its cap. Three addresses leave a choice when the default goes. Two
requests on the accounts are a sign-up and the login that meets it, or two holders of one token.
The files of `MCBackOffice` have a name twice, a code twice, an article of no name, of no code and
of neither, a cell twice and a value the table refuses. Two windows are what shares a state.
For what is proved (section 4) the bounds do not matter.

**Symmetry** is used for the requests and the windows of `BackOffice` and the PATCH requests of `Sales`, which
no definition tells apart. The properties of these runs are invariants and one action property
(`LinkKept`), none is a liveness property.

**Named restrictions.** `OrderStockSerial` has no concurrent PATCH of one order
(`SerialPatches`), no "reload" fault and no edit: in each of those cases the flags and the stock do
part. Two cancellations that read the order at the same time both give its stock back; a
checkout whose SELECT fails after the COMMIT gives back the stock of an order that exists;
an edit makes a cancellation fail half way. `NeverAMixture` excuses a table two of whose contents
share no key, as after a form that renames every size: the unique index, which is all that keeps two
writers apart, does not see them collide, and they do mix. `AloneRepairs` excuses a request one of whose
own statements failed: its stock is moved and the totals stay as they were. `LossIsExplained` allows the
two losses there are, at a full channel and at a broken connection.
`OverrunBounded` stops once the limit is changed, because the counter has forgotten the
increments it refused. `RuleInOrder` excuses a window that was judged on dates another update was
changing (`crossed`). `DefaultKept` excuses a book in which an update was asked to unset the default, or
in which an address was deleted, or the default written back by an update, beside another request
(`lapsed`). `TokenSpentOnce` excuses a token that two requests held together, or that stayed after its
use because the reload or the deletion behind it failed (`shaky`). `NoTwin` excuses an article that was
renamed in the shop and has no code to be told by, the file giving none or a form having changed it.
`WithinTTL` counts from the response that brought the cookie, up to the second the request is
sent. `SteadySeen`
and `WalkSeesAll` excuse a list that slid or stirred under a page, and `WalkSeesAll` equal prices.
`SectionsAgree` is about an overview during which no order changed, on a server in UTC: with
`Zone = 1` it is false, for an order of the hours in which the two days differ is on no day.

**Fairness.** Weak fairness only, and only of what the runtime gives. `OrderStock` and
`StockTotals`: a handler that is running goes on, its statements return with a result or an error
(`WF(Step(r))`); nobody has to begin a checkout, send a form or PATCH anything. `SseHub`: the
goroutine of a broadcast and those that wait for the write lock run; nothing is assumed of the
connections. `RateLimiter`: time passes and the cleanup goroutine runs. `Lifecycle`: main makes its
next step, answers a signal it has been sent, and a call of `Shutdown` goes on; nobody has to send a
signal, and a request may never be answered. The other modules have no liveness property.

**Deadlock** is not checked in any run: the systems may stop, when every request is over, every bound
used up, every connection gone or the process has exited. Who waits for whom is in
`RequestsEnd`, `CallsReturn`, `NeverBlocked` and `Stops`.

## 4. Theorems

Every theorem is for all values of the constants that satisfy the named assumptions: any catalogue,
carts, sets of orders, of administrators, of connections, of requests, and any bounds. The proofs
are in the eight modules `*Proofs`. `SalesProofs`, `RuntimeProofs` and `OfficeProofs` speak of the
composed specifications the runs check (`MCSales`, `MCRuntime`, `MCBackOffice`), `OrderStockProofs`
and `StockTotalsProofs` of a module by itself. The facts about one step of the messages, of the
accounts and of the gatekeeper, which `MCSales` and `MCBackOffice` take by `INSTANCE`, are proved
beside these modules (`MailsProofs`, `AccountsProofs`, `GatekeeperProofs`) and cited from there.

| Theorem | States | Argument |
|---|---|---|
| `TypeCorrect` | `[](TypeOK /\ JobOK)` of `OrderStock` | `TypeOK` is not inductive: a loop must point at a line of its cart. `JobOK` says so, per step of the program counter |
| `RollbackCorrect`, `PlacedCorrect` | `[]RollbackComplete`, `PlacedFullyReserved` | `CheckoutInv` reads off the program counter which lines a checkout has in hand (`HoldsLine`), and says that nobody else moves the lines of an order that is not in the table |
| `FlagsCorrect` | `Quiet /\ Spec => []FlagsTellStock` | `Quiet`: PATCH requests of one order one at a time and undisturbed, no "reload", no edit. `FlagsInv` adds that what a PATCH read is still so, and where its loop has brought each line |
| `LedgerCorrect` | `Quiet /\ Spec => LedgerSpec`: `OrderStock` implements `StockLedger` | on `FlagsInv`, which knows what the flags of an order say of its stock, and `Blank`: an order not yet in the table is not marked. What the requests have in hand is a finite set of units (`AllFinite`), so a turn of a loop adds or takes away a disjoint set of them (`LineUnits`, `OutStep`). The INSERT of a checkout and the last UPDATE of a shipping PATCH map to `Grant`, the reading of a cancelling PATCH to `GiveBack`, the rest to a loss of nothing or of what is dropped |
| `ReleasedCorrect` | `[]ReleasedImpliesReserved` | with no condition on the interleaving: what a request has read satisfies it too (`PairedReadings`) |
| `CountCorrect`, `AuditCorrect`, `UsageCorrect` | `[]CountWithinPeak`, `[]CountIsAudited`, `[]AuditedIsDiscounted` | `PromoInv` counts only the rows whose checkout is not about to increment |
| `OverrunCorrect` | `[]OverrunBounded` | `OverrunInv`: as long as the counter has room, those entitled to the code who are no longer running have been counted; so whoever is let in finds at most the limit settled, and at most `MaxParallel - 1` beside him |
| `RulesCorrect`, `AmountsCorrect` | `[]RuleInOrder`, `[]BooksBalance` | `PriceInv`: a stored code is one that could have been asked for (`Sound`), an update under way carries what an administrator may send, and the discount of a cart lies between nothing and its goods (`Bounded`). `DiscountBounds` and `CentsAgree` are about every subtotal, value and cap: a discount is never negative nor more than the goods, and amounts rounded each for itself differ from their sum by a cent at most |
| `MailsCorrect` | `[]ToldOnce` | `MailInv` follows each message from the request that decides on it to the one call that hands it over: a confirmation (`Confirmed`), the answer to a form (`Answered`), and for the shipping of an order that the messages sent and the requests about to send one are no more than the times it was shipped or crossed (`Shipped`) |
| `PagesCorrect` | `[]SteadySeen` | `PagesInv`: an order that has matched all along and was not shown has at least as many newer ones before it as the offset has passed (`Behind`), unless the list slid |
| `SalesTypesCorrect` | `[]SalesTypeOK` | from the four invariants above |
| `AddressBookTypeCorrect`, `DefaultKeptCorrect` | `[]TypeOK`, `[]DefaultKept` of `AddressBook` | `DefaultKept` speaks of what is committed, `BookInv` adds what the transactions hold: each row and each default still to come has one holder (`Locking`), what a transaction will commit has one default at most (`OneDefault`), what it read stands while nothing lapsed (`Standing`), and nobody runs beside a request that is alone (`Undisturbed`). A COMMIT is then shown to keep a default by the operation it ends, and to leave the others what they count on |
| `TokensSpent`, `ClaimsHold`, `HalvesExplained`, `LinksKept` | `[]TokenSpentOnce`, `[]ClaimsCovered`, `[]HalfMadeIsExplained`, `LinkKept` | `AccountsInv`: what a request knows at each step (`Steady`), one account per e-mail (`Apart`), what sessions and those about to open one claim (`Claimed`), whose row a sign-up and a link are about to write (`Linking`), who holds a token and how often it was used, up to the reload and the deletion (`Spending`). `LinkKept`, an action property, follows from one step under it |
| `LoginsOwn`, `SessionsEnd` | `[]OwnLogin`, `[]WithinTTL` | `GatekeeperInv`: what a window knows where it stands (`Travelled`), that its login has one entry in the state store at most and none once it was loaded (`Redeemed`), that each session is of the person its token names (`Stamped`), that a cookie is kept for `SessionTTL` from its response at most, and that a response under way can bring no other (`InTime`) |
| `TaxonomyFound` | `[]TaxonomyThere` | `TaxonomyInv`: which categories each statement of a start has left in the table (`Seeded`) |
| `ImportsComplete`, `ArticlesOnce` | `[]CleanImportComplete`, `[]NoTwin` | `ImportInv`: which slugs a run has given, and to whom (`UsedOK`), what it can show for the articles it went through (`Covered`), that two runs agree on the slug of an article (`Agree`), what the rows of the shop are (`ShopOK`), which have the code of their article as long as it is not `recoded` |
| `PagesShowAll` | `[]WalkSeesAll` | `ListInv`: while the shelf stays, the offset `n` has shown the products of the first `n` ranks (`Shown`); that a page, the offset and the limit of a sort, holds the products of the next ranks is a counting argument over the set of those sorted before one (`Rank`) |
| `SectionsCorrect` | `Zone = 0 /\ OfficeSpec => []SectionsAgree`: in UTC | `StatsInv`: while no order changed, each section read so far is what its statement would read now, whatever the turn (`SameReads`). The rest is about one table: a sum by groups is the sum of the whole, for there is a bijection between their units (`SumOfGroups`), and every day of a sale has its place (`SaleShown`) |
| `OfficeTypesCorrect` | `[]OfficeTypeOK` | from the invariants above and `StatsTyped`, for the part in focus |
| `TotalsTypeCorrect` | `[]TypeOK` of `StockTotals` | `Typed`: the rows of each table, and that a request waits on rows of the table it writes only (`Waits`), which is inductive because a COMMIT takes the rows it replaced away from everyone who saw them |
| `ContentsCorrect` | `[]NeverAMixture` | `OneContent`, for one table at a time and as long as any two contents written to it share a key: the table holds one of them, and what a DELETE sees is always the whole table or nothing of it any more. So a writer whose DELETE saw nothing collides with what is there, and whoever commits leaves what he wrote |
| `RepairsCorrect` | `AloneRepairs`, an action property | `Repairing`: a checkout beside which no other request ran carries the totals of the variants as they are, its DELETE sees its table as it is, and each table behind it has its totals |
| `NoPanic`, `MissesExplained` | `[]NoSendOnClosed`, `[]LossIsExplained` | `HubInv`: a broadcast under way has only subscribed clients left to serve, each client it has served was given its message or a full channel, and only a broken connection has lost any (`LostWhenBroken`) |
| `LimiterKeepsPromise` | `RuntimeSpec => WindowKept`: `RateLimiter` implements `SlidingWindow` | the mapping takes for what was granted to a key the timestamps inside the window. `Allow` maps to a request, a tick to a tick, `Cleanup` to a stutter. It rests on what `filterRecent` returns for a sequence of any length (`Looped`, `FilterMore`, `FilterAll`): its loop is a recursive function, and its turns are counted by an induction on a set of lengths, from a least one missing (`EveryLength`) |
| `RuntimeTypesCorrect` | `[]RuntimeTypeOK` | `RuntimeInv`; that the limiter keeps no more than `Max` timestamps of a key is part of it |
| `RuntimeIsSafe` | `RuntimeSpec => []` of `NoSendOnClosed`, `LossIsExplained` and `CleanExit` | the invariants of the two modules, which a step of the other leaves alone |
| `ProcessTypeCorrect`, `CleanExitCorrect` | `[]ProcessTypeOK`, `[]CleanExit` | `ProcessInv`: which parts and which pool each stage has (`Staged`), that a call of `Shutdown` has the pool among the closers it has left, or has closed it (`Halting`), and what an exit code tells (`Ended`) |

Assumed beyond the types of the constants: of the CSV file, that the parser returns articles and
that `Slugify` and the decimal of a number give words, different numbers different decimals
(`ImportAssumption`: the parser folds over lines, and what a fold returns for every file is not
provable); the other assumptions are ranges and finiteness. Each is evaluated by TLC on the
constants of a passing run.

Every invariant, action property and refinement the passing runs check is stated by one of these
theorems, with what its row says it needs: `Quiet` for the flags and the ledger, UTC for the sections,
as in the runs that check them. Only model-checked is liveness (`RequestsEnd`, `CallsReturn`, `NeverBlocked`, `Forgotten`, `Stops`), which
is out of reach of the prover, as is whatever needs ENABLED.

## 5. Findings, divergences and limits

Six runs show a disagreement with a comment or a document of the repository (section 3). More,
noticed while reading and not worth a run:

* the comments of `cmd/magic/main.go:118` and `:121` give 20 and 10 requests per minute, the calls
  below them 40 and 20;
* the comments on deletion speak of a soft delete (`handler/category.go:156`,
  `handler/product.go:227`, `service/product_service.go:290`, `store/postgres/category_store.go:198`,
  `store/postgres/product_store.go:338`), but the `DeletedAt` of `interfaces` is a plain
  `*time.Time`, so gorm deletes the row, which is what the models do;
* `service/promo_service.go:98-99` says that "cross-field validation runs against the final
  state": it runs against the state read before, so two updates that each move one date leave a code
  that expires before it starts (`RuleInOrder` holds of kind and value, and of the window as
  long as no two updates cross);
* `handler/notification.go:52` says that `Stream` "forwards every hub message to the client": what
  its writes return is thrown away, and the server ends the writing of every response after 30
  seconds (`cmd/magic/main.go:260`), so the order that comes between that and the next keep-alive is
  taken out of the channel and reaches nobody (`lost` in `SseHub`, which `LossIsExplained` allows);
* a filter by category together with a search names columns that two joined tables have: the
  statement is refused (`Ambiguous` in `ProductList`).

Known and covered by no property, because the code guards against none of it: the limit of a code
per user; the stock a form was opened with; a category made its own ancestor by an update; the
sub-categories of a deleted group, which lose their parent and do not get it back from the next
seeding; a negative default shipping cost, which is accepted and makes the table refuse every order;
a code deleted and created again between the two reads of one checkout; order numbers, whose six
random digits may collide; the form of a product, saved in several transactions.

Not modelled: uploads (signed URLs and calls of an external service, nothing is kept), the
generated documentation, parsing and signing of tokens, rendering of e-mails, the values of the
configuration, the composition of the two limiters of a login, and code that nothing calls (some
methods of the identity store, `JWTVerifier`, the creation methods of `UserService`).

## 6. What is left

* Proofs: what the sections of an overview owe one another outside UTC.
* Composition: one `Create` from its validation to the recording of the use over `OrderStock` and
  `PromoUsage` together, so that a rollback of the stock and the use of the code are seen in one
  behaviour. A checkout refused by its code has touched no stock, and one that fails on its stock
  records no use, so each module has every behaviour the other leaves it.
* The two gates of a login, by address and by e-mail, as two `RateLimiter`s one after the other: a
  refusal by the second has used up a request of the first.
* Larger instances of `BackOffice`: three requests on one address book, three windows.
