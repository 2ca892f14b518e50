# Stellar client: models, checks and proofs

The Stellar client (`src/app`) is a single-page AngularJS program: a wallet for
the Stellar network, with payments, a transaction history, trading, gateways and
contacts. This directory holds TLA+ models of its parts, TLC configurations that
check them on small instances, and TLAPS proofs of theorems about them.

The browser runs one handler at a time, so there are no data races. What makes
the program hard is everything that happens *between* handlers: a lookup that is
answered after the user has typed another recipient, a transaction event that
comes while a page of history is asked for, a page reload between the change of
the wallet and its save, two tabs that share one `localStorage`, the third of
five requests that fails. In all models an action is therefore one handler
together with the digest (the `$watch` callbacks) it causes, and requests in
flight are part of the state.

## 1. The system

| Part | Code (under `src/app/scripts/`) | State | Operations | Interacts with | Hard behaviour |
|---|---|---|---|---|---|
| Payment, destination lookup, send form | `services/payment-service.js`, `destination-service.js`, `cancelable-promise-service.js`, `validated-promise-service.js`, `controllers/send-form-controller.js` | destination, amount, lookup promise, path subscription; the form's fields and what it shows | set recipient, tag, amount; reset; lookup, name and path answers | federation, network, send pane | cancelled lookups and closed subscriptions still answer; old destination stays in force during a lookup; a destination gives its issuer to an amount that others hold |
| Send pane | `controllers/send-controller.js` | pane state, path, result, transactions in flight | propose, cancel, confirm, reset; connection and transaction events | Payment, StellarNetwork | results after the pane has gone on; offline confirms |
| Histories | `services/transaction-history-service.js`, `payment-history-service.js`, `trade-history-service.js` and their controllers | one array, a flag that all are loaded; per view a page | getPage, next and previous page, live events | network | an array that grows from both ends while it is the offset of a request; refused requests |
| Trading page | `utilities/order-book.js`, `utilities/singletonPromise.js`, `services/trading-service.js`, `transaction-curator-service.js`, `controllers/trading-controller.js`, `trading-form-controller.js`, `current-offers-controller.js` | order books by pair, the current one, own offers, the form | choose a pair, subscribe, ingest, list offers, create an offer | network | dropped calls, refused subscriptions, snapshots against streams |
| Offers, pairs, price levels | `services/friendly-offers-service.js`, `currency-pair-service.js`, `utilities/price-level-list.js`, `controllers/favorite-trades-controller.js` | favorite pairs and the direction they are shown in | save, use, delete a pair; pure functions on offers | trading, wallet | two records of one use; the form's pair and the order book's; amounts at boundaries |
| What metadata means | `services/trade-history-service.js`, `transaction-curator-service.js`, `utilities/jsonrewriter.js` | none | offers put, changed and gone; trades | order books, histories | signs, zeros, which fields a node has |
| Gateways | `services/gateways-service.js`, `controllers/add-gateway-controller.js`, `gateway-list-item-controller.js` | wallet.gateways, jobs under way | add, remove, force removal, resume after load | wallet, network, app controller | overlapping batches, partial failure, reload at any moment |
| Contacts and federation | `services/contacts.js`, `federation.js`, `reverseFederation.js`, `stellartxt.js` | two caches, their saved copies, remembered promises | fetch by address, by name, add | send form, inflation destination, session | stale records, two tabs, saves that fail half way |
| Session, app start | `services/session.js`, `app.js`, `controllers/app-controller.js`, the login controllers | logged in, idle timer, cookies | login, act, sync, logout, navigation | wallet, network, all | timers, late answers after logout, several tabs |
| StellarNetwork | `services/stellar-network-service.js`, `directives/disconnected-alert-directive.js` | connected, waitingForConnection, the alert | ensureConnection, request, sendTransaction, forceReconnect | everything | reports that lag behind, reconnects |
| Wallet | `utilities/wallet.js` | encrypted blobs, local copies | open, migrate, sync, save, load, recover | servers, session | a save of several steps, migration that fails |
| Registration | `controllers/registration-controller.js`, `password-controller.js` | the form, the attempt, two servers' accounts | check a name, register, create the wallet, release the name | both servers, session | one step of several fails; a form edited meanwhile |
| Recovery, passwords, upgrade, settings | `controllers/login-v1-controller.js`, `recovery-v2-controller.js`, `change-password-v2-controller.js`, `settings-recovery-controller.js` and others | what both servers hold of a wallet | several server calls in a row | both servers | one step of several fails, or its answer is lost |
| Balances | `services/balances-service.js` | cached balances | fetch, ensure | network | answers out of order |
| Rewards, invites | `controllers/reward-pane.js` and others | reward status | claim, update | API server | asynchronous claims |
| Views, filters, libraries | the rest | little or none | | | |

What makes each correct, in a sentence: a payment goes where the recipient in the
form says, for the amount whose path was shown; a history has every transaction
once, and the trades shown are the exchanges there were; a watched order book, and
the price levels made of it, are the ledger's; an added gateway is trusted and a
pending one ends; a contact answered from the cache is recent (it is not always: see
section 6); an idle user is logged out and nobody
else, and a session that is not to be kept leaves nothing behind; who waits for
the connection gets it, and the account shown is the ledger's; who has registered
has name and wallet; a confirmed recovery code opens the wallet. `PROJECT.json`
lists the parts with what is and is not modelled, and the hazards of the code,
each at its line.

At this commit the client is about to be retired: all of `states/dashboard.html` but
the upgrade pane is commented out, and so is the `register` state in `app.js` (96-100),
so that no page includes the send pane, the payment history, the gateways or the
registration form. Their services and controllers are there whole, and are modelled
with the templates they were written for (`templates/send.html`,
`transaction-history.html`, `manage-currencies.html`, `states/register.html`). The
trading page, the trades, the settings, logins and recovery are states of the app.

## 2. Modules

| Module | Models | Correspondence |
|---|---|---|
| `LatestAnswer` | what a cancelable lookup promises its caller | abstract: a question, whether it is open, the answer seen |
| `Payment` | the Payment service with its lookup and path subscription, and the send form | one action per form watch (`EditRecipient`, `EditTag`, `EditAmount`, `Reset`) and per answer (`LookupFound`, `LookupFailed`, `CanceledAnswer`, `NameAnswer`, `PathUpdate`, `ClosedUpdate`); `issuer` is that of the one Amount object service, form and pane share, which `updatePaths` sets |
| `SendPane` | SendController, EXTENDS `Payment` | `pane` is `send.state`; the form's edits happen only while it shows; `tx` is what was signed, with the path it goes along |
| `TransactionHistory` | TransactionHistory, its two filtered readers and their views | `history`, `allLoaded` are the service's variables; `wire` carries events, answers and refusals in the server's order; a getPage call carries the page it was made for |
| `Trading` | OrderBook objects, TradingCtrl's `setCurrentOrderBook`, CurrentOffersCtrl | requests `up`, messages `down`, both FIFO, and any request may be refused; an offer is a stage (unborn, whole, partial, gone) |
| `TradingForm` | TradingFormCtrl, EXTENDS `Trading` | the form's states and the offer's result |
| `Lists` | lodash's `filter`, external: as a recursive function, for `TransactionHistory` and `CurrencyPairs` | `Keep(s, K)` |
| `CurrencyPairs` | the wallet's `tradingPairs` and FavoriteTradesCtrl | `favorites` and `priorities` are the wallet's; `chosen` is the pair the form names, `current` that of the order book, which does not follow while it is `subscribing`; one action per thing the user does with a pair |
| `Metadata` | pure: `toFriendlyOffer`, PriceLevelList, OrderBook's ingestion, the trade filter | one operator per function; a node is what the code reads of it, and a transaction has a set of them: nothing depends on their order |
| `Market` | a ledger of two accounts, and order book and trades of one of them; EXTENDS `CurrencyPairs`, `Metadata` | `book` is `currentOrderBook.currentOffers`, `last` the last transaction with what the trade page makes of it; the ledger is external |
| `Gateways` | the Gateways service, its wallet saves, and handleAccountLoad's resumption | a job is one addGateway or removeGateway promise; `txq` the TrustSet transactions submitted |
| `Contacts` | contacts, rpFederation, rpReverseFederation, rpStellarTxt, several tabs | `byAddress`, `byEmail` per page, `disk` for localStorage, `memo` for remembered promises |
| `Session` | Session, the `$stateChangeStart` handler of app.js, Wallet's local copies, several tabs | a variable per place of storage (`cookie`, `sealedKey`, `sealedWallet`, `tabWallet`) and per piece of a tab's state; operators with the source's names |
| `Connection` | StellarNetwork's events and promise, the alert, AppCtrl's account loading | `link` is stellar-lib's, `reports` what the `$timeout`s have yet to pass on, `entries` the account entries on their way |
| `Registration` | RegistrationCtrl, PasswordCtrl and both servers | `step` is what `attemptRegistration`'s chain of promises waits for; a server handles a request in one action, its answer is another |
| `Account` | LoginV1Ctrl's migration, SettingsRecoveryCtrl, RecoveryV2Ctrl, ChangePasswordV2Ctrl and both servers | `at` is the page or what its login waits for, `typed` is `$scope.code`, `confirm` the step each `confirmResetRecovery` under way is at, `answers` the late answers that write `serverRecoveryCode` |
| `MC*` | instances for TLC | model values and definitions for the constants |
| `PaymentProofs`, `ContactsProofs`, `SessionProofs`, `AccountProofs`, `RegistrationProofs`, `ConnectionProofs`, `LedgerProofs`, `ListsProofs` | theorems with TLAPS proofs | see section 5; `PaymentProofs` covers `SendPane` too, `LedgerProofs` covers `Gateways`, `Trading` and `TradingForm`, `ListsProofs` covers `TransactionHistory`, and `CurrencyPairs` and `Metadata` as `Market` uses them |

`SendPane` composes with `Payment`, `TradingForm` with `Trading`, and `Market` with
`CurrencyPairs`, by EXTENDS (the operators of a composed specification carry its
name, `FormSpec`, `MarketSpec`, so that proofs can take in several modules): the
controllers read and write the services' state
directly through `$scope` and events, in the same handler. The servers, the ledger
and stellar-lib are external: they are modelled from how the code uses them,
nondeterministically: a request may fail, be refused or be answered late, where the
abstractions below do not say otherwise.

Some definitions exist to be compared: operators whose comment says "mutated" or
"slip" are plausible errors in the definition that follows them (a guard dropped,
a reset forgotten). They are in no specification; replacing the definition by
such an operator makes a named property fail, which shows that the property
depends on that code.

What is abstracted:
- **Payment.** One path per destination and amount; an amount is a model value and
  the classes that matter are constants (`Native`, `Overspends`, `Underfunds`).
  Account requests that fail count as an unfunded account, as in the code. The
  failing path subscription (`payment:paths-error`, which the form does not
  listen to) is left out. A subscription that is closed delivers at most one more
  update. An amount in STR has no issuer that matters.
- **SendPane.** Engine results are one of status, error and stellarerror.
- **TransactionHistory.** A transaction is its rank; a filter is a set of ranks. The
  request that starts the service (`init`) is granted.
- **Trading.** An offer's amounts are whole or part of it; the book is a set. A
  refused subscription and a refused unsubscription leave the server's subscriptions
  as they were, a refused `account_offers` the list.
  Both ledger transactions and the server's answers come in the order of one
  connection; reconnects are not modelled.
- **Market.** The client hears of a transaction at once, and a subscription, however
  long it takes, ends with a snapshot of that moment (what may come in between, and
  refusals, are `Trading`'s); at most one resting offer is met by a
  new one; one own order is in flight; the other account's payments go to itself by
  way of one of the account's offers. A price is a fraction in
  lowest terms where the code has the string of a decimal: two are equal when the
  ratios are. `lastPrice` is left out. Currencies of two gateways with one code are
  compared by code where the code does so. `processTxn`'s list of effects is not
  modelled: it is made for payments alone (`payment-history-service.js` 29-49) and no
  view reads it.
- **Gateways.** A gateway is its currencies; single currencies removed elsewhere
  are left out. TrustSet transactions take effect in the order submitted (one
  account's sequence numbers).
- **Contacts.** Names of one federation domain; one forward request in flight
  per name; servers tell what they know when the answer arrives; the three places
  of stellar.txt are one that has it or has not; ill-formed answers (a null
  record, which throws in the handler) are left out.
- **Session.** Encryption is a seal: the random key of a save is its number, and
  a thing opens under the seal it was closed with. A save stops after any of its
  four steps (storage errors are swallowed). Logging out reloads the page, as the
  option `LOGOUT_WITH_REFRESH` has it.
- **Connection.** An account's entry is its version, its balance in fees and
  whether the inflation destination is set. stellar-lib's link is down, waiting to
  try again, trying or up. Transactions it queues while offline are left out.
- **Registration.** The number of an attempt stands for its keys and its update
  token. The captcha is always filled in; the server may refuse it.
- **Account.** The number of a password stands for its master key, the number of a
  recovery code for both its parts. A request is carried out and answered, carried
  out with the answer lost, or not carried out; it is carried out when it is sent,
  or not at all, or, for the steps of a confirmation, at any time until their answer.
  Answers that write the settings' state come at any later time. The right password
  is entered; of codes, those that were sent. Leaving a page ends what it waits for,
  done or not.

## 3. Runs

The constants are the smallest with which the named cases happen; each bound is a
constant of the module with a comment.

| Run | Shows | Bounds and why they are enough |
|---|---|---|
| `payment` | the destination and the paths are those of the present question; form and service agree on the payee; `setDestination` implements `LatestAnswer` | three accounts (one by name and underfunded for one amount, one that requires a tag), two tags (one ill-formed), three amounts (STR, too much STR, a credit); one late answer of each kind at a time: a late answer acts alone, its effect does not depend on the others |
| `send_pane` | what is signed has the amount its path was found for, in all pane states, on- and offline; and its account and issuer, unless a lookup was open when the path was picked | two accounts (a lookup replaced by the other's), two amounts (STR, and a credit, which has an issuer), two transactions |
| `history` | complete and in order while calls and events do not overlap; the view is current unless its last request was refused; every call settles, also when they overlap | three transactions, one per page, so that a page, its successor and the end differ; three calls of the user's, two at once, any of them refused; two views, payments and trades |
| `trading` | watched books follow the ledger, one book is watched unless an unsubscription was refused, own offers are listed unless `account_offers` was refused; the result shown is that of the last offer submitted | two pairs, three offers (two own, so that one can cross the other), two changes of pair (away and back), two visits, one transaction under way, any request refused; two offers submitted, answered in any order (what they do to the ledger is the ledger's choice); symmetry in the two own offers, which no property tells apart and no liveness is checked |
| `market` | favorites and directions are by last use; price levels and trades shown are what the ledger did | three currencies, two of them USD of different gateways, one line on each side of a balance; five standing offers (two on the same funds, one on the other side of a pair, one of the other account) and eight terms for new ones: taken in part, in whole with a rest, at the price of a standing one, a gain of just the fee; two transactions, three things done with pairs (so that one is picked while another's book is on its way, and then used or saved). A transaction's reading depends on the ledger before it alone; the second one finds partly taken offers, spent balances and deleted lines |
| `gateways` | added gateways are trusted, pending ones have a job and come to an end | two gateways, one with two currencies (partial failure), three operations (so that a batch overlaps two others), one reload; searches answered late |
| `contacts` | dates later than the opening are on records told to the page; every lookup settles | one tab, one name, two addresses (a record that moves), three steps of time with a maximal age of two (a record can be too old, and can outlive a reload while it is recent), one reload. More tabs are covered by the proof |
| `contacts_email` | **violated**: answers by name are recent | the same with two steps of time and a maximal age of one |
| `session` | nothing is left of a session that is not to be kept; who is not watched is kept; what is stored opens unless a save was torn; the idle timer spares the active | two tabs, one user with wallets of both versions, an idle time and a debounce of two steps in three (a timer can fire, be reset in time and be reset too late), two saves, one login in flight per tab. More are covered by the proofs |
| `connection` | the alert tells the connection, the account shown is the ledger's, who waits is served | four reports in the queue (a lost link and a whole try), two logins (so that two listeners and two answers overlap), three changes of the account, among them one that empties it; balances at which setting the inflation destination would and would not take an STR off what is shown |
| `registration` | login only with name and wallet, names of failed attempts released, no attempt without end | two well-formed names and an ill-formed one, one strong password, two attempts, two edits while one is under way (name and password), one check in flight, one name registered by others |
| `account` | which steps can leave a wallet that the code in force does not open; what a confirmed code opens; when recovery is switched on | two new codes besides the old wallet's (one in force or given up, one being changed to), two new passwords, two answers on their way and two confirmations under way; symmetry in the places of both, no liveness is checked. More are covered by the proof |

Deadlock is checked in the payment and send pane runs, where the user can always
act. In the others the bounds on operations let the system stop, so it is off.

Each module states its type invariant once. `payment` and `contacts` check it; it
is proved of these, `SendPane`, `Session`, `Account`, `Registration`, `Gateways` and
`TradingForm`.

**History variables.** `early` (send pane),
`raced` and `missed` (history), `lost` (gateways), `left`, `selfCrossed`, `kept` and
`unlisted` (trading), `tooOld` (contacts), `torn`, `counted`, `relogin` and
`forgot` (session), `missed` (connection), `lost` (registration), `dead` and `hasty`
(account), `touched` and `usedAs` (market) exist for properties only and no guard reads them.
`edits` (registration) is one as well, read only by the guard that bounds it. They
say under which condition a property is claimed:
- `SignedAsProposed` says the amount of every payment, its account and issuer of
  those whose path was picked with no lookup open: one that is open answers in the
  confirm screen and changes both.
- `HistoryIsComplete` and `ViewIsCurrent` hold while no call or event overlaps
  another call; with overlaps the code skips or repeats transactions. `ViewIsCurrent`
  excepts a view whose last request was refused: nobody catches `getPage`'s rejection,
  and the rows stay those of before until the view asks again.
- `AddedIsTrusted` excludes gateways whose work a reload forgot; `OneBookWatched`
  pairs a page was left on, which nothing unsubscribes, and those whose
  unsubscription was refused; `MyOffersAreListed` excepts a visit whose
  `account_offers` was refused, and allows own offers that an own offer consumed,
  which the code does not take off the list.
- `OnlyTornSavesFail` speaks of saves that were not torn, `IdleLogoutIsIdle` not of
  a second login in one page (whose timer's handle is overwritten), and
  `UnwatchedIsKept` not of a tab in which another tab's logout was not noticed.
- `AccountFollowsLedger` holds from the request of the account until the link is
  lost; a listener is removed at the next disconnect and added by logins only.
- `LoginIsRegistered` and `NamesAreReleased` speak of attempts whose form was left
  alone: the chain of promises reads the form anew at each step.
- `ConfirmedCodeOpens` is claimed of a recovery form left alone: the code typed in is
  not changed while a confirmation waits, one confirmation runs at a time, and no
  change is begun or given up with an earlier answer on its way.
- `DeadForAReason` names the steps that make a recovery code useless: a migration
  without new recovery data, a change given up that the wallet server had made or may
  still make, a password changed without the recovery data made anew, and a form not
  left alone, so that data and confirmation were of different codes.

**Limits of what some properties say.** `BooksFollowLedger` speaks of the books the
server sends: after a refused subscription the page keeps a book that nobody
updates, and choosing the same pair does not subscribe again
(`trading-controller.js:56`). `DatesAreOfThePage` does not say that a record is as
young as its date, which is not so (see section 6); it says how far the date can be
wrong, namely back to the opening of the page. `LevelsAreTheBook` speaks of the book
that offers are made on, once it has come, which need not be the pair the form names.
`TradesAreExchanges` excepts the metadata the code misreads (a line that is created or
deleted, a node without a previous balance, an exchange of two gateways' currencies of
one code, an offer taken by a payment); each exception is spelled out in the property.
`AlertTellsConnection` is about the
service's flag, which lags behind the link by the reports in the queue.

## 4. Liveness and fairness

| Property | Fairness | Why the code justifies it |
|---|---|---|
| `CallsSettle` (history) | weak, of the server's answers and of the delivery of each kind of message | the connection delivers; no user action is assumed. The property is that getPage's recursion comes to an end |
| `PendingSettles` (gateways) | weak, of "the next transaction succeeds or fails" and of "the account loads or fails" | a submitted transaction ends one way or the other by its last ledger; no success is assumed |
| `LookupsSettle` (contacts) | weak, of "stellar.txt comes or is missing" and of each request "is answered or fails" | `$.ajax` has a timeout (`stellartxt.js:41`), and the browser ends every `$http` request |
| `WaitingEnds` (connection) | weak, of the `$timeout` callbacks and of stellar-lib's next try; strong, of the link coming up | the browser runs its timeouts; the library keeps trying, and the property is claimed only of a server that is there at infinitely many of its tries |
| `AttemptsEnd` (registration) | weak, of "the server handles the request" and "the answer comes or does not", as one condition: exactly one of them is possible at a time | `$http` ends every request |

No liveness is claimed of payment, trading, market, session and account: their
progress is the user's, and the login of an old wallet can really hang
(`wallet.js:460`).

## 5. Theorems

Each component's proof shows an inductive invariant (`Init => IInv`,
`IInv /\ [Next]_vars => IInv'`), with a lemma per action or group of actions, and
derives the properties from it. They assume only the named assumptions on the
constants, and hold for every value of them, the bounds included.

**`PaymentProofs`** -- for all accounts, names, tags, amounts, inputs, federation
contents: `Typing`, `LookupsAnswered` (DestinationAnswersLookup), `OffersCurrent`
(OffersAreCurrent), `PayeeAgrees` (PayeeIsRecipient), `ServiceAgrees`
(OneDestination), and `Refinement`: `Payment` implements `LatestAnswer`. The
properties are not inductive by themselves. A found destination becomes the payee,
so one must know that an open lookup asks for the account of the recipient in the
form (`AsksForRecipient`): `updateRecipient` returns early when the text is the
payee's address or name, and no lookup starts then. For that the name shown must
belong to the address it is shown with (`NameIsOf`), which reverse federation
ensures.

Of the send pane, in the same module: `PaneTyping` and `Proposed` (SignedAsProposed), from the
payment's invariant and three facts that tie form and pane: an amount the service has
is the one the pane would send (`AmountKept`), a path that waits for confirmation is
for that amount (`ConfirmOK`), and if it was picked with no lookup open there is none
yet, the payee is the account it was found for and a credit's issuer that account
(`ConfirmSettled`). `OffersAreCurrent` gives that the path is right when it is
proposed; that the form is closed to edits while it is confirmed, so that no lookup
begins, keeps it so.

**`ContactsProofs`** -- for any number of tabs, names and addresses and any
`MaxAge`: `Typing` and `DatesOfThePage` (DatesAreOfThePage). The invariant adds that no date in memory or in localStorage
is in the future, so that what a page takes over at its opening is not dated later
than that, and that what reverse federation remembers was told to the page that
remembers it. TLC checks one tab; the theorems cover tabs that overwrite each
other's localStorage.

**`SessionProofs`** -- for any tabs, users and times: `Typing`, `Purged`
(ForgottenIsPurged), `Openable` (OnlyTornSavesFail), `Watched` (UnwatchedIsKept) and
`IdleLogout` (IdleLogoutIsIdle). Every save has a seal of its own, so cookie and key
fit or the save was torn; a bump leaves the seal alone. For the idle logout the
invariant ties the timer in force to the last login or act that counted
(`TimersFollowLogin`), and says that timers without a handle come from a second
login only.

**`AccountProofs`** -- for any number of codes and passwords: `Typing`, `Reasons`
(DeadForAReason), `Confirmed` (ConfirmedCodeOpens), `Switch` (SwitchIsHonest). The
invariant says what each page may assume of both servers (`PagesOK`), that the
saved flag is the session's until a code has been confirmed (`FlagOK`), that on a page
whose form is left alone the part of the code it holds, or will have from an answer on
its way, is that of the change under way (`ChangeOK`), that a confirmation there runs
alone, with both parts of one code before the data is made and with the data there
before it is confirmed, or its change was given up (`ConfirmOK`), and what is wrong
with the recovery data (`DataOK`).

**`RegistrationProofs`** -- for any names and passwords and any number of attempts
and edits: `Typing`, `LoggedInRegistered` (LoginIsRegistered), `Released`
(NamesAreReleased). The invariant says that what was sent is what is in a form left
alone, that what a server accepted is there (`AttemptOK`), that the confirmation's
flag is true of the form (`FormOK`), and of each name who holds it: another user,
the attempt under way, the session, or an attempt whose release is in flight
(`NamesOK`, with `ReleasesOK` for the tokens of the releases).

**`ConnectionProofs`** -- for any number of reports, logins and changes and any
payments: `AlertTells` (AlertTellsConnection) and `AccountFollows`
(AccountFollowsLedger). Of the queue of reports the invariant says that what follows
"connected" is "disconnected" and that it ends in "connected" just while the link is
up (`ReportsOK`): so no report but that one takes the flag back, and none but
"connected" sets the alert to it. Of the entries it says that the last one on its
way, or else the account shown, is the ledger's (`EntriesOK`).

**`LedgerProofs`**, gateways -- for any gateways, currencies, operations and reloads:
`WorkUnderWay` (PendingHasWork), `TrustlinesSet` (AddedIsTrusted), `GatewaysTypes`
(TypeOK).

`PendingHasWork` is inductive as it stands: every batch takes up all pending
gateways, and what settles or replaces one gateway leaves the jobs of the others
alone. The one delicate case is a failed job whose gateway object is no longer the
wallet's: the job that is left is another.

`AddedIsTrusted` is far from inductive. That a gateway is "added" is set when the
last of one job's currencies has succeeded, while transactions of other batches on
the same lines may be queued behind, or may have gone before. The invariant
(`Trustlines`) says of the queue that it is sorted by batch, with each transaction
once (`QueueOK`); of a job that the currencies it has to do are just those it has
queued, that it has had a result only when nothing of an earlier batch is queued
any more, and that an adding job has set the lines it has done (`Doing`); of a job
whose gateway object is not the wallet's any more that a later batch is at work on
that gateway (`LaterOK`); of what is queued for a gateway with a job that one of its
jobs is of that batch or a later one (`LastOK`), so that what remains after the last
job is nothing; and of an added gateway that it has a job yet, or nothing queued
and all its lines (`AddedOK`). A step is first described by what it does to these
values (`SyncEffect`, `DetachShape`), then each part is shown to be kept.

**`LedgerProofs`**, trading -- for any pairs, offers, visits and changes of pair:
`TradingTypes` (FormTypeOK), `LastOffersResult` (ResultIsOfLastOffer), `BooksFollow`
(BooksFollowLedger), `OneWatched` (OneBookWatched), `MyOffersListed`
(MyOffersAreListed). The last three say what a value will be once the messages under
way have come: a fold of their effects. A few lemmas carry all of them: a fold over
`Append(q, m)` is the effect of `m` on the fold over `q`, one over `q` without its
first message starts from that message's effect, and a fold of monotone effects is
monotone. With them a step of the ledger appends one effect, a delivery moves one
from the queue into the value, and each property is inductive given that the values
are of their types and the transactions on their way well formed (`TradingFormTyped`).
What is particular to each: for the books, that the client hears of every
transaction that touches a book it is subscribed to, that a book equal to the
ledger's which ingests a transaction is equal to it again, and that a snapshot
replaces whatever the messages before it make of the book; for the one book, that a
refused subscription leaves fewer books in the end, not more (`FewerSubs`), and a
refused unsubscription puts its book among those excepted until it is asked for again;
for the own offers, that a transaction keeps the names right whatever it leaves of
them (`NamesAfter`), and that a page just opened has asked for its list, which is then
answered or refused.

**`ListsProofs`**, history -- for any ledger, page size, filters, calls and views:
`HistoryComplete` (HistoryIsComplete), `ViewCurrent` (ViewIsCurrent). While nothing has
raced (`Unraced`) the service is in one of four situations: it rests, with nothing
but events on the wire (`Resting`); the one call of the view is on the server, with
the present length of the array as its offset (`Asking`); its answer is on the
wire alone, and is the next part of the ledger (`Answered`); or its refusal is on the
wire alone (`Refused`). In all of them the
array is an interval of ranks downwards (`Down`) that begins at the last transaction
the wire has brought. For `ViewIsCurrent` the invariant has that the rows shown are
those of the array while the service rests, unless the last call was refused
(`Shows`): an event that passes the view's filter asks for the page again, and one
that does not leaves the filtered array as it is (`KeepLater`).

**`ListsProofs`**, pairs -- for any currencies, codes (equal ones of different
gateways included), wallets and uses, through every step of the market:
`FavoritesByUse` (FavoritesAreByUse), `DirectionUsed` (DirectionAsUsed), though form
and order book may be of different pairs. `PairsInv` has a clock value for each pair, says that the favorites are just those with one and
sorted by it (`ByUse`; that filtering keeps an order is `KeepInOrder`), and for each
two codes that `priorities` holds the direction used last, or none if there was none
(`Directed`).

**`ListsProofs`, market** -- for any currencies and codes, sides of trust lines,
balances, standing offers, orders and number of transactions: `MarketHolds` (the
invariant), `LevelsTrue` (LevelsAreTheBook), `TradesTrue` (TradesAreExchanges).
The proof has four parts.

*What a transaction can be.* Every step that sends one is a `Move` (`StepsAre`):
either `Idle`, which exchanges nothing, makes at most one offer and removes at most
one; or `Struck`, which takes `k` of an offer for `p` at that offer's price, with
both sides able to pay. What the ledger's rules say further (rests, crossing,
funding) no property depends on.

*The ledger and the book.* `LedgerInv`: balances are never negative, the trust lines
are those the balances call for, an offer has a used sequence number, a name of its
own and positive amounts. It is needed because a transaction's nodes name offers by
account and number: were two offers of one name, or an old number used again, the
client would overwrite a stranger's offer. `BookInv`: once it has come, either side of
the current book lists each of the ledger's offers in that role, once (`ListsAll`). For that, what the
metadata tells of offers put and gone is just what the ledger did (`OffersSaid`), and
a list ingested with it lists the offers there are then (`IngestedLists`, `SideKept`).

*Levels.* `LevelsAreTheBook` compares offers merged by price with sums over the
ledger's offers. Prices in lowest terms are equal just when the ratios are
(`PriceOfRatio`) and ordered as they are (`BelowIs`, `BelowOnward`), so a level's rank
determines it (`LevelsSorted`), and a sum over a list that has each offer once is the
sum over the offers (`SumByKind`).

*The trade of the last transaction*. The account's own balance nodes are one a
currency (`MyNodes`), so a sum over nodes is one over currencies (`SumByNodes`); the
changes the trade page reads are of no code, of one, or of one gained and one given
(`GainShape`, `ShownShape`), which is when it can name the trade (`TradeIs`). The
reading depends on `MarketInv` before the transaction alone, as `last` keeps what was
made of it. Two currencies of one code are read as one, in the proof as in
the code.

The library's induction theorems take an operator as a parameter and cannot be
used. Where an argument is by induction on a length (that the value of a recursive
function exists, that a fold over one message more is one effect more), the proof
takes a least counterexample instead: `NatLessThanWellFounded` and `WFMin`, in the
lemma `Induction` of a set of numbers. For sums over finite sets the smallest
counterexample is one by strict inclusion (`SmallerFirst`); the lemmas on them
(`SumOut` takes one element out, `SumRenamed` sums over an image, `SumSupported` leaves
out zeros) carry all of the market's sums.

Model-checked only: the five liveness properties of section 4, as liveness under
fairness and ENABLED are outside what the prover does. The property of
`contacts_email` is false. Every other property of the runs is stated by a theorem.

## 6. Disagreements between the code and what it says of itself

One is a run marked **violated** above, with the sentence it refutes in
`PROJECT.json`, "findings": the comparison in `contacts.js:109` is the wrong way
round, so that answers by name come from the cache exactly when they are too old.

Others were met while modelling. The models behave as the code does, and no
property claims the contrary:
- a path that is picked while a lookup is open was found for the account before; the
  lookup answers in the confirm screen, where nothing looks at it, and the payment goes
  to the new account, in the new issuer's credit (`set_issuer`,
  `payment-service.js:165`), along the old path (`early` in `SendPane`);
- `fetchContactByAddress` asks again for a record too old, which is what
  `contacts.js` 72-73 says it does, but reverse federation answers with the promise it
  remembers (`reverseFederation.js:21`), and the old record gets a new date
  (`contacts.js:32`): for as long as the page is open it counts as recent;
- while a lookup is open the service still finds paths for the destination before
  (`payment-service.js:42`);
- the result of an earlier payment shows as that of the present one
  (`send-controller.js:147`);
- the offset of a page of history is the length of an array that grows meanwhile,
  and the flag for its end can be set too early (`transaction-history-service.js:90`);
- nobody catches the rejection of a page of history, and the view is not refreshed
  (`transaction-history-service.js` 90-102);
- a pair chosen while another is being subscribed is dropped, and the form names a
  pair that the offer does not go to (`trading-controller.js:53`); "save this pair"
  saves the order book's (`favorite-trades-controller.js`);
- the list of own offers is not asked for again when `account_offers` is refused
  (`current-offers-controller.js` 6-10);
- an offer taken by a payment is no trade to the trade page, as it reads
  `transactionType` where the transaction has `TransactionType`
  (`trade-history-service.js:43`);
- a confirmation of a recovery code reads the input and the server's part anew at each
  step, so that recovery data of one code can be followed by the confirmation of
  another (`settings-recovery-controller.js` 111, 113, 124): the code in force then
  opens nothing;
- a removal's result deletes the gateway that was added again meanwhile
  (`gateways-service.js:95`);
- the service broadcasts `payment:paths-error`, the form listens to another name
  (`send-form-controller.js:40`);
- the retry of rate-limited requests compares the status with the string `'429'`
  and never happens (`bruteRequest.js:8`).

## 7. Not modelled, and the plan

Not to be modelled: templates, styles, icons, vendored libraries, data tables,
analytics and error reports (no logic of the client); cryptography (abstract in
`Session` and `Account`); filters and the formatting of amounts (no state).

Planned, most important first:

1. `Balances`: answers out of order, and the balances of the account's lines.
2. Reconnects: `Connection` composed with `Trading` and `SendPane`, with the
   transactions stellar-lib queues while offline.
3. Extensions of present modules: amounts of own offers in `Trading`, an ill-formed
   answer in `Contacts`, page numbers of late answers in `TransactionHistory`, a
   required tag cleared during confirmation in `SendPane`, the currencies of the form
   apart in `CurrencyPairs`.
4. The remaining pages of settings, the version 1 recovery and password pages, 2FA:
   single requests with a form around them.
5. `Rewards` and invites: states of the API server that the client shows.

Theorems planned: the abstract effect of a save and a load as a refinement of "the
last wallet saved" in `Session`; the same of a page of history as a refinement of
"the ledger from the top".
