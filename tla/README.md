# Verification of the SurveilOne inbox app

`src/lib` is a Flutter app: a user signs in to a site and reads its alerts, its
push notifications and the status of the products the site has licensed. There
is no local storage and no background work. All the state is in the `State`
objects of the pages on the Navigator's stack, and all the concurrency is
between the user, the framework's route transitions and the answers of five
GraphQL calls that nobody cancels. That is what these modules are about: what
a page does when an answer comes late, out of order, malformed, never, or when
the page it was meant for is covered, being taken away or gone. One more module
is about the program that hosts the app on Windows, where destroying the window
calls itself.

## 1. Inventory

| Part | State | Operations | Hard behaviour | Correct when |
|---|---|---|---|---|
| `graphql_service.dart` | none (a new object per page; `_authToken` is never set) | `signin`, `signup`, `getAlerts`, `getProducts`, `getProductStatus`, all through `_post` | 25 s timeout, lost connection, HTTP and GraphQL errors, malformed lists; every failure becomes null or an empty list | no failure leaves the service as an exception; a caller cannot hang |
| `product_status_page.dart` | selected code, codes offered, status list, flag, error, spinner, tile list | load products, fetch status, pick a product, pull to refresh | status queries overlap, come back in any order, outlive the page | the list is about one product; the newest query is about the selection; spinners end |
| four licensed-product pages | none | build a `ProductStatusPage` with their code | | |
| `main.dart`, `navbar_widget.dart`, `account_page.dart` and the navigation of all pages | the Navigator's stack; each page carries its session | push, replace, pop, remove all | continuations navigate after an await whatever is on top | pages of a session only where a sign-in or `LoginPage` put them; never a blank window except as stated below |
| `login_page.dart` | form, `_isLoading`, `_latestPartyId` | sign in, open sign-up, open documents | form edited, page covered or signed out during the call | the button comes back; the session is that of the request |
| `signup_page.dart` | form | submit | the button is never disabled, so calls overlap; a server that decides after the page gave up; pops without looking | a verdict is true, single and always reached |
| `alerts_page.dart`, `push_notifications_page.dart` | list, spinner | load once, sort, open a detail | answer after dispose; a malformed element half way through the list | |
| `message_detail_page.dart` | index into the list it shares with the page below | next, previous, full-screen image | the list is sorted or refilled under the index | the index stays in range |
| `menu_page.dart` | licensed codes, spinner | load, pull to refresh, open pages | answer after dispose; a pull that takes effect when the page is covered or leaving | one load at a time; the newest list on display; the spinner is a load |
| `image_url.dart` | none | normalise an address | normalised twice, in two ways (list page, then detail page) | the second pass keeps the address |
| `privacy_screen.dart`, `legal_screen.dart`, `acknowledgements_screen.dart`, `personal_info_page.dart`, `security_privacy_page.dart` | none | navigation bar | opened with and without a session | |
| `windows/runner` | message loop, window handle, class registration, window count, engine controller, COM | create, show, close, destroy | `DestroyWindow` calls the handler that calls it; the engine draws on its own thread | destroyed once; no window or class left at the end; the window is shown |

How they interact: a page opens another by pushing or replacing a route and
hands it the session (party id, user, password, site) as constructor
arguments; a page calls the service and resumes after its await; a detail page
shares a list by reference with the page that opened it. Nothing else is shared.

The hazards of each part, with the line where they bite, are in
`PROJECT.json`, together with the table from every definition to the lines it
models.

## 2. The modules

**`GraphQLService`** — pure operators. What comes over the wire is a record:
`fault` names how `_post` fails (`Faults`), `field` is the part of `data` the
caller reads, possibly `Null` or `Malformed`. A call is `Completed(value)` or
`Raised`. `GetProducts` and `GetProductStatus` follow the casts and catch
clauses: one malformed element makes the whole list empty. `GetAlerts` hands
the list on as it came, because its `cast` is lazy: a malformed element throws
in the page that reads it.

**`RouteLife`** — the life of one page as the framework runs it: gone, top,
covered, leaving. External: modelled from how `lib/` uses the Navigator.

**`ProductStatus`** — one `ProductStatusPage`. The variables are the State's
fields; `fetch` holds every activation of `_fetchStatus` with the await it is
suspended in; `products` is the `getProducts` call of `initState`. There is
one action per synchronous stretch of code between two awaits:
`ProductsAnswered`, `StatusAnswered`, `StatusAnsweredAfterDispose`,
`AssetLoaded`/`AssetMissing`, and for the user `ToggleProductList`,
`SelectProduct`, `PullToRefresh`. `answers` is a history variable: the
activations whose answer was put on display, in that order.

**`StatusBoard`** — what the page promises, without spinners, errors, image
loads or wires: a board that is wiped by each question and shows the answer
that came last. `ProductStatus` is shown to implement it (`ImplementsBoard`).

**`ProductStatusProofs`** — the theorems about `ProductStatus`.

**`AlertList`** — an `AlertsPage` or a `PushNotificationsPage` (`ListPage` says
which) and the `MessageDetailPage` opened from it. Both pages live as
`RouteLife` says, `life` the list page and `detail` the other. `list` is the
one Dart list that both hold a reference to, `index` the detail page's
`currentIndex` (from 1). `Answered` is the stretch of code after the await of
`getAlerts`; `Fill` is the callback of its `setState`, which a malformed element
ends half way through. `SortAlerts` is `_sortAlerts`, reached by the filter menu
(`ChooseOrder`) and by the bell on the page itself (`TapBell`); Dart's sort is
not stable, so entries of equal date may end up in any order. `Elsewhere` is
what the rest of the app can do to the two pages. `received` is a history
variable: what `getAlerts` returned. Nothing in the code remembers the order
chosen, so nothing does here.

**`AlertListProofs`** — the theorems about `AlertList`.

**`InboxApp`** — the Navigator's stack, the sign-in and sign-up calls whose
continuations navigate, and sign-out. A page lives in a slot and carries its
session; for the login page, the party is `_latestPartyId` and the user what
the form says. `Push`, `PushReplacement`, `PushAndRemoveAll` and `Pop` are the
framework's; `Pushes` and `Replaces` are the code's table of who opens what (the
page of licenses that a document opens, without the navigation bar, is an
`overlay` like the full-screen image). A sign-in may be sent with an empty form
(`NoUser`), which the code does not prevent; `NoCall` is no sign-in at all.

**`InboxAppProofs`**, **`InboxStepProofs`** — the theorems about `InboxApp`: its
invariants, and what single steps may do.

**`Menu`** — one `MenuPage`, on `RouteLife`. `loads` holds the activations of
`_loadLicensedProducts`; `LoadAnswered` is the code after its await with the
`finally` clause. A pull (`PullToRefresh`) and the call of `onRefresh`
(`Refresh`) are two actions, because the indicator animates between them and
the page can be covered or left meanwhile. `newest` is a history variable: the
newest load that a mounted page has seen the answer of. **`MenuProofs`** has its
theorems.

**`SignUp`** — the button of `SignUpPage` with the server behind it. Each element
of `calls` is one press: the form it carries, how far the server is with it, and
the snack bar it ended in. `Decide` is the server, which may decide before or
after the page has given up; `Answered` the code after the await. Where the
pop leads is `InboxApp`'s business. **`Registration`** is what signing up
promises to a person: each request is made with the form as it is then and gets
one verdict, a "yes" is true of that form and the last thing asked for, and a
"no" promises nothing. `SignUp` implements it (`KeepsPromise`); the theorems are
in **`SignUpProofs`**.

**`AlertFields`** — the date and the image address of one alert from the
backend's answer through a list page to the detail page. An address is the
sequence of its texts between slashes, so that "`/images/` occurs in it" and
"split at `/images/`" keep their meaning with overlapping and repeated
occurrences. **`AlertFieldsProofs`** has its theorems.

**`WindowsRunner`** — `wWinMain`, `Win32Window` and `FlutterWindow`. The platform
thread is a call stack whose elements name what is to be done next, so that the
recursion `Destroy` → `DestroyWindow` → `WM_DESTROY` → `Destroy` is in the model
as it is in the code. `engine` is what the engine's own thread and the posted
callback have still to do; `system` is what Windows keeps, COM included. **`WindowsRunnerProofs`**
has its theorems.

`ProductStatus`, `AlertList`, `Menu` and `SignUp` build on `RouteLife`, `InboxApp`
on the Navigator's operations themselves. Both are external, and that they fit
each other is a matter of reading them, not of a run: it depends on the
framework and not on what this code calls.

Definitions whose comment says *Mutant of* are plausible bugs: the definition
they vary is replaced by them to see that the property named beside them in
`PROJECT.json` fails. They take no part in the specifications.

### What is assumed of the framework

* Taps reach the top route only, also while other routes are still in
  transition. `LoginPage`'s links, `SignUpPage`'s button and
  the product tiles stay active while calls are under way, as the code leaves them.
* A popped, replaced or removed route stays mounted, with a usable context,
  until its transition ends (`leaving`); then its `State` is disposed. In the
  code this is why `mounted` is no test for "still on the stack".
* `setState` and `Navigator.of(context)` on a disposed page throw; an error
  that reaches no handler is recorded (`uncaught`, `escaped`) and nothing else.
  Where assertions are on (debug builds) `setState` throws before it runs its
  callback, elsewhere after it: both outcomes are modelled.
* `Navigator.pop` removes the top route even if it is the only one, and leaves
  a blank window. The system's back button leaves the app instead.
* `initialRoute: '/login'` starts with `LoginPage` as the only route, as the
  code has no route `/`.
* `RefreshIndicator` calls `onRefresh` some time after the pull, if its page is
  still mounted; the body that shows a spinner has no indicator.
* Windows calls the handler of `WM_DESTROY` before the window is gone; it
  refuses to unregister a class that still has a window; the next-frame
  callback is posted to the platform thread.

## 3. The runs

| Run | Instance | What it shows |
|---|---|---|
| `product_display` | 3 products, 3 activations | the safety of the product page, and that it implements `StatusBoard` |
| `product_progress` | 2 products, 3 activations, fairness | spinner and refresh indicator stop; every question is answered or thrown away |
| `alerts_list` | `AlertsPage`, 5 lists of up to 4 alerts, fairness | the list is whole, and the detail page's index and alert stay put; loading ends; when errors escape |
| `push_list` | `PushNotificationsPage`, the same lists | a late answer raises nothing, only a malformed element does |
| `app_navigation` | 4 slots, 1 user, all kinds of page, 2 submits | the shape of the stack; how a window can become blank; when errors escape |
| `app_sessions` | 4 slots, 2 users (symmetric) | where two sessions meet on the stack, and that none appears that no sign-in opened |
| `app_progress` | 3 slots, 1 user, all kinds of page, fairness | the sign-in button comes back |
| `menu_load` | 3 codes (one unknown), 4 loads, fairness | one load at a time, the newest list shown, a spinner that ends, every failure an empty menu, nothing after dispose |
| `signup_verdicts` | 3 forms, 2 presses, fairness | `SignUp` keeps the promise of `Registration`; every press gets a verdict |
| `alert_fields` | all addresses of up to 4 segments behind 4 hosts, 3 moments in each format | dates are the moment meant; the detail page keeps the list page's address |
| `windows_window` | 3 requests to close, fairness | the window is destroyed once, shown, and gone with its class and engine at the end |
| `app_navbar` | 3 slots | **a violation**: see the finding below |

What the product runs say in words. Answers are never matched with the
selection (`product_status_page.dart:144`), so a late answer about another
product can go on display under the name now selected. What does hold:
`NewestFetchIsForSelection`, `DisplayIsLastAnswer` (the list is never a mix and
never under a spinner) and, provided the answers come in the order of the
questions, `InOrderIsFresh`. The premise is needed: without it TLC finds two
queries answered in reverse. `FailuresAreSilent` says that the "Failed to load
product status" view with its Retry button cannot be reached, because the
service turns every failure into an empty result; the user sees "No statuses
available." instead. `PageFlagIsWorst` compares the two computations of the
worst flag, one in the service and one in the page.

What the list runs say. The pages differ in two ways that matter:
`AlertsPage` does not look at `mounted` after its await, so a late answer raises
an error that nobody handles, and it empties and refills one list in place,
where `PushNotificationsPage` assigns a new one. `EscapesExplained`, checked for
both pages, states the difference. A malformed element in the answer leaves the spinner of either
page on for ever, and `LoadEnds` says that nothing else does (its safety half,
`StuckOnlyByMalformed`, is a theorem); half a list is never shown (`WholeListOnly`), even by sorting under the spinner.
Because the list is loaded once, and sorting is out of reach while the detail
page is on top (`alerts_page.dart:189` gives it an empty `onAlertsTap`), sharing
the list by reference is harmless: `IndexInRange`, `DetailFollowsReader`. An
order chosen before the answer is in is lost, for the answer brings its own.

What the navigation runs say. A sign-in answered late replaces whatever is on
top; because `SignUpPage` and the documents are the only pages the login page
opens, the stack keeps its shape (`StackShape`: no page is in two places, `LoginPage` is
the bottom page, `SignUpPage` the top one). The blank
window is possible in one way only: a sign-up answered while its page is
leaving (`BlankOnlyByLateSignUp`), for instance two submits both answered.

Two sessions can lie on one stack, without any haste of the user. A sign-in is
sent, `SignUpPage` covers the login page, and the answer replaces it by the
alerts page of the first user; the login page stays below with its
`_latestPartyId`. The user goes back, types another name, sends a second sign-in
and opens a document from the login page, which gets the old party and the new
name. If the user goes on to the menu, which takes the document's place, and
from there to the account page, the second answer replaces the account page and
leaves the menu of the first party below. What does hold,
and what `SessionsMeetAtSignIn` states, is that sessions meet nowhere else: a
page of a session has the session of its lower neighbour, or is the alerts
page of a sign-in, with the party of the user that sign-in was for, or lies
right on `LoginPage`, where its documents open. So a page gets its session from
the page it is opened from or from a sign-in, also with taps during
transitions. `SessionOnlyBySignIn` is about the stack without any session: one
comes only with the answer to a sign-in, as the session that one asked for, or
with a document from a `LoginPage` that has seen a sign-in answered.

What the menu run says. The menu does not match answers with loads either, and
needs no matching: the spinner takes the list, and with it the pull, away, so
`OneLoadAtATime` holds although a pull takes effect late. An answer after
dispose starts nothing and shows nothing (`NothingAfterDispose`). A failed load and a
site without products look the same (`FailuresLookEmpty`): the snack bar
"Failed to load products" cannot be reached, as the service raises nothing.

What the sign-up run says. A reported success is true of the form that was
pressed, whatever has been typed since, and nothing is asked for after it, for
it takes the page away (`KeepsPromise`). But a
reported failure says nothing about the account: the call may have timed out
after the server created it. That is a hazard of the form, where a second press
is the natural next step; `FailureHasReason` marks how far the message can be
trusted — an answer that was read and refused.

What the fields run says. The two `_parseDate` functions take integers for
seconds or milliseconds by different thresholds; `DateIsInstant` shows that no
moment in the period both pages ask for falls between them. `DetailKeepsImage`
names the addresses for which the second normalisation is not the identity:
those with a second `/images/` in them (the list page cuts at the first, the
detail page at the last), and those without a host. A query is kept for
addresses elsewhere (`ElsewhereKept`) and may be dropped on the image host.

What the Windows run says. The window is destroyed once because the handler of
`WM_DESTROY` clears the handle before it calls `Destroy` (`DestroyedOnce`); the
redraw that is forced after the callback is set makes `ShownInTheEnd` hold when
the first frame was drawn too early. When there is no engine, the class is
unregistered in vain first and by the destructor later (`NothingLeft`). A process
whose window could not be created ends without `CoUninitialize` (`main.cpp:31`);
`NothingLeft` asks for COM only where the message loop ran.

**Finding.** `acknowledgements_screen.dart:24` says of `showNavBar` "toggle nav
bar (hide when launched from Login)". `LoginPage` passes `false`, but
`onGenerateRoute` (`main.dart:52-90`) does not hand it on, so only `partyId`
decides. `_latestPartyId` survives on a login page that was covered by the
sign-up page when its sign-in was answered: its links then open documents with
the navigation bar of that session.

### Bounds, and why they are enough

* `MaxFetches = 3`: the first query comes from `initState`, so two more are
  under the user's control; every property relates at most two activations (a
  late one and a newer one) and a third covers one in the middle.
* Three codes: the one displayed, the one selected, another. `FlagLists` has
  the worst flag in front and behind, null, a flag out of range, a malformed
  element and the empty list.
* `MCAlertLists`: distinct, equal and missing dates (a missing one becomes
  `Now`, later than the others), a malformed element in the middle, one
  element, none. Each page loads once, so no list is longer-lived than one
  answer. One detail page is open at a time: nothing on it opens another.
* `MaxSlots`: a slot is a page on the stack or one still leaving. Four hold
  the login page, what it opened, a page of a session on that and one that is
  leaving with a call under way: enough for a late sign-in over another user's
  session, and for a signed-out login page beside a new session of several
  pages. For `SignInEnds` three are enough: the login page with its call, the
  page that covers it and one the other two hand over to.
* `MaxSubmits = 2`: two sign-ups under way is the least that pops twice.
* `Opened` is all kinds for the shape of the stack and for progress; for the
  sessions the documents of `LoginPage` and, of the pages in a session, the
  menu and the account page, through which a session ends — every other page
  hands its session on by the same operator.
* `MaxLoads = 4`: the first load and three refreshes, one each while the page is
  on top, covered and leaving; loads never overlap, so more repeat these.
* `MaxPresses = 2`: two calls under way with different forms; `KeepsPromise`
  relates at most two calls (one announced, one asked for later),
  `FailureHasReason` speaks of one.
* `Paths`, up to four segments: `/images/` first, last, twice, overlapping and
  not at all, before and after the site's directory, with hosts that are
  themselves `images`, the placeholder or empty. `Moments`: both ends of the
  period and one inside.
* `MaxCloses = 3`: one request that is obeyed, one the engine keeps, one that
  comes while another is pending.
* A tap that finds no slot or no activation left is not taken; calls under way
  always have room to be answered (`HasRoom`).

### Fairness

Calls end because `_post` gives up after 25 seconds (`graphql_service.dart:52`);
image loads and the framework's transitions end. Each is weak fairness of one
action (per activation, per slot). On Windows the platform thread runs, takes
every kind of message in the end, and the engine draws the frames it was asked
for. Nothing is assumed of the user, nor of the server's decisions, the order or
the kind of the answers.

### Deadlock

`CHECK_DEADLOCK FALSE`: a page that is disposed with all its calls ended, the
blank window, an alert on the detail page and a process that has exited really
stop.

## 4. The proofs

`ProductStatusProofs` holds for every set of codes, every set of lists the
backend may send, any `MaxFetches`; the assumptions are the four named in
`GraphQLService` and `ProductStatus` (the code the page is opened with is a
code; null and malformed are not codes; lists are sequences of codes, of
flags; at least one fetch).

`TypeOK` together with `NewestFetchIsForSelection` and `DisplayIsLastAnswer` is
not inductive. The strengthening `IInv` adds `Silent` (on a mounted page no
error is set and none has escaped) and `AnswersAreDisplayed` (a query still
open was never displayed; on a mounted page every other one was, so that "no
query open" and "in order" make the last answer the one to the newest query).
`Bounded`, that activations stay below `MaxFetches`, is an invariant of its own.
`InductiveInvariant` proves `Spec => []IInv`; from it follow

* `TypeCorrect`, `NewestFetchSafe`, `DisplaySafe`, `SilentSafe`, `FreshnessSafe`;
* `RefreshSafe`, which `RefreshEnds` needs besides fairness: a refresh indicator
  that turns waits for an activation that is not over, on a disposed page too;
* `SpinnerSafe` and `FlagSafe` (`SpinnerHasWork`, `PageFlagIsWorst`), from
  `SpinnerAndFlag`: the page's flag is the worst of the list on display for lists
  of any length, because the service's flag and the page's agree (`ColorIsWorst`);
* `DisposeSafe`, the action property `NothingAfterDispose`;
* `PageImplementsBoard`: the refinement, by showing for every action which
  `StatusBoard` action or stutter it is.

`AlertListProofs` holds for either page, any set of alerts and of lists of any
length, from the three assumptions of `AlertList`: the page is one of the two;
the clock is an integer; lists are sequences of alerts or malformed elements.
`IndexInRange` and `WholeListOnly` are
not inductive by themselves: the step that sorts must know that the list is a
rearrangement of the answer also while the detail page is open, and the answer
must find no detail page to pull the list from under. `ListInv` adds that
before the answer the spinner turns, no error has escaped and no detail page
exists (`NothingYet`), that a detail page on the stack lies right on the list
page (`DetailAbove`, so neither the filter menu nor the bell is in reach), and that
what was received is a list. Lemmas settle what the operators do: reading a
whole answer gives all its entries (`WholeIsRead`), a rearrangement keeps length
and types (`RearrangedList`), and a rearrangement of a rearrangement is one
(`RearrangedTwice`). `ListInvariant` proves `ListSpec => []ListInv`, and from it
`ListTypeCorrect`, `IndexSafe`, `WholeListSafe`, `StuckSafe`,
 `EscapesSafe` and the action property of `ReaderSafe`.

`InboxAppProofs` holds for any users, any number of slots and submits, and any
set of pages the user may open, from the assumptions named in `InboxApp`.
`AppInv` has two parts. `Shape` is about the stack and looks at the kinds of the
pages only: the three parts of `StackShape` (`SlotsDisjoint`, `LoginAtBottom`,
`SignUpOnTop`) need each other,
for what a late sign-in replaces is known only from where the login and sign-up
pages can be. `GoodPages` is about each page alone: only a login page has a
sign-in call and its spinner is that call, only a sign-up page has sign-up
calls. The framework's operations keep the shape (`PushKeepsShape` and its
neighbours), and every step is one of them. From `AppInductiveInvariant` follow
`AppTypeCorrect`, `StackShapeSafe`, `RequestSafe` and the action properties `BlankSafe` and `LateEscapesSafe`.

`SessionsMeetSafe` proves `SessionsMeetAtSignIn` with nothing assumed about taps
or timing. The property is inductive on top of `AppInv`, and looks at a page and
its lower neighbour only. So the proof is about neighbours: what is popped
leaves the pages below as they were (`BelowStaysExplained`, `LessStaysExplained`),
a page pushed gets the session of the one it lies on (`HandedSession`,
`PushExplained`), and a page that replaces another has the session of that one
or is a sign-in's alerts page (`ReplaceExplained`).

`InboxStepProofs` proves `SessionOnlyBySignIn` (`SessionSourceSafe`): it sorts the
steps by what they do to the stack and to the sessions on it.

`MenuProofs` holds for any codes, lists and number of loads. `MenuInv` adds to
`OneLoadAtATime`, `NewestListShown`, `FailuresLookEmpty` and `SpinnerIsLoad` that only the last load can be pending and nothing newer
than it was answered (`LastIsPending`), and that a pull waiting on a mounted
page finds no spinner (`PulledHasNoSpinner`): without the latter a late
`onRefresh` could start a second load.

`SignUpProofs` holds for any forms and number of presses. `SignUpInv` adds that a
success was told only of an account that exists (`SuccessIsTrue`), that a failure
of a request not refused had no readable answer (`FailureExplained`), and that a
page with a success has left the stack (`PageLeft`). `SignUpKeepsPromise` is the
safety part of the refinement; `PageLeft` is what gives it that nothing is asked
for after a success, which `NoPressAfterSuccessSafe` also says of the calls
themselves.

`AlertFieldsProofs` holds for addresses of any length and every stamp in the
period; it is assumed that splitting a text never gives an empty list, that the
image host is no placeholder, and that null is no address. `DateSafe` is
arithmetic (`IntDates`). `ListedSafe`, `KeepsImageSafe` and `ElsewhereSafe` rest on
what the two normalisations make of an address: the list page's gives null, an
absolute address without `/images/` as it came, or the image host's directory
with something behind it (`ListImageForms`). The detail page's looks for the
last match of `split`, a function defined by recursion along the address, about
which nothing can be proved by induction here. But to the prover such a function
is a choice among those that satisfy its equation, and where `/images/` occurs
once one of them can be named, and they all agree (`SingleSplit`). Addresses
in which it occurs more often are the ones the two properties leave out.
`ImageInv` says what the alert has become at each station, and is inductive.

`WindowsRunnerProofs` holds for any number of requests to close. Its inductive
invariant `RunnerInv` starts from the shape of the call stack (`Nested`: every
frame lies on a function that calls it, `wWinMain` at the bottom), which no
property mentions but all need: what a call may find depends on who is
waiting for it to return. Each further part ties one piece of state to the
stack. `HandleFollowsWindow`: the handle is cleared before the handler of
`WM_DESTROY` calls `Destroy`, which is why that call does not destroy again.
`WindowFollowsCalls`: the window is being destroyed exactly while
`DestroyWindow` is on the stack. `ControllerFollowsCalls`: the engine is dropped
before the window goes. `ProgressInv` is what closing and showing rest on, and
that COM is gone where the message loop ran.
`RunnerInductiveInvariant` proves `Spec => []RunnerInv`; from it follow
`DestroyedOnceSafe`, `EngineHasWindowSafe`, `NothingLeftSafe`, and three facts that no
run states: the recursion is at most five calls deep (`DepthSafe`), a message loop
without a window has been told to quit and has nothing to take first (`QuitSafe`),
and in the message loop a window not yet shown has its callback posted, or
set with a frame to come (`ShowSafe`). The last two are the safe halves of
`ClosingEnds` and `ShownInTheEnd`.

The type invariants of the list pages, the app, the menu and the sign-up page
hold for every instance by `ListTypeCorrect`, `AppTypeCorrect`,
`MenuTypeCorrect` and `SignUpTypeCorrect`, so the runs do not repeat them; nor
do they repeat `StuckOnlyByMalformed`, `SpinnerIsLoad`, `NoPressAfterSuccess` and
`ListedIsAbsolute`, which are theorems.

Every safety invariant and every action property that a run checks is a
theorem, and so is the refinement of `StatusBoard` and `Registration`. Only model-checked are the liveness properties, which are out of
the prover's reach: `RefreshEnds`, `ImplementsFairBoard`, `LoadEnds`, `SpinnerEnds`,
`SignInEnds`, `EveryPressAnswered`, `ShownInTheEnd` and `ClosingEnds`. For six of them
the safe half, that what is waited for is under way or already done, is a
theorem: `RefreshSafe`, `StuckSafe`, `RequestSafe`, `QuitSafe`, `ShowSafe` and
`MenuProofs`' `SpinnerSafe`.

## 5. Not modelled

* `src/ruby-3.1.4`: the source tree of the Ruby interpreter, with build
  products, that neither the app nor its build refers to. It is by far the
  larger part of the repository's files (over a million lines of C and
  generated tables) and none of this program's behaviour; the modules above
  are about the app and its Windows host.
* The Linux, macOS, iOS and Android runners: straight-line start-up code that
  creates a view and registers plug-ins. The Windows runner is modelled because
  its window and its end are its own code.
* Unbounded growth of the stack (menu and alerts page push each other,
  `menu_page.dart:168`): the code has no bound that could be exceeded, and the
  model's `MaxSlots` is a bound of the model.
* `my_products_page.dart`, `HomePage` with the route `/home`, `setAuthToken`:
  reachable from nowhere.
* Texts, layout, logging; the wording of messages; the contents of the forms.

## 6. Plan

What the plan set out to model is modelled, and its safety properties are
proved. Left, should the code grow there:

1. `getAlerts` is called once per page with a fixed period; a refresh or paging
   would give `AlertList` overlapping loads, as `ProductStatus` has.
2. `setAuthToken` is never called; with a token, sign-out during a call would
   become a question about calls and not only about pages.
3. `WindowsRunner` with a second window (`g_active_window_count` is meant for
   several, the app creates one).
