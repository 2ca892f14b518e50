------------------------------ MODULE Session ------------------------------
(***************************************************************************)
(* The session of every tab of one browser: login, the idle timer, what is *)
(* kept for a reload, and logout.  The tabs share localStorage and the     *)
(* cookie; the session, its timers and sessionStorage are each tab's own.  *)
(*                                                                         *)
(* Wallet.saveLocal keeps the wallet in four steps: a cookie with a fresh  *)
(* random key (here: its number, the seal), the wallet's key encrypted     *)
(* under it, the wallet encrypted under its own key, and a copy in         *)
(* sessionStorage.  Storage errors are swallowed, so a save can stop after *)
(* any of them.  Logging out reloads the page (LOGOUT_WITH_REFRESH).       *)
(***************************************************************************)
EXTENDS Integers

CONSTANTS
  Tab,
  User,
  NoWallet,
  PERSISTENT_SESSION,  \* the option: sessions are kept without being asked to
  IdleTime,            \* the wallet's idleLogoutTime
  Wait,                \* the debounce of act
  MaxTime,             \* bound on the time
  MaxSaves,            \* bound on the calls of saveLocal
  MaxAttempts          \* bound on a tab's logins in flight

(* A version 1 wallet comes from the old recovery page. *)
Wallet == [user : User, version : {1, 2}]

ASSUME SessionAssumption ==
  /\ PERSISTENT_SESSION \in BOOLEAN /\ NoWallet \notin Wallet
  /\ IdleTime \in Nat \ {0} /\ Wait \in Nat \ {0}
  /\ MaxTime \in Nat /\ MaxSaves \in Nat /\ MaxAttempts \in Nat

VARIABLES
  now,
  remember,      \* localStorage.rememberUser
  cookie,        \* localWalletKey: its seal and when it expires
  sealedKey,     \* localStorage.encryptedWalletKey: under which seal, the key of which wallet
  sealedWallet,  \* localStorage.wallet
  saves,         \* calls of saveLocal so far: seals in use
  torn,          \* history variable: the last save stopped half way
  tabWallet,     \* by tab: sessionStorage.wallet
  page,          \* by tab: the page shown; "loading" before the application runs
  wallet,        \* by tab: the session's wallet, NoWallet when not logged in
  listens,       \* by tab: clicks and keys call act
  timer,         \* by tab: when the timer of session.idleTimeout fires
  lost,          \* by tab: when timers fire that no handle names any more
  quiet,         \* by tab: until when act is debounced
  attempts,      \* by tab: logins in flight
  counted,       \* history variable, by tab: the last login or act that counted
  relogin,       \* history variable, by tab: a login came while logged in
  forgot         \* history variable, by tab: another tab has logged out meanwhile

browser == <<remember, cookie, sealedKey, sealedWallet, saves, torn>>
timers == <<timer, lost, counted>>
tab == <<tabWallet, page, wallet, listens, timers, quiet, attempts, relogin, forgot>>
vars == <<now, browser, tab>>

NoCookie == [seal |-> 0, until |-> 0]
NoKey == [seal |-> 0, of |-> NoWallet]
NoTimer == 0
Time == 0..MaxTime
Deadline == 0..MaxTime + IdleTime

TypeOK ==
  /\ now \in Time /\ remember \in BOOLEAN /\ torn \in BOOLEAN
  /\ cookie \in [seal : 0..MaxSaves, until : Deadline]
  /\ sealedKey \in [seal : 0..MaxSaves, of : Wallet \cup {NoWallet}]
  /\ sealedWallet \in Wallet \cup {NoWallet}
  /\ saves \in 0..MaxSaves
  /\ tabWallet \in [Tab -> Wallet \cup {NoWallet}]
  /\ page \in [Tab -> {"loading", "login", "app"}]
  /\ wallet \in [Tab -> Wallet \cup {NoWallet}]
  /\ listens \in [Tab -> BOOLEAN]
  /\ timer \in [Tab -> Deadline] /\ lost \in [Tab -> SUBSET Deadline]
  /\ quiet \in [Tab -> 0..MaxTime + Wait]
  /\ attempts \in [Tab -> 0..MaxAttempts]
  /\ counted \in [Tab -> Time]
  /\ relogin \in [Tab -> BOOLEAN] /\ forgot \in [Tab -> BOOLEAN]

Init ==
  /\ now = 0 /\ remember = FALSE /\ torn = FALSE /\ saves = 0
  /\ cookie = NoCookie /\ sealedKey = NoKey /\ sealedWallet = NoWallet
  /\ tabWallet = [t \in Tab |-> NoWallet] /\ wallet = [t \in Tab |-> NoWallet]
  /\ page = [t \in Tab |-> "loading"]
  /\ listens = [t \in Tab |-> FALSE]
  /\ timer = [t \in Tab |-> NoTimer] /\ lost = [t \in Tab |-> {}]
  /\ quiet = [t \in Tab |-> 0] /\ attempts = [t \in Tab |-> 0]
  /\ counted = [t \in Tab |-> 0]
  /\ relogin = [t \in Tab |-> FALSE] /\ forgot = [t \in Tab |-> FALSE]

-----------------------------------------------------------------------------
(* The wallet's local copies. *)

isPersistent == PERSISTENT_SESSION \/ remember
LoggedIn(t) == wallet[t] # NoWallet

(* saveLocal, of whose four steps the first n take place. *)
SaveSteps(t, w, n) ==
  /\ saves' = saves + 1
  /\ cookie' = IF n > 0 THEN [seal |-> saves + 1, until |-> now + IdleTime] ELSE cookie
  /\ sealedKey' = IF n > 1 THEN [seal |-> saves + 1, of |-> w] ELSE sealedKey
  /\ sealedWallet' = IF n > 2 THEN w ELSE sealedWallet
  /\ tabWallet' = IF n > 3 THEN [tabWallet EXCEPT ![t] = w] ELSE tabWallet
  /\ torn' = (n \in {1, 2} \/ (n = 0 /\ torn))
saveLocal(t, w) == saves < MaxSaves /\ \E n \in 0..4 : SaveSteps(t, w, n)
SavesNothing == UNCHANGED <<cookie, sealedKey, sealedWallet, saves, torn, tabWallet>>

CookieLives == cookie.seal # 0 /\ now < cookie.until

(* bumpLocalTimeout keeps the cookie's value.  Slip: a fresh one. *)
BumpFresh == cookie' = [seal |-> MaxSaves, until |-> now + IdleTime]
Bump == cookie' = [cookie EXCEPT !.until = now + IdleTime]
bumpLocalTimeout == IF CookieLives THEN Bump ELSE UNCHANGED cookie

(* loadLocal: the tab's own copy, or else the one in localStorage, which is  *)
(* tried when its three parts are there and throws unless they fit.          *)
CanAttempt == CookieLives /\ sealedKey.seal # 0 /\ sealedWallet # NoWallet
Fits == cookie.seal = sealedKey.seal /\ sealedKey.of = sealedWallet
LoadThrows(t) == tabWallet[t] = NoWallet /\ CanAttempt /\ ~Fits
Loaded(t) == IF tabWallet[t] # NoWallet THEN tabWallet[t]
             ELSE IF CanAttempt /\ Fits THEN sealedWallet ELSE NoWallet

purgeLocal(t) ==
  /\ cookie' = NoCookie /\ sealedKey' = NoKey /\ sealedWallet' = NoWallet
  /\ tabWallet' = [tabWallet EXCEPT ![t] = NoWallet]

-----------------------------------------------------------------------------
(* The idle timer. *)

(* setIdleTimeout overwrites the handle, whether or not its timer has fired. *)
setIdleTimeout(t) ==
  /\ timer' = [timer EXCEPT ![t] = now + IdleTime]
  /\ lost' = [lost EXCEPT ![t] = @ \cup ({timer[t]} \ {NoTimer})]

(* clearIdleTimeout, then setIdleTimeout.  Slip: the timer is not cancelled. *)
ResetTimerUncancelled(t) == setIdleTimeout(t)
ResetTimer(t) == timer' = [timer EXCEPT ![t] = now + IdleTime] /\ UNCHANGED lost

Counts(t) == counted' = [counted EXCEPT ![t] = now]

(* act, debounced at its leading edge: every call starts the wait again. *)
act(t) ==
  /\ page[t] # "loading" /\ listens[t]
  /\ quiet' = [quiet EXCEPT ![t] = now + Wait]
  /\ IF now >= quiet[t] /\ LoggedIn(t)
     THEN /\ ResetTimer(t) /\ Counts(t)
          /\ IF isPersistent THEN bumpLocalTimeout ELSE UNCHANGED cookie
     ELSE UNCHANGED <<timers, cookie>>
  /\ UNCHANGED <<now, remember, sealedKey, sealedWallet, saves, torn, tabWallet,
                 page, wallet, listens, attempts, relogin, forgot>>

-----------------------------------------------------------------------------
(* Login and logout. *)

(* What login does for the session's end: the wallet is kept, with a cookie *)
(* that expires, or the timer is started.  Slip: that is left to act.       *)
KeepOrLeaveToAct(t, w, persistent) ==
  (IF persistent THEN saveLocal(t, w) ELSE SavesNothing) /\ UNCHANGED <<timer, lost>>
KeepOrWatch(t, w, persistent) ==
  IF persistent THEN saveLocal(t, w) /\ UNCHANGED <<timer, lost>>
                ELSE setIdleTimeout(t) /\ SavesNothing

(* Session.login with wallet w, when isPersistent is persistent. *)
login(t, w, persistent) ==
  /\ wallet' = [wallet EXCEPT ![t] = w]
  /\ KeepOrWatch(t, w, persistent)
  /\ Counts(t)
  /\ relogin' = [relogin EXCEPT ![t] = @ \/ LoggedIn(t)]
  /\ forgot' = [forgot EXCEPT ![t] = FALSE]

(* The page goes away, with its session, its timers and its requests. *)
Unload(t) ==
  /\ page' = [page EXCEPT ![t] = "loading"]
  /\ wallet' = [wallet EXCEPT ![t] = NoWallet]
  /\ listens' = [listens EXCEPT ![t] = FALSE]
  /\ timer' = [timer EXCEPT ![t] = NoTimer] /\ lost' = [lost EXCEPT ![t] = {}]
  /\ quiet' = [quiet EXCEPT ![t] = 0] /\ attempts' = [attempts EXCEPT ![t] = 0]
  /\ relogin' = [relogin EXCEPT ![t] = FALSE]
  /\ UNCHANGED <<now, counted>>

logout(t) ==
  /\ remember' = FALSE /\ purgeLocal(t)
  /\ Unload(t)
  /\ forgot' = [u \in Tab |-> u # t /\ (forgot[u] \/ LoggedIn(u))]
  /\ UNCHANGED <<saves, torn>>

IdleTimeout(t) == now \in ({timer[t]} \ {NoTimer}) \cup lost[t] /\ logout(t)

(* The login pages: a login is asked for; its answer brings a wallet.  The  *)
(* user has chosen to be remembered or not; the old recovery page has no    *)
(* such choice and logs in with a version 1 wallet.                         *)
AskLogin(t) ==
  /\ page[t] = "login" /\ attempts[t] < MaxAttempts
  /\ attempts' = [attempts EXCEPT ![t] = @ + 1]
  /\ UNCHANGED <<now, browser, tabWallet, page, wallet, listens, timers, quiet, relogin, forgot>>

Answered(t) == page[t] # "loading" /\ attempts[t] > 0 /\ attempts' = [attempts EXCEPT ![t] = @ - 1]

LoginAnswer(t, w, rememberMe) ==
  /\ Answered(t)
  /\ rememberMe => w.version = 2
  /\ remember' = (remember \/ rememberMe)
  /\ login(t, w, isPersistent \/ rememberMe)
  /\ page' = [page EXCEPT ![t] = "app"]
  /\ UNCHANGED <<now, listens, quiet>>

LoginFails(t) ==
  /\ Answered(t)
  /\ UNCHANGED <<now, browser, tabWallet, page, wallet, listens, timers, quiet, relogin, forgot>>

(* syncWallet's answer.  Slip: the wallet is saved in any case. *)
SavesAlways(t) == saveLocal(t, wallet[t])
SavesIfPersistent(t) == IF isPersistent THEN saveLocal(t, wallet[t]) ELSE SavesNothing
syncWallet(t) ==
  /\ LoggedIn(t) /\ SavesIfPersistent(t)
  /\ UNCHANGED <<now, remember, page, wallet, listens, timers, quiet, attempts, relogin, forgot>>

-----------------------------------------------------------------------------
(* $stateChangeStart: target "login" stands for the states without           *)
(* authentication, "app" for those with.                                     *)

Show(t, target) == page' = [page EXCEPT ![t] = target]
KeepsSession == UNCHANGED <<wallet, timers, relogin, forgot>>

(* Not logged in: from storage, if the session is persistent.  What loadLocal *)
(* throws leaves the handler, and the transition takes its course.            *)
FromStorage(t, target) ==
  /\ isPersistent /\ Loaded(t) # NoWallet /\ ~LoadThrows(t)
  /\ login(t, Loaded(t), TRUE) /\ Show(t, target)
BrokenStorage(t, target) ==
  /\ isPersistent /\ LoadThrows(t)
  /\ purgeLocal(t) /\ Show(t, target)
  /\ KeepsSession /\ UNCHANGED <<saves, torn>>
NothingStored(t) ==
  /\ ~isPersistent \/ (Loaded(t) = NoWallet /\ ~LoadThrows(t))
  /\ Show(t, "login")
  /\ KeepsSession /\ SavesNothing
Enter(t, target) ==
  /\ ~LoggedIn(t)
  /\ FromStorage(t, target) \/ BrokenStorage(t, target) \/ NothingStored(t)
  /\ UNCHANGED <<now, remember, quiet, attempts>>

(* The application starts: AppCtrl listens to the user unless the session is  *)
(* persistent at this time.                                                   *)
Load(t, target) ==
  /\ page[t] = "loading"
  /\ listens' = [listens EXCEPT ![t] = ~isPersistent]
  /\ Enter(t, target)

Navigate(t, target) ==
  /\ page[t] # "loading" /\ Enter(t, target) /\ UNCHANGED listens
NavigateLoggedIn(t) ==
  /\ page[t] = "login" /\ LoggedIn(t) /\ Show(t, "app")
  /\ UNCHANGED <<now, browser, tabWallet, wallet, listens, timers, quiet, attempts, relogin, forgot>>
NavigateToLogout(t) == LoggedIn(t) /\ logout(t)

(* The user reloads the page, or opens it in a new tab instead. *)
Reload(t) ==
  /\ page[t] # "loading" /\ Unload(t)
  /\ forgot' = [forgot EXCEPT ![t] = FALSE]
  /\ tabWallet' \in {tabWallet, [tabWallet EXCEPT ![t] = NoWallet]}
  /\ UNCHANGED browser

(* Timers fire when they are due. *)
Tick ==
  /\ now < MaxTime /\ now' = now + 1
  /\ \A t \in Tab : timer[t] # now /\ now \notin lost[t]
  /\ UNCHANGED <<browser, tab>>

TabNext(t) ==
  \/ act(t) \/ AskLogin(t) \/ LoginFails(t) \/ syncWallet(t)
  \/ \E w \in Wallet, rememberMe \in BOOLEAN : LoginAnswer(t, w, rememberMe)
  \/ \E target \in {"login", "app"} : Load(t, target) \/ Navigate(t, target)
  \/ NavigateLoggedIn(t) \/ NavigateToLogout(t) \/ IdleTimeout(t) \/ Reload(t)

Next == Tick \/ \E t \in Tab : TabNext(t)

Spec == Init /\ [][Next]_vars

-----------------------------------------------------------------------------
(* Once a session is not to be kept, whichever tab said so, nothing of a     *)
(* wallet is left in the cookie and localStorage: logout purges them and no  *)
(* tab that is still logged in saves its wallet again (session.js 126-153).  *)
ForgottenIsPurged ==
  ~isPersistent => cookie = NoCookie /\ sealedKey = NoKey /\ sealedWallet = NoWallet

(* A logged-in tab without an idle timer has its session kept, or had until  *)
(* another tab logged out: login starts the timer exactly when it does not   *)
(* save (session.js 70-74), and remembering is taken back only by a logout.  *)
UnwatchedIsKept ==
  \A t \in Tab : LoggedIn(t) /\ timer[t] = NoTimer => isPersistent \/ forgot[t]

(* localStorage can only fail to open when the last save stopped half way:   *)
(* bumps and saves of several tabs, purges and expiry leave the cookie, the  *)
(* wallet's key and the wallet fitting each other (wallet.js 298-321).       *)
OnlyTornSavesFail == CanAttempt /\ ~Fits => torn

(* Nobody is logged out as idle within IdleTime of the last login or the last *)
(* activity that was counted, unless a second login overwrote the handle of  *)
(* the first one's timer (session.js 26-51).                                 *)
IdleLogoutIsIdle ==
  [][\A t \in Tab : IdleTimeout(t) => relogin[t] \/ counted[t] + IdleTime <= now]_vars

=============================================================================
