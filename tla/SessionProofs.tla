--------------------------- MODULE SessionProofs ---------------------------
(***************************************************************************)
(* What the run of Session checks for two tabs and one user, proved for    *)
(* any number of tabs and users, any times and either PERSISTENT_SESSION.  *)
(***************************************************************************)
EXTENDS Session, TLAPS

(* The type invariant in three parts: what the browser keeps, the timers,   *)
(* and the rest of each tab.                                                *)
StorageOK ==
  /\ cookie \in [seal : 0..MaxSaves, until : Deadline]
  /\ sealedKey \in [seal : 0..MaxSaves, of : Wallet \cup {NoWallet}]
  /\ sealedWallet \in Wallet \cup {NoWallet}
  /\ saves \in 0..MaxSaves /\ torn \in BOOLEAN
  /\ tabWallet \in [Tab -> Wallet \cup {NoWallet}]

TimersOK ==
  /\ timer \in [Tab -> Deadline] /\ lost \in [Tab -> SUBSET Deadline]
  /\ counted \in [Tab -> Time]

TabsOK ==
  /\ remember \in BOOLEAN
  /\ page \in [Tab -> {"loading", "login", "app"}]
  /\ wallet \in [Tab -> Wallet \cup {NoWallet}]
  /\ listens \in [Tab -> BOOLEAN]
  /\ quiet \in [Tab -> 0..MaxTime + Wait]
  /\ attempts \in [Tab -> 0..MaxAttempts]
  /\ relogin \in [Tab -> BOOLEAN] /\ forgot \in [Tab -> BOOLEAN]

LEMMA TypeParts == TypeOK <=> now \in Time /\ StorageOK /\ TimersOK /\ TabsOK
BY DEF TypeOK, StorageOK, TimersOK, TabsOK

LEMMA TypePartsNext == TypeOK' <=> now' \in Time /\ StorageOK' /\ TimersOK' /\ TabsOK'
BY DEF TypeOK, StorageOK, TimersOK, TabsOK

LEMMA Times ==
  ASSUME now \in Time
  PROVE  /\ now \in Nat /\ now + IdleTime \in Deadline /\ now + IdleTime # NoTimer
         /\ NoTimer \in Deadline /\ 0 \in Deadline /\ now + Wait \in 0..MaxTime + Wait
         /\ 0 \in 0..MaxTime + Wait
BY SessionAssumption DEF Time, Deadline, NoTimer

(* What login, act, logout and a reload do to storage and timers keeps the  *)
(* types.                                                                   *)
LEMMA SaveTyped ==
  ASSUME now \in Time, StorageOK, NEW t \in Tab, NEW w \in Wallet, saveLocal(t, w)
  PROVE  StorageOK'
<1>1. PICK n \in 0..4 : SaveSteps(t, w, n)
  BY DEF saveLocal
<1>2. saves + 1 \in 0..MaxSaves /\ saves' = saves + 1
  BY <1>1, SessionAssumption DEF saveLocal, StorageOK, SaveSteps
<1>3. cookie' \in [seal : 0..MaxSaves, until : Deadline]
  BY <1>1, <1>2, Times DEF StorageOK, SaveSteps
<1>4. sealedKey' \in [seal : 0..MaxSaves, of : Wallet \cup {NoWallet}]
  BY <1>1, <1>2 DEF StorageOK, SaveSteps
<1>5. /\ sealedWallet' \in Wallet \cup {NoWallet}
      /\ tabWallet' \in [Tab -> Wallet \cup {NoWallet}]
  BY <1>1 DEF StorageOK, SaveSteps
<1>6. torn' \in BOOLEAN
  BY <1>1 DEF StorageOK, SaveSteps
<1> QED
  BY <1>2, <1>3, <1>4, <1>5, <1>6 DEF StorageOK

LEMMA PurgeTyped ==
  ASSUME now \in Time, StorageOK, NEW t \in Tab, purgeLocal(t), UNCHANGED <<saves, torn>>
  PROVE  StorageOK'
<1>1. 0 \in 0..MaxSaves
  BY SessionAssumption
<1> QED
  BY <1>1, Times DEF StorageOK, purgeLocal, NoCookie, NoKey

LEMMA BumpTyped ==
  ASSUME now \in Time, StorageOK, bumpLocalTimeout
  PROVE  cookie' \in [seal : 0..MaxSaves, until : Deadline]
BY Times DEF StorageOK, bumpLocalTimeout, Bump

LEMMA LoadedIsWallet ==
  ASSUME StorageOK, NEW t \in Tab, Loaded(t) # NoWallet
  PROVE  Loaded(t) \in Wallet
BY DEF StorageOK, Loaded

LEMMA SetTimerTyped ==
  ASSUME now \in Time, TimersOK, NEW t \in Tab, setIdleTimeout(t) \/ ResetTimer(t)
  PROVE  timer' \in [Tab -> Deadline] /\ lost' \in [Tab -> SUBSET Deadline]
<1>1. CASE setIdleTimeout(t)
  <2>1. lost[t] \cup ({timer[t]} \ {NoTimer}) \in SUBSET Deadline
    BY DEF TimersOK
  <2> QED
    BY <1>1, <2>1, Times DEF TimersOK, setIdleTimeout
<1>2. CASE ResetTimer(t)
  BY <1>2, Times DEF TimersOK, ResetTimer
<1> QED
  BY <1>1, <1>2

LEMMA CountsTyped ==
  ASSUME now \in Time, TimersOK, NEW t \in Tab, Counts(t)
  PROVE  counted' \in [Tab -> Time]
BY DEF TimersOK, Counts

LEMMA LoginTyped ==
  ASSUME TypeOK, NEW t \in Tab, NEW w \in Wallet, NEW p \in BOOLEAN, login(t, w, p)
  PROVE  /\ StorageOK' /\ TimersOK'
         /\ wallet' \in [Tab -> Wallet \cup {NoWallet}]
         /\ relogin' \in [Tab -> BOOLEAN] /\ forgot' \in [Tab -> BOOLEAN]
<1>1. now \in Time /\ StorageOK /\ TimersOK /\ TabsOK
  BY TypeParts
<1>2. CASE p
  <2>1. saveLocal(t, w) /\ UNCHANGED <<timer, lost>>
    BY <1>2 DEF login, KeepOrWatch
  <2>2. StorageOK'
    BY <1>1, <2>1, SaveTyped
  <2>3. TimersOK'
    BY <1>1, <2>1, CountsTyped DEF TimersOK, login
  <2> QED
    BY <1>1, <2>2, <2>3 DEF login, TabsOK
<1>3. CASE ~p
  <2>1. setIdleTimeout(t) /\ SavesNothing
    BY <1>3 DEF login, KeepOrWatch
  <2>2. StorageOK'
    BY <1>1, <2>1 DEF StorageOK, SavesNothing
  <2>3. TimersOK'
    BY <1>1, <2>1, CountsTyped, SetTimerTyped DEF TimersOK, login
  <2> QED
    BY <1>1, <2>2, <2>3 DEF login, TabsOK
<1> QED
  BY <1>2, <1>3

LEMMA UnloadTyped ==
  ASSUME TypeOK, NEW t \in Tab, Unload(t)
  PROVE  /\ now' \in Time /\ TimersOK'
         /\ page' \in [Tab -> {"loading", "login", "app"}]
         /\ wallet' \in [Tab -> Wallet \cup {NoWallet}]
         /\ listens' \in [Tab -> BOOLEAN]
         /\ quiet' \in [Tab -> 0..MaxTime + Wait]
         /\ attempts' \in [Tab -> 0..MaxAttempts]
         /\ relogin' \in [Tab -> BOOLEAN]
<1>1. now \in Time /\ TimersOK /\ TabsOK
  BY TypeParts
<1>2. 0 \in 0..MaxAttempts
  BY SessionAssumption
<1>3. TimersOK'
  BY <1>1, Times DEF Unload, TimersOK
<1> QED
  BY <1>1, <1>2, <1>3, Times DEF Unload, TabsOK

LEMMA LogoutTyped ==
  ASSUME TypeOK, NEW t \in Tab, logout(t)
  PROVE  TypeOK'
<1>1. now \in Time /\ StorageOK /\ TabsOK
  BY TypeParts
<1>2. StorageOK'
  BY <1>1, PurgeTyped DEF logout
<1>3. forgot' \in [Tab -> BOOLEAN] /\ remember' \in BOOLEAN
  BY <1>1 DEF logout, TabsOK
<1>4. Unload(t)
  BY DEF logout
<1>5. TabsOK' /\ TimersOK' /\ now' \in Time
  BY <1>3, <1>4, UnloadTyped DEF TabsOK
<1> QED
  BY <1>2, <1>5, TypePartsNext

LEMMA EnterTyped ==
  ASSUME TypeOK, NEW t \in Tab, NEW target \in {"login", "app"}, Enter(t, target),
         listens' \in [Tab -> BOOLEAN]
  PROVE  TypeOK'
<1>1. now \in Time /\ StorageOK /\ TimersOK /\ TabsOK
  BY TypeParts
<1>2. UNCHANGED <<now, remember, quiet, attempts>>
  BY DEF Enter
<1>3. CASE FromStorage(t, target)
  <2>1. Loaded(t) \in Wallet /\ login(t, Loaded(t), TRUE) /\ Show(t, target)
    BY <1>1, <1>3, LoadedIsWallet DEF FromStorage
  <2> QED
    BY <1>1, <1>2, <2>1, LoginTyped, TypePartsNext DEF TabsOK, Show
<1>4. CASE BrokenStorage(t, target)
  <2>1. StorageOK'
    BY <1>1, <1>4, PurgeTyped DEF BrokenStorage
  <2> QED
    BY <1>1, <1>2, <1>4, <2>1, TypePartsNext
    DEF BrokenStorage, KeepsSession, TabsOK, TimersOK, timers, Show
<1>5. CASE NothingStored(t)
  BY <1>1, <1>2, <1>5, TypePartsNext
  DEF NothingStored, KeepsSession, SavesNothing, StorageOK, TabsOK, TimersOK, timers, Show
<1> QED
  BY <1>3, <1>4, <1>5 DEF Enter

LEMMA InitTyped == Init => TypeOK
<1> SUFFICES ASSUME Init PROVE TypeOK
  OBVIOUS
<1>1. 0 \in Time /\ 0 \in 0..MaxSaves /\ 0 \in Deadline /\ 0 \in 0..MaxTime + Wait /\ 0 \in 0..MaxAttempts
  BY SessionAssumption DEF Time, Deadline
<1> QED
  BY <1>1 DEF Init, TypeOK, NoCookie, NoKey, NoTimer

LEMMA NextTyped == TypeOK /\ [Next]_vars => TypeOK'
<1> SUFFICES ASSUME TypeOK, [Next]_vars PROVE TypeOK'
  OBVIOUS
<1>1. now \in Time /\ StorageOK /\ TimersOK /\ TabsOK
  BY TypeParts
<1>2. CASE Tick
  <2>1. now' \in Time
    BY <1>1, <1>2, SessionAssumption DEF Tick, Time
  <2> QED
    BY <1>1, <1>2, <2>1 DEF Tick, browser, tab, timers, TypeOK
<1>3. ASSUME NEW t \in Tab, act(t) PROVE TypeOK'
  <2>1. cookie' \in [seal : 0..MaxSaves, until : Deadline]
    BY <1>1, <1>3, BumpTyped DEF act, StorageOK
  <2>2. TimersOK'
    BY <1>1, <1>3, CountsTyped, SetTimerTyped DEF act, TimersOK, timers
  <2>3. quiet' \in [Tab -> 0..MaxTime + Wait]
    BY <1>1, <1>3, Times DEF act, TabsOK
  <2> QED
    BY <1>1, <1>3, <2>1, <2>2, <2>3, TypePartsNext DEF act, StorageOK, TabsOK
<1>4. ASSUME NEW t \in Tab, AskLogin(t) PROVE TypeOK'
  <2>1. attempts' \in [Tab -> 0..MaxAttempts]
    BY <1>1, <1>4, SessionAssumption DEF AskLogin, TabsOK
  <2> QED
    BY <1>4, <2>1 DEF AskLogin, browser, timers, TypeOK
<1>5. ASSUME NEW t \in Tab, Answered(t) PROVE attempts' \in [Tab -> 0..MaxAttempts]
  BY <1>1, <1>5, SessionAssumption DEF Answered, TabsOK
<1>6. ASSUME NEW t \in Tab, LoginFails(t) PROVE TypeOK'
  BY <1>5, <1>6 DEF LoginFails, browser, timers, TypeOK
<1>7. ASSUME NEW t \in Tab, NEW w \in Wallet, NEW rememberMe \in BOOLEAN,
             LoginAnswer(t, w, rememberMe)
      PROVE  TypeOK'
  <2>1. (isPersistent \/ rememberMe) \in BOOLEAN /\ login(t, w, isPersistent \/ rememberMe)
    BY <1>7 DEF LoginAnswer, isPersistent
  <2>2. remember' \in BOOLEAN /\ now' = now /\ UNCHANGED <<listens, quiet>>
    BY <1>1, <1>7 DEF LoginAnswer, TabsOK
  <2>3. page' \in [Tab -> {"loading", "login", "app"}]
    BY <1>1, <1>7 DEF LoginAnswer, TabsOK
  <2> QED
    BY <1>1, <1>5, <1>7, <2>1, <2>2, <2>3, LoginTyped, TypePartsNext DEF LoginAnswer, TabsOK
<1>8. ASSUME NEW t \in Tab, syncWallet(t) PROVE TypeOK'
  <2>1. wallet[t] \in Wallet
    BY <1>1, <1>8 DEF syncWallet, LoggedIn, TabsOK
  <2>2. StorageOK'
    BY <1>1, <1>8, <2>1, SaveTyped DEF syncWallet, SavesIfPersistent, SavesNothing, StorageOK
  <2> QED
    BY <1>1, <1>8, <2>2, TypePartsNext DEF syncWallet, TabsOK, TimersOK, timers
<1>9. ASSUME NEW t \in Tab, NEW target \in {"login", "app"},
             Load(t, target) \/ Navigate(t, target)
      PROVE  TypeOK'
  <2>1. listens' \in [Tab -> BOOLEAN]
    BY <1>1, <1>9 DEF Load, Navigate, TabsOK, isPersistent
  <2> QED
    BY <1>9, <2>1, EnterTyped DEF Load, Navigate
<1>10. ASSUME NEW t \in Tab, NavigateLoggedIn(t) PROVE TypeOK'
  BY <1>1, <1>10 DEF NavigateLoggedIn, Show, browser, timers, TypeOK
<1>11. ASSUME NEW t \in Tab, NavigateToLogout(t) \/ IdleTimeout(t) PROVE TypeOK'
  BY <1>11, LogoutTyped DEF NavigateToLogout, IdleTimeout
<1>12. ASSUME NEW t \in Tab, Reload(t) PROVE TypeOK'
  <2>1. tabWallet' \in [Tab -> Wallet \cup {NoWallet}]
    BY <1>1, <1>12 DEF Reload, StorageOK
  <2>2. StorageOK' /\ remember' \in BOOLEAN
    BY <1>1, <1>12, <2>1 DEF Reload, browser, StorageOK, TabsOK
  <2>3. forgot' \in [Tab -> BOOLEAN]
    BY <1>1, <1>12 DEF Reload, TabsOK
  <2>4. Unload(t)
    BY <1>12 DEF Reload
  <2>5. TabsOK' /\ TimersOK' /\ now' \in Time
    BY <2>2, <2>3, <2>4, UnloadTyped DEF TabsOK
  <2> QED
    BY <2>2, <2>5, TypePartsNext
<1>13. CASE UNCHANGED vars
  BY <1>13 DEF vars, browser, tab, timers, TypeOK
<1> QED
  BY <1>2, <1>3, <1>4, <1>6, <1>7, <1>8, <1>9, <1>10, <1>11, <1>12, <1>13 DEF Next, TabNext

(* Every variable of every tab stays in its type. *)
THEOREM Typing == Spec => []TypeOK
<1> QED
  BY InitTyped, NextTyped, PTL DEF Spec

-----------------------------------------------------------------------------
(* What a step does to the wallet that the browser keeps: nothing, moving   *)
(* the cookie's expiry, a save, each while the session is to be kept, or a  *)
(* purge.                                                                   *)
Saves ==
  UNCHANGED <<cookie, sealedKey, sealedWallet, torn>> \/ torn' = TRUE \/ Fits'
Purges ==
  cookie' = NoCookie /\ sealedKey' = NoKey /\ sealedWallet' = NoWallet
StorageStep ==
  /\ now \in Nat /\ now' \in Nat /\ now <= now'
  /\ \/ /\ isPersistent => isPersistent'
        /\ \/ UNCHANGED <<cookie, sealedKey, sealedWallet, torn>>
           \/ isPersistent /\ bumpLocalTimeout /\ UNCHANGED <<sealedKey, sealedWallet, torn>>
           \/ isPersistent' /\ Saves
     \/ Purges

LEMMA SaveIsStep ==
  ASSUME StorageOK, NEW t \in Tab, NEW w \in Wallet, saveLocal(t, w)
  PROVE  Saves
<1>1. PICK n \in 0..4 : SaveSteps(t, w, n)
  BY DEF saveLocal
<1>2. CASE n = 0
  <2>1. UNCHANGED <<cookie, sealedKey, sealedWallet>> /\ torn' = torn
    BY <1>1, <1>2 DEF SaveSteps, StorageOK
  <2> QED
    BY <2>1 DEF Saves
<1>3. CASE n \in {1, 2}
  BY <1>1, <1>3 DEF SaveSteps, Saves
<1>4. CASE n \in {3, 4}
  BY <1>1, <1>4 DEF SaveSteps, Saves, Fits
<1> QED
  BY <1>2, <1>3, <1>4

LEMMA StepOnStorage == TypeOK /\ [Next]_vars => StorageStep
<1> SUFFICES ASSUME TypeOK, [Next]_vars PROVE StorageStep
  OBVIOUS
<1>1. now \in Nat /\ StorageOK /\ TabsOK
  BY TypeParts, Times
<1>2. CASE Tick
  BY <1>1, <1>2 DEF Tick, browser, StorageStep, isPersistent
<1>3. ASSUME NEW t \in Tab, act(t) PROVE StorageStep
  BY <1>1, <1>3 DEF act, StorageStep, isPersistent
<1>4. ASSUME NEW t \in Tab, AskLogin(t) \/ LoginFails(t) \/ NavigateLoggedIn(t) PROVE StorageStep
  BY <1>1, <1>4 DEF AskLogin, LoginFails, NavigateLoggedIn, browser, StorageStep, isPersistent
<1>5. ASSUME NEW t \in Tab, NEW w \in Wallet, NEW rememberMe \in BOOLEAN,
             LoginAnswer(t, w, rememberMe)
      PROVE  StorageStep
  <2>1. (isPersistent \/ rememberMe) \in BOOLEAN /\ login(t, w, isPersistent \/ rememberMe)
    BY <1>5 DEF LoginAnswer, isPersistent
  <2>2. /\ isPersistent => isPersistent'
        /\ isPersistent \/ rememberMe => isPersistent'
        /\ now' = now
    BY <1>1, <1>5 DEF LoginAnswer, isPersistent, TabsOK
  <2>3. CASE isPersistent \/ rememberMe
    <3>1. saveLocal(t, w)
      BY <2>1, <2>3 DEF login, KeepOrWatch
    <3> QED
      BY <1>1, <2>2, <2>3, <3>1, SaveIsStep DEF StorageStep
  <2>4. CASE ~(isPersistent \/ rememberMe)
    BY <1>1, <2>1, <2>2, <2>4 DEF login, KeepOrWatch, SavesNothing, StorageStep
  <2> QED
    BY <2>3, <2>4
<1>6. ASSUME NEW t \in Tab, syncWallet(t) PROVE StorageStep
  <2>1. wallet[t] \in Wallet
    BY <1>1, <1>6 DEF syncWallet, LoggedIn, TabsOK
  <2> QED
    BY <1>1, <1>6, <2>1, SaveIsStep
    DEF syncWallet, SavesIfPersistent, SavesNothing, StorageStep, isPersistent
<1>7. ASSUME NEW t \in Tab, NEW target \in {"login", "app"}, Enter(t, target)
      PROVE  StorageStep
  <2>1. isPersistent' = isPersistent /\ now' = now
    BY <1>7 DEF Enter, isPersistent
  <2>2. CASE FromStorage(t, target)
    <3>1. Loaded(t) \in Wallet /\ login(t, Loaded(t), TRUE) /\ isPersistent
      BY <1>1, <2>2, LoadedIsWallet DEF FromStorage
    <3>2. saveLocal(t, Loaded(t))
      BY <3>1 DEF login, KeepOrWatch
    <3> QED
      BY <1>1, <2>1, <3>1, <3>2, SaveIsStep DEF StorageStep
  <2>3. CASE BrokenStorage(t, target)
    BY <1>1, <2>1, <2>3 DEF BrokenStorage, purgeLocal, Purges, StorageStep
  <2>4. CASE NothingStored(t)
    BY <1>1, <2>1, <2>4 DEF NothingStored, SavesNothing, StorageStep
  <2> QED
    BY <1>7, <2>2, <2>3, <2>4 DEF Enter
<1>8. ASSUME NEW t \in Tab, NEW target \in {"login", "app"},
             Load(t, target) \/ Navigate(t, target)
      PROVE  StorageStep
  BY <1>7, <1>8 DEF Load, Navigate
<1>9. ASSUME NEW t \in Tab, logout(t) PROVE StorageStep
  BY <1>1, <1>9 DEF logout, Unload, purgeLocal, Purges, StorageStep
<1>10. ASSUME NEW t \in Tab, NavigateToLogout(t) \/ IdleTimeout(t) PROVE StorageStep
  BY <1>9, <1>10 DEF NavigateToLogout, IdleTimeout
<1>11. ASSUME NEW t \in Tab, Reload(t) PROVE StorageStep
  BY <1>1, <1>11 DEF Reload, Unload, browser, StorageStep, isPersistent
<1>12. CASE UNCHANGED vars
  BY <1>1, <1>12 DEF vars, browser, StorageStep, isPersistent
<1> QED
  BY <1>2, <1>3, <1>4, <1>5, <1>6, <1>8, <1>10, <1>11, <1>12 DEF Next, TabNext

LEMMA StepPurges ==
  ForgottenIsPurged /\ StorageStep => ForgottenIsPurged'
BY DEF ForgottenIsPurged, StorageStep, Purges

(* Nothing of a wallet is left where it is not to be kept.                  *)
THEOREM Purged == Spec => []ForgottenIsPurged
<1>1. Init => ForgottenIsPurged
  BY DEF Init, ForgottenIsPurged
<1> QED
  BY <1>1, Typing, StepOnStorage, StepPurges, PTL DEF Spec

LEMMA StepFits ==
  OnlyTornSavesFail /\ StorageOK /\ StorageStep => OnlyTornSavesFail'
<1> SUFFICES ASSUME OnlyTornSavesFail, StorageOK, StorageStep, CanAttempt', ~Fits'
             PROVE  torn' = TRUE
  BY DEF OnlyTornSavesFail
<1>1. CASE UNCHANGED <<cookie, sealedKey, sealedWallet, torn>>
  <2>1. CanAttempt /\ ~Fits
    BY <1>1 DEF StorageStep, StorageOK, Deadline, CanAttempt, CookieLives, Fits
  <2> QED
    BY <1>1, <2>1 DEF OnlyTornSavesFail, StorageOK
<1>2. CASE bumpLocalTimeout /\ UNCHANGED <<sealedKey, sealedWallet, torn>>
  <2>1. CookieLives /\ cookie'.seal = cookie.seal
    BY <1>2 DEF StorageStep, StorageOK, Deadline, bumpLocalTimeout, Bump, CanAttempt, CookieLives
  <2>2. CanAttempt /\ ~Fits
    BY <1>2, <2>1 DEF CanAttempt, Fits
  <2> QED
    BY <1>2, <2>2 DEF OnlyTornSavesFail, StorageOK
<1>3. CASE Purges
  BY <1>3 DEF Purges, CanAttempt, CookieLives, NoCookie
<1> QED
  BY <1>1, <1>2, <1>3 DEF StorageStep, Saves

(* What is kept opens, unless its last save stopped half way.               *)
THEOREM Openable == Spec => []OnlyTornSavesFail
<1>1. Init => OnlyTornSavesFail
  BY DEF Init, OnlyTornSavesFail, CanAttempt, CookieLives, NoCookie
<1> QED
  BY <1>1, Typing, StepOnStorage, StepFits, TypeParts, PTL DEF Spec

-----------------------------------------------------------------------------
(* What a step does to the session and the timers of tab u: nothing, a      *)
(* logout of another tab, an act that counts, a login that is kept or       *)
(* watched, or the end of the page.                                         *)
SameTimers(u) == timer'[u] = timer[u] /\ lost'[u] = lost[u]
StaysPut(u) ==
  /\ wallet'[u] = wallet[u] /\ SameTimers(u)
  /\ counted'[u] = counted[u] /\ relogin'[u] = relogin[u]
ActCounts(u) ==
  /\ LoggedIn(u) /\ wallet'[u] = wallet[u] /\ relogin'[u] = relogin[u] /\ forgot'[u] = forgot[u]
  /\ timer'[u] = now + IdleTime /\ lost'[u] = lost[u] /\ counted'[u] = now
LogsIn(u) ==
  /\ wallet'[u] # NoWallet /\ counted'[u] = now
  /\ relogin'[u] = (relogin[u] \/ LoggedIn(u)) /\ forgot'[u] = FALSE
  /\ \/ isPersistent' /\ SameTimers(u)
     \/ timer'[u] = now + IdleTime /\ lost'[u] = lost[u] \cup ({timer[u]} \ {NoTimer})
Unloads(u) ==
  wallet'[u] = NoWallet /\ timer'[u] = NoTimer /\ lost'[u] = {} /\ relogin'[u] = FALSE
TabStep(u) ==
  \/ /\ isPersistent => isPersistent'
     /\ (StaysPut(u) /\ forgot'[u] = forgot[u]) \/ ActCounts(u) \/ LogsIn(u)
  \/ StaysPut(u) /\ forgot'[u] = (forgot[u] \/ LoggedIn(u))
  \/ Unloads(u)

LEMMA LoginIsTabStep ==
  ASSUME TypeOK, NEW t \in Tab, NEW w \in Wallet, NEW p, login(t, w, p),
         p => isPersistent', NEW u \in Tab
  PROVE  IF u = t THEN LogsIn(u) ELSE StaysPut(u) /\ forgot'[u] = forgot[u]
<1>1. StorageOK /\ TimersOK /\ TabsOK /\ w # NoWallet
  BY TypeParts, SessionAssumption
<1>2. /\ IF u = t THEN wallet'[u] = w /\ counted'[u] = now /\ forgot'[u] = FALSE
                       /\ relogin'[u] = (relogin[u] \/ LoggedIn(u))
                  ELSE wallet'[u] = wallet[u] /\ counted'[u] = counted[u]
                       /\ forgot'[u] = forgot[u] /\ relogin'[u] = relogin[u]
  BY <1>1 DEF login, Counts, TabsOK, TimersOK, LoggedIn
<1>3. CASE p
  <2>1. UNCHANGED <<timer, lost>>
    BY <1>3 DEF login, KeepOrWatch
  <2> QED
    BY <1>1, <1>2, <1>3, <2>1 DEF LogsIn, StaysPut, SameTimers
<1>4. CASE ~p
  <2>1. setIdleTimeout(t)
    BY <1>4 DEF login, KeepOrWatch
  <2>2. IF u = t THEN /\ timer'[u] = now + IdleTime
                      /\ lost'[u] = lost[u] \cup ({timer[u]} \ {NoTimer})
                 ELSE timer'[u] = timer[u] /\ lost'[u] = lost[u]
    BY <1>1, <2>1 DEF setIdleTimeout, TimersOK
  <2> QED
    BY <1>1, <1>2, <2>2 DEF LogsIn, StaysPut, SameTimers
<1> QED
  BY <1>3, <1>4

LEMMA UnloadIsTabStep ==
  ASSUME TypeOK, NEW t \in Tab, Unload(t), NEW u \in Tab
  PROVE  IF u = t THEN Unloads(u) ELSE StaysPut(u)
BY TypeParts DEF Unload, Unloads, StaysPut, SameTimers, TabsOK, TimersOK

LEMMA StepOnTab ==
  ASSUME TypeOK, [Next]_vars, NEW u \in Tab
  PROVE  TabStep(u)
<1>1. StorageOK /\ TimersOK /\ TabsOK
  BY TypeParts
<1>2. CASE UNCHANGED <<remember, wallet, timers, relogin, forgot>>
  BY <1>2 DEF TabStep, StaysPut, SameTimers, timers, isPersistent
<1>3. ASSUME NEW t \in Tab, act(t) PROVE TabStep(u)
  <2>1. CASE now >= quiet[t] /\ LoggedIn(t) /\ u = t
    BY <1>1, <1>3, <2>1
    DEF act, ResetTimer, Counts, TabStep, ActCounts, isPersistent, TimersOK
  <2>2. CASE ~(now >= quiet[t] /\ LoggedIn(t) /\ u = t)
    BY <1>1, <1>3, <2>2
    DEF act, ResetTimer, Counts, TabStep, StaysPut, SameTimers, timers, isPersistent, TimersOK
  <2> QED
    BY <2>1, <2>2
<1>4. ASSUME NEW t \in Tab, NEW w \in Wallet, NEW rememberMe \in BOOLEAN,
             LoginAnswer(t, w, rememberMe)
      PROVE  TabStep(u)
  <2>1. /\ login(t, w, isPersistent \/ rememberMe)
        /\ isPersistent \/ rememberMe => isPersistent'
        /\ isPersistent => isPersistent'
    BY <1>1, <1>4 DEF LoginAnswer, isPersistent, TabsOK
  <2> QED
    BY <2>1, LoginIsTabStep DEF TabStep
<1>5. ASSUME NEW t \in Tab, NEW target \in {"login", "app"}, Enter(t, target)
      PROVE  TabStep(u)
  <2>1. isPersistent' = isPersistent
    BY <1>5 DEF Enter, isPersistent
  <2>2. CASE FromStorage(t, target)
    <3>1. Loaded(t) \in Wallet /\ login(t, Loaded(t), TRUE) /\ isPersistent'
      BY <1>1, <2>1, <2>2, LoadedIsWallet DEF FromStorage
    <3> QED
      BY <2>1, <3>1, LoginIsTabStep DEF TabStep
  <2>3. CASE BrokenStorage(t, target) \/ NothingStored(t)
    BY <2>1, <2>3 DEF BrokenStorage, NothingStored, KeepsSession, TabStep, StaysPut,
                      SameTimers, timers
  <2> QED
    BY <1>5, <2>2, <2>3 DEF Enter
<1>6. ASSUME NEW t \in Tab, logout(t) PROVE TabStep(u)
  <2>1. Unload(t) /\ (u # t => forgot'[u] = (forgot[u] \/ LoggedIn(u)))
    BY <1>6 DEF logout
  <2> QED
    BY <2>1, UnloadIsTabStep DEF TabStep
<1>7. ASSUME NEW t \in Tab, Reload(t) PROVE TabStep(u)
  <2>1. Unload(t) /\ (u # t => forgot'[u] = forgot[u]) /\ isPersistent' = isPersistent
    BY <1>1, <1>7 DEF Reload, browser, isPersistent, TabsOK
  <2> QED
    BY <2>1, UnloadIsTabStep DEF TabStep
<1>8. CASE Tick \/ UNCHANGED vars
  BY <1>2, <1>8 DEF Tick, vars, browser, tab
<1>9. ASSUME NEW t \in Tab,
             AskLogin(t) \/ LoginFails(t) \/ syncWallet(t) \/ NavigateLoggedIn(t)
      PROVE  TabStep(u)
  BY <1>2, <1>9 DEF AskLogin, LoginFails, syncWallet, NavigateLoggedIn, browser
<1>10. ASSUME NEW t \in Tab, NEW target \in {"login", "app"},
              Load(t, target) \/ Navigate(t, target)
       PROVE  TabStep(u)
  BY <1>5, <1>10 DEF Load, Navigate
<1>11. ASSUME NEW t \in Tab, NavigateToLogout(t) \/ IdleTimeout(t) PROVE TabStep(u)
  BY <1>6, <1>11 DEF NavigateToLogout, IdleTimeout
<1> QED
  BY <1>3, <1>4, <1>7, <1>8, <1>9, <1>10, <1>11 DEF Next, TabNext

LEMMA StepWatches ==
  ASSUME UnwatchedIsKept, TypeOK, [Next]_vars
  PROVE  UnwatchedIsKept'
<1> SUFFICES ASSUME NEW u \in Tab, wallet'[u] # NoWallet, timer'[u] = NoTimer
             PROVE  isPersistent' \/ forgot'[u]
  BY DEF UnwatchedIsKept, LoggedIn
<1>1. TabStep(u) /\ now + IdleTime # NoTimer /\ forgot[u] \in BOOLEAN
  BY StepOnTab, TypeParts, Times DEF TabsOK
<1>2. LoggedIn(u) /\ timer[u] = NoTimer => isPersistent \/ forgot[u]
  BY DEF UnwatchedIsKept
<1> QED
  BY <1>1, <1>2
  DEF TabStep, StaysPut, SameTimers, ActCounts, LogsIn, Unloads, LoggedIn

(* A session without an idle timer is kept, or was until a logout elsewhere. *)
THEOREM Watched == Spec => []UnwatchedIsKept
<1>1. Init => UnwatchedIsKept
  BY DEF Init, UnwatchedIsKept, LoggedIn
<1> QED
  BY <1>1, Typing, StepWatches, PTL DEF Spec

(* The strengthening: a tab that is logged out has no timers, and one that  *)
(* logged in once has a single timer, IdleTime or more after what counted.  *)
TimersFollowLogin ==
  \A u \in Tab :
    /\ ~LoggedIn(u) => timer[u] = NoTimer /\ lost[u] = {}
    /\ ~relogin[u] => /\ lost[u] = {}
                      /\ timer[u] # NoTimer => counted[u] + IdleTime <= timer[u]

LEMMA StepTimers ==
  ASSUME TimersFollowLogin, TypeOK, [Next]_vars
  PROVE  TimersFollowLogin'
<1> SUFFICES ASSUME NEW u \in Tab
             PROVE  /\ wallet'[u] = NoWallet => timer'[u] = NoTimer /\ lost'[u] = {}
                    /\ ~relogin'[u] => /\ lost'[u] = {}
                                       /\ timer'[u] # NoTimer
                                            => counted'[u] + IdleTime <= timer'[u]
  BY DEF TimersFollowLogin, LoggedIn
<1>1. TabStep(u) /\ now + IdleTime \in Nat /\ relogin[u] \in BOOLEAN
  BY StepOnTab, TypeParts, Times, SessionAssumption DEF TabsOK
<1>2. /\ ~LoggedIn(u) => timer[u] = NoTimer /\ lost[u] = {}
      /\ ~relogin[u] => /\ lost[u] = {}
                        /\ timer[u] # NoTimer => counted[u] + IdleTime <= timer[u]
  BY DEF TimersFollowLogin
<1>3. CASE StaysPut(u)
  BY <1>2, <1>3 DEF StaysPut, SameTimers, LoggedIn
<1>4. CASE ActCounts(u)
  BY <1>1, <1>2, <1>4 DEF ActCounts, LoggedIn
<1>5. CASE LogsIn(u)
  <2>1. relogin'[u] \/ (timer[u] = NoTimer /\ lost[u] = {})
    BY <1>1, <1>2, <1>5 DEF LogsIn
  <2>2. CASE SameTimers(u)
    BY <1>5, <2>1, <2>2 DEF SameTimers, LogsIn
  <2>3. CASE /\ timer'[u] = now + IdleTime
             /\ lost'[u] = lost[u] \cup ({timer[u]} \ {NoTimer})
    BY <1>1, <1>5, <2>1, <2>3 DEF LogsIn
  <2> QED
    BY <1>5, <2>2, <2>3 DEF LogsIn
<1>6. CASE Unloads(u)
  BY <1>6 DEF Unloads
<1> QED
  BY <1>1, <1>3, <1>4, <1>5, <1>6 DEF TabStep

LEMMA TimersAreLogins == Spec => []TimersFollowLogin
<1>1. Init => TimersFollowLogin
  BY DEF Init, TimersFollowLogin
<1> QED
  BY <1>1, Typing, StepTimers, PTL DEF Spec

(* Who is logged out as idle has been: IdleTime has gone by.                *)
THEOREM IdleLogout == Spec => IdleLogoutIsIdle
<1>1. TimersFollowLogin /\ [Next]_vars =>
        [\A t \in Tab : IdleTimeout(t) => relogin[t] \/ counted[t] + IdleTime <= now]_vars
  <2> SUFFICES ASSUME TimersFollowLogin, NEW t \in Tab, IdleTimeout(t), ~relogin[t]
               PROVE  counted[t] + IdleTime <= now
    OBVIOUS
  <2>1. lost[t] = {} /\ (timer[t] # NoTimer => counted[t] + IdleTime <= timer[t])
    BY DEF TimersFollowLogin
  <2> QED
    BY <2>1 DEF IdleTimeout
<1> QED
  BY <1>1, TimersAreLogins, PTL DEF Spec, IdleLogoutIsIdle
=============================================================================
