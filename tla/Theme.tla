------------------------------- MODULE Theme -------------------------------
(***************************************************************************)
(* The dark and the light theme of the dashboard: skynetTheme (theme.js)   *)
(* in each tab of the browser, the stored choice that the tabs share, and  *)
(* the label of the button of MainLayout, which the answers of the calls   *)
(* into JavaScript bring up to date.  A call runs when it is made; its     *)
(* answer is delivered later, in the order of the calls.                   *)
(***************************************************************************)
EXTENDS Integers, Sequences

CONSTANTS
  Tabs,       \* tabs of one browser
  MaxPending  \* bound: answers under way in a tab

NoTheme == "none"
Failed == "failed"  \* the answer of a call that threw
Themes == {"dark", "light"}

ASSUME ThemeAssumption ==
  /\ MaxPending \in Nat \ {0}
  /\ NoTheme \notin Tabs

VARIABLES
  storage,      \* what localStorage allows: "ok", "full" (no write) or "blocked"
  stored,       \* localStorage["skynet-theme"]
  prefersDark,  \* the prefers-color-scheme of the system
  stage,        \* a tab is "closed", "booting" or "live"
  shown,        \* document.documentElement.dataset.theme of a tab
  isDark,       \* _isDark of MainLayout in a tab
  pending,      \* answers to MainLayout under way in a tab
  told,         \* history: MainLayout is or will be told what the tab shows
  owner         \* history: the tab whose choice is stored

themeVars == <<storage, stored, prefersDark, stage, shown, isDark, pending, told, owner>>
browser == <<storage, prefersDark>>

ThemeInit ==
  /\ storage \in {"ok", "full", "blocked"}
  /\ stored \in Themes \cup {"other", NoTheme}
  /\ prefersDark \in BOOLEAN
  /\ stage = [t \in Tabs |-> "closed"]
  /\ shown = [t \in Tabs |-> NoTheme]
  /\ isDark = [t \in Tabs |-> FALSE]
  /\ pending = [t \in Tabs |-> <<>>]
  /\ told = [t \in Tabs |-> FALSE]
  /\ owner = NoTheme

Readable == storage # "blocked"
Writable == storage = "ok"

getPreferredTheme ==
  IF stored \in Themes THEN stored ELSE IF prefersDark THEN "dark" ELSE "light"

applyTheme(theme) == IF theme = "dark" THEN "dark" ELSE "light"

(* The page is loaded: init runs before the first paint, and throws when   *)
(* storage is blocked; MainLayout starts over.                             *)
Load(t) ==
  /\ stage' = [stage EXCEPT ![t] = "booting"]
  /\ shown' = [shown EXCEPT ![t] =
       IF Readable THEN applyTheme(getPreferredTheme) ELSE NoTheme]
  /\ isDark' = [isDark EXCEPT ![t] = FALSE]
  /\ pending' = [pending EXCEPT ![t] = <<>>]
  /\ told' = [told EXCEPT ![t] = FALSE]
  /\ UNCHANGED <<browser, stored, owner>>

Close(t) ==
  /\ stage[t] # "closed"
  /\ stage' = [stage EXCEPT ![t] = "closed"]
  /\ owner' = IF owner = t THEN NoTheme ELSE owner
  /\ UNCHANGED <<browser, stored, shown, isDark, pending, told>>

Reply(t, theme) == pending' = [pending EXCEPT ![t] = Append(@, theme)]

(* MainLayout asks what is shown once it has been rendered.                *)
FirstRender(t) ==
  /\ stage[t] = "booting"
  /\ stage' = [stage EXCEPT ![t] = "live"]
  /\ Reply(t, shown[t])
  /\ told' = [told EXCEPT ![t] = TRUE]
  /\ UNCHANGED <<browser, stored, shown, isDark, owner>>

(* Slip: what was asked for is stored, not what was made of it.            *)
setUnchecked(t, theme) ==
  /\ shown' = [shown EXCEPT ![t] = applyTheme(theme)]
  /\ stored' = IF Writable THEN theme ELSE stored
  /\ owner' = IF Writable THEN t ELSE IF owner = t THEN NoTheme ELSE owner

(* The choice is shown first, then stored, which throws when it may not.   *)
set(t, theme) ==
  LET applied == applyTheme(theme) IN
  /\ shown' = [shown EXCEPT ![t] = applied]
  /\ stored' = IF Writable THEN applied ELSE stored
  /\ owner' = IF Writable THEN t ELSE IF owner = t THEN NoTheme ELSE owner

(* Slip: the stored choice counts before what the tab shows.               *)
currentStored(t) == getPreferredTheme

current(t) == IF shown[t] # NoTheme THEN shown[t] ELSE getPreferredTheme

Opposite(theme) == IF theme = "dark" THEN "light" ELSE "dark"

Clickable(t) == stage[t] = "live" /\ Len(pending[t]) < MaxPending

(* Slip: MainLayout turns its own label around instead of using the answer *)
(* of a call that may throw.                                               *)
ToggleGuess(t) ==
  /\ Clickable(t)
  /\ Readable \/ shown[t] # NoTheme
  /\ set(t, Opposite(current(t)))
  /\ isDark' = [isDark EXCEPT ![t] = ~@]
  /\ told' = [told EXCEPT ![t] = Writable]
  /\ UNCHANGED <<browser, stage, pending>>

(* A click on the button.  When storage refuses the choice the tab shows   *)
(* it all the same, and MainLayout gets an exception for an answer.        *)
Toggle(t) ==
  /\ Clickable(t)
  /\ Readable \/ shown[t] # NoTheme
  /\ set(t, Opposite(current(t)))
  /\ Reply(t, IF Writable THEN shown'[t] ELSE Failed)
  /\ told' = [told EXCEPT ![t] = Writable]
  /\ UNCHANGED <<browser, stage, isDark>>

(* With nothing shown and storage blocked, toggle throws at once.          *)
ToggleBlocked(t) ==
  /\ Clickable(t)
  /\ ~Readable /\ shown[t] = NoTheme
  /\ Reply(t, Failed)
  /\ UNCHANGED <<browser, stored, stage, shown, isDark, told, owner>>

(* ThemeService.SetAsync or a script of the page: not MainLayout's call.   *)
Set(t, theme) ==
  /\ stage[t] # "closed"
  /\ set(t, theme)
  /\ told' = [told EXCEPT ![t] = FALSE]
  /\ UNCHANGED <<browser, stage, isDark, pending>>

clear(t) ==
  /\ stage[t] # "closed"
  /\ Readable
  /\ stored' = NoTheme
  /\ owner' = NoTheme
  /\ shown' = [shown EXCEPT ![t] = NoTheme]
  /\ told' = [told EXCEPT ![t] = FALSE]
  /\ UNCHANGED <<browser, stage, isDark, pending>>

(* The label takes an answer over; an exception leaves it as it is.        *)
TakeAnswer(t) ==
  /\ stage[t] = "live"
  /\ pending[t] # <<>>
  /\ pending' = [pending EXCEPT ![t] = Tail(@)]
  /\ isDark' = [isDark EXCEPT ![t] =
       IF Head(pending[t]) = Failed THEN @ ELSE Head(pending[t]) = "dark"]
  /\ UNCHANGED <<browser, stored, stage, shown, told, owner>>

SystemChanges ==
  /\ prefersDark' = ~prefersDark
  /\ UNCHANGED <<storage, stored, stage, shown, isDark, pending, told, owner>>

(* Other pages of the site fill the storage up, or make room.              *)
StorageChanges ==
  /\ Readable
  /\ storage' = IF Writable THEN "full" ELSE "ok"
  /\ UNCHANGED <<prefersDark, stored, stage, shown, isDark, pending, told, owner>>

ThemeNext ==
  \/ SystemChanges
  \/ StorageChanges
  \/ \E t \in Tabs :
       \/ Load(t) \/ Close(t) \/ FirstRender(t) \/ TakeAnswer(t)
       \/ Toggle(t) \/ ToggleBlocked(t) \/ clear(t)
       \/ \E theme \in Themes \cup {"other"} : Set(t, theme)

ThemeSpec == ThemeInit /\ [][ThemeNext]_themeVars

-----------------------------------------------------------------------------
(* What a reload of any tab would show.                                    *)
Reloaded == applyTheme(getPreferredTheme)

(* The button offers the other theme than the one that is shown, once no   *)
(* answer is under way and unless the theme was last changed behind        *)
(* MainLayout's back or by a click whose choice could not be stored.       *)
ButtonAgrees ==
  \A t \in Tabs :
    stage[t] = "live" /\ pending[t] = <<>> /\ told[t] =>
      isDark[t] = (shown[t] = "dark")

(* The tab whose choice was stored last shows the same after a reload,     *)
(* whatever the system prefers by then and whatever was asked for.         *)
ReloadKeepsChoice == \A t \in Tabs : owner = t => Reloaded = shown[t]

(* A click changes what its own tab shows, even after another tab has      *)
(* stored a choice that this tab does not show.                            *)
ClickFlips ==
  [][\A t \in Tabs :
       stage[t] = "live" /\ Len(pending'[t]) > Len(pending[t]) /\ shown[t] # NoTheme
         => shown'[t] # shown[t]]_themeVars
=============================================================================
