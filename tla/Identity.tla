------------------------------ MODULE Identity -------------------------------
(***************************************************************************)
(* The key pair and the name of a node: generated in the background when   *)
(* there is none (ensure_identity), or with the button of the Me tab, each *)
(* with a guard and a thread of its own; stored in the preferences.        *)
(*                                                                         *)
(* Key pairs are numbered as they are generated. Of the preferences only   *)
(* what they hold is modelled: a commit is made whole or fails.            *)
(***************************************************************************)
EXTENDS Integers, Sequences

CONSTANTS
  NoKey,       \* no key pair
  UserNames,   \* the names a user may pick, as bytes
  PAIRS        \* a bound of the model: key pairs that are generated

ASSUME IdentityAssumption ==
  PAIRS \in Nat /\ NoKey \notin Nat /\ UserNames \subseteq Seq(Nat)

VARIABLES
  key,             \* identity_pub and identity_prv in the preferences
  name,            \* nickname in the preferences, empty if there is none
  keygenRunning,   \* _keygen_running of the manager
  busy,            \* _keygen_busy of the home screen
  gpc, fresh,      \* where each generating thread is, and its key pair
  made,            \* how many key pairs were generated
  pressed,         \* (history) the button was pressed, and there are threads at work since
  genShown,        \* whether the Me tab shows the button
  home,            \* whether the home screen is in the foreground
  refreshDue       \* whether it was told to refresh the Me tab

\* What a step of a generating thread may change, and the rest.
screen == <<busy, genShown, home, refreshDue, pressed>>
identityVars == <<key, name, keygenRunning, gpc, fresh, made, screen>>

\* Threads of ensure_identity (if its guard works the second is not needed),
\* and that of the button.
Keygens == {"first", "second"}
Threads == Keygens \cup {"button"}

\* No nickname, or "badge", which the code takes for none.
NoName == <<>>

\* badge_ and the first bytes of the key.
BadgeName(k) == <<98, 97, 100, 103, 101, 95, k>>

IdentityInit ==
  /\ key = NoKey /\ name = NoName
  /\ keygenRunning = FALSE /\ busy = FALSE
  /\ gpc = [t \in Threads |-> "idle"]
  /\ fresh = [t \in Threads |-> NoKey]
  /\ made = 0
  /\ genShown = FALSE /\ home = FALSE /\ refreshDue = FALSE /\ pressed = FALSE

Move(t, p) == gpc' = [gpc EXCEPT ![t] = p]

-----------------------------------------------------------------------------
(* generate_identity, on either thread.                                    *)

\* generate_keypair takes seconds, and may fail.
MakePair(t) ==
  /\ gpc[t] = "make"
  /\ made < PAIRS
  /\ made' = made + 1
  /\ fresh' = [fresh EXCEPT ![t] = made + 1]
  /\ Move(t, "commit")
  /\ UNCHANGED <<key, name, keygenRunning, screen>>

MakeFails(t) ==
  /\ gpc[t] = "make"
  /\ Move(t, "lower")
  /\ UNCHANGED <<key, name, keygenRunning, fresh, made, screen>>

\* The pair is stored. If that fails the thread goes on all the same.
Commit(t) ==
  /\ gpc[t] = "commit"
  /\ Move(t, "name")
  /\ key' \in {key, fresh[t]}
  /\ UNCHANGED <<name, keygenRunning, fresh, made, screen>>

\* _name_from_identity leaves a name alone that the user picked, or that an
\* earlier pair gave.
ReadName(t) ==
  /\ gpc[t] = "name"
  /\ Move(t, IF name # NoName THEN "tell" ELSE "rename")
  /\ UNCHANGED <<key, name, keygenRunning, fresh, made, screen>>

Rename(t) ==
  /\ gpc[t] = "rename"
  /\ Move(t, "tell")
  /\ name' = BadgeName(fresh[t])
  /\ UNCHANGED <<key, keygenRunning, fresh, made, screen>>

\* _notify("identity"): the home screen refreshes if it is there.
Tell(t) ==
  /\ gpc[t] = "tell"
  /\ Move(t, "lower")
  /\ fresh' = [fresh EXCEPT ![t] = NoKey]
  /\ refreshDue' = (refreshDue \/ home)
  /\ UNCHANGED <<key, name, keygenRunning, busy, made, genShown, home, pressed>>

\* The thread lowers its guard; that of the button refreshes once more.
Lower(t) ==
  /\ gpc[t] = "lower"
  /\ Move(t, "idle")
  /\ IF t \in Keygens
     THEN keygenRunning' = FALSE /\ UNCHANGED <<busy, refreshDue>>
     ELSE busy' = FALSE /\ refreshDue' = (refreshDue \/ home) /\ UNCHANGED keygenRunning
  /\ pressed' = (pressed /\ \E u \in Threads \ {t} : gpc[u] # "idle")
  /\ UNCHANGED <<key, name, fresh, made, genShown, home>>

Generate(t) ==
  MakePair(t) \/ MakeFails(t) \/ Commit(t) \/ ReadName(t) \/ Rename(t) \/ Tell(t) \/ Lower(t)

-----------------------------------------------------------------------------
(* The user interface thread.                                              *)

\* Mutant of NeedsIdentity: a thread that is at it already is not asked for.
NeedsIdentityOnly == key = NoKey

NeedsIdentity == ~keygenRunning /\ key = NoKey

\* ensure_identity.
EnsureIdentity ==
  IF NeedsIdentity
  THEN /\ keygenRunning' = TRUE
       /\ Move(IF gpc["first"] = "idle" THEN "first" ELSE "second", "make")
  ELSE UNCHANGED <<keygenRunning, gpc>>

\* start(), from the boot service or the Me tab.
StartService ==
  /\ EnsureIdentity
  /\ UNCHANGED <<key, name, fresh, made, screen>>

\* _refresh_identity shows the button if there is no key pair and it knows of
\* no thread that makes one.
ShowsButton == key = NoKey /\ ~keygenRunning /\ ~busy

\* The app is started: onCreate draws the Me tab, then onResume asks for an
\* identity. The screen is a new one, with a guard of its own.
CreateHome ==
  /\ ~home
  /\ home' = TRUE
  /\ busy' = FALSE
  /\ genShown' = (key = NoKey /\ ~keygenRunning)
  /\ EnsureIdentity
  /\ UNCHANGED <<key, name, fresh, made, refreshDue, pressed>>

\* It comes back to the foreground: only onResume, which does not draw the Me
\* tab again.
ResumeHome ==
  /\ ~home
  /\ home' = TRUE
  /\ EnsureIdentity
  /\ UNCHANGED <<key, name, fresh, made, busy, genShown, refreshDue, pressed>>

\* onPause; what was marshalled to the screen is dropped.
LeaveHome ==
  /\ home
  /\ home' = FALSE /\ refreshDue' = FALSE
  /\ UNCHANGED <<key, name, keygenRunning, busy, gpc, fresh, made, genShown, pressed>>

RefreshIdentity ==
  /\ home /\ refreshDue
  /\ refreshDue' = FALSE
  /\ genShown' = ShowsButton
  /\ UNCHANGED <<key, name, keygenRunning, busy, gpc, fresh, made, home, pressed>>

\* _generate_identity, the button: its only guard is its own. (A bound of the
\* model: one thread of the button at a time, though a new screen does not know
\* of the last one's.)
TapGenerate ==
  /\ home /\ genShown
  /\ ~busy
  /\ gpc["button"] = "idle"
  /\ busy' = TRUE /\ pressed' = TRUE
  /\ Move("button", "make")
  /\ UNCHANGED <<key, name, keygenRunning, fresh, made, genShown, home, refreshDue>>

\* set_nickname with what the user typed.
PickName(n) ==
  /\ home
  /\ name # n
  /\ name' = n
  /\ UNCHANGED <<key, keygenRunning, gpc, fresh, made, screen>>

\* The device restarts: the preferences stay.
RebootIdentity ==
  /\ keygenRunning' = FALSE /\ busy' = FALSE
  /\ gpc' = [t \in Threads |-> "idle"]
  /\ fresh' = [t \in Threads |-> NoKey]
  /\ genShown' = FALSE /\ home' = FALSE /\ refreshDue' = FALSE /\ pressed' = FALSE
  /\ UNCHANGED <<key, name, made>>

IdentityNext ==
  \/ \E t \in Threads : Generate(t)
  \/ StartService
  \/ RefreshIdentity \/ TapGenerate

\* nickname(), with its default for a node that has none.
Nickname ==
  IF name # NoName THEN name
  ELSE IF key # NoKey THEN BadgeName(key)
  ELSE <<98, 97, 100, 103, 101>>

-----------------------------------------------------------------------------
IdentityTypeOK ==
  /\ made \in 0..PAIRS
  /\ key \in 1..PAIRS \cup {NoKey}
  /\ name \in UserNames \cup {NoName} \cup {BadgeName(k) : k \in 1..PAIRS}
  /\ fresh \in [Threads -> 1..PAIRS \cup {NoKey}]
  /\ gpc \in [Threads -> {"idle", "make", "commit", "name", "rename", "tell", "lower"}]
  /\ {keygenRunning, busy, genShown, home, refreshDue, pressed} \subseteq BOOLEAN

\* A node keeps the key pair it has: however often it is started, left and
\* opened, and however slow its threads are, ensure_identity never replaces a
\* pair that was stored. (While a thread of the button is at work, or one that
\* overlapped with it, it may; README, known limits.)
IdentityIsKept == [][key # NoKey /\ ~pressed => key' = key]_identityVars
=============================================================================
