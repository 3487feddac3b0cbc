# KGlobalAccelD in TLA+

A verification project for `kglobalacceld`, the daemon that owns the global
keyboard shortcuts of a Plasma session.  It has TLA+ models of the daemon's
core, TLC configurations that check them on small instances, and TLAPS proofs
of what matters most for instances of any size.  Paths are relative to the
repository's `src/` unless they say otherwise.

## 1. The system

Applications (clients) register *actions* over D-Bus and ask for keys for them.
The daemon decides who gets which key, grabs the keys from the platform,
recognises them when they are typed, and tells the clients that a shortcut was
pressed, repeated and released.

It is one process with one thread and an event loop.  A D-Bus call, a timer or a
key event runs to completion before the next; there are no locks and no threads.
What makes it hard is the *order* of these handlers: clients, users, a settings
dialog, other X clients and keyboards act whenever they like, and pointers to
shortcuts outlive the handlers that stored them.

### Components

| component | source | state | operations |
|---|---|---|---|
| Key sequence helpers | `sequencehelpers_p.cpp` | none | contains, matchSequences, normalizeSequence, keyToModifier |
| GlobalShortcutContext | `globalshortcutcontext.cpp` | name → shortcut | add (replaces), take, lookup by key, availability |
| GlobalShortcut | `globalshortcut.cpp` | keys, present, registered (active), fresh | setKeys, setIsPresent, setActive, setInactive, unRegister, destructor |
| Component | `component.cpp` | contexts, current context | activate or create a context, (de)activate shortcuts, cleanUp, unregister, invokeShortcut, emit events, load and write settings |
| GlobalShortcutsRegistry, grabs | `globalshortcutsregistry.cpp` 276-404, 808-933 | components in order, `_active_keys`, `_keys_count`, `m_lastShortcut`, allow-list | registerKey, unregisterKey, lookup, writeSettings |
| GlobalShortcutsRegistry, key events | the same file, 406-587 | `_active_sequence`, `m_currentModifiers`, `m_state` | keyEvent, processKey, pointerPressed, axisTriggered |
| KGlobalAccelD | `kglobalacceld.cpp` | write-out timer | the D-Bus requests |
| X11 plug-in | `plugins/xcb/kglobalaccel_x11.cpp` | `m_keyboardGrabbed`, remap timer | grabKey, XRecord and native events, remapping |
| Platform interface | `kglobalaccel_interface.cpp` | none | forwards key, click and scroll events |
| Settings | loadSettings and writeSettings of the registry, Component, KServiceActionComponent | `kglobalshortcutsrc` | load, write |
| Services | `kserviceactioncomponent.cpp`, refreshServices | the actions of a `.desktop` file | load, start, refresh, clean up |
| Migration | `globalshortcutsregistry.cpp` 89-274 | the configuration file | one-time rewriting |

### Interactions

- **KGlobalAccelD → Component → Context → GlobalShortcut**: a D-Bus request names
  an action by component (optionally `component|context`) and name.
  `findAction` resolves a plain component to its *current* context, `addAction`
  to the *default* one.
- **GlobalShortcut → registry**: `setActive` and `setInactive` register and
  unregister each key; `setKeys` asks the registry whether another key clashes.
- **registry → platform**: `grabKey` for each chord, reference counted.  It can
  fail.
- **platform → registry**: key events; a change of the keyboard mapping ungrabs
  and grabs everything.
- **registry → Component → client**: Pressed, Repeated, Released.  The shortcut
  held down is a raw pointer, `m_lastShortcut`, that any request may outlive.
- **write-out timer → registry**: half a second after a change the settings are
  written, and components with nothing in the default context are *deleted*.

### What makes each part correct

- *helpers*: two keys that may coexist can both be typed, and no key is refused
  without reason;
- *grabs*: a chord is grabbed exactly while an active key has it; a key belongs
  to a shortcut that exists and is active; keys of active shortcuts do not clash;
- *holding*: presses and releases are paired, the shortcut held is alive, and a
  shortcut is held no longer than its key;
- *modifier-only shortcuts*: they trigger after a clean tap of exactly their
  modifiers and at no other time;
- *settings*: what was written is what is loaded, a crash loses no more than the
  last half second, an orderly shutdown nothing, and an upgrade none of the keys
  the user chose;
- *applications*: one that is removed holds no keys, and finds its keys again when it
  comes back.

## 2. The modules

| module | models | extends |
|---|---|---|
| `KeySequences` | the helpers, the lookups, the chord buffer: pure operators | |
| `KeyTyping` | assigning keys through the filter and typing any chords; reference definitions by position | `KeySequences` |
| `Registry` | components, contexts, shortcuts, grabs, holding: one action per request, timer and platform call | `KeySequences` |
| `GrabLoop` | registerKey and unregisterKey chord by chord | `Registry` |
| `RegistryClaims` | what documentation, comments and assertions say | `Registry` |
| `KeyEvents` | keyEvent and processKey in full, with the keyboard; implements `Registry` | `Registry` |
| `X11Events` | the X11 plug-in's two connections, other clients that grab the keyboard; the handlers of `KeyEvents` | `KeyEvents` |
| `DurableStore` | what the settings promise: memory, file, and a mark that they differ | |
| `Settings` | the file, the write-out timer, start, migration, crash, shutdown, applications and their desktop files; implements `DurableStore` | `Registry` |
| `RegistryProofs` | types, reference counts, owners of keys, the loops: proofs | `GrabLoop` |
| `HoldProofs` | clashes, what active shortcuts own, holding and releasing: proofs | `RegistryProofs` |
| `KeyProofs` | key events implement the registry: proof | `KeyEvents` |
| `TapProofs` | the state machine of key events: proofs | `KeyProofs`, `HoldProofs` |
| `X11Proofs` | the two connections: proofs | `X11Events`, `TapProofs` |
| `TypingProofs` | the filter and the buffer: proofs | `KeyTyping` |
| `SettingsProofs` | starts and stops, what the file says, upgrades, and the durable store: proofs | `Settings`, `HoldProofs` |
| `DurableStoreProofs` | the store itself: proof | `DurableStore` |
| `MCKeyTyping`, `MCRegistry`, `MCKeyEvents`, `MCX11Events`, `MCSettings` | the instances that TLC checks | |

### Registry

A **slot** (component, context, name) is where a shortcut lives; `live` is the set
of occupied slots, and `keys`, `present`, `registered`, `fresh` are the fields of
the shortcut in it.  An **object** is what a `GlobalShortcut *` points to: the
*live* object of a slot, a *leaked* one (which `addAction` replaced in the
context's map and nobody deletes), or a *dangling* one.  `activeKeys` maps a key
to the object that has grabbed it, `last` is `m_lastShortcut`.

`Regrab(off, on, newKeys)` is the net effect of `setInactive` for the shortcuts in
`off` followed by `setActive` for those in `on`.  Where two of these want a key,
the component created first wins and within a component the iteration order of a
hash table decides: any choice is allowed.  A refused key leaves no trace, because
`registerKey` rewinds; `GrabLoop` has the loops.  `LetGo` is what the loss of keys does to the shortcut held down.

`SetKeys` determines the accepted keys from `Accepted`: a key is dropped if it
clashes with a key of any other shortcut in a current context, or with one just
accepted for the same shortcut, as `setKeys` fills `_keys` while it filters.

A release for a dangling `m_lastShortcut` is undefined behaviour; `Partings` lets
it be sent or not.  (A crash stops the daemon, and no property is about it.)
The ghost `owed` is the set of shortcuts that key events have pressed for a client
and not released.  Presses sent by `invokeShortcut` are not counted: that method
never sends a release.

The keyboard of `Registry` is coarse: a whole key is completed (`KeyPressed`),
tapped (`KeyTapped`), let go (`KeyReleased`) or ignored.  Under X the daemon hears
grabbed chords and modifiers only and is told of no repetitions
(`EveryChordHeard = FALSE`); a compositor reports all.  With
`EveryChordHeard = TRUE` there is no X server and hence no `RemapKeys`.

The allow-list is a constant, as it is read at start-up only.

### GrabLoop

`Registry` takes for granted that a key is grabbed or not as a whole.  `GrabLoop` has the
loops: `Taking` grabs and counts the chords of a key one after the other, `Rewinding` gives
back those granted when one is refused, `Dropping` is the loop of `unregisterKey`.  They work
on a `Ledger`, `_keys_count` with what the platform has grabbed.  A loop makes no call that
could come back to the registry, so it is an operator and no sequence of steps.
`LoopsKeepAccounts` says of every reachable state that each call which could be made there
turns the counts and grabs of the active keys into those of the active keys afterwards,
whichever chord is refused, also one that the key has already.  As the accounts determine
counts and grabs, any sequence of such calls ends with those that `Regrab` gives.

### KeyEvents

`KeyEvents` adds `_active_sequence` (`sequence`), `m_currentModifiers` (`mods`) and
`m_state` (`state`) with the value names shortened, and the set of keys `down`.
`Processed` yields all outcomes of `processKey`: the shortest ending of the buffer
that any shortcut has as a key decides; whether that shortcut is active is asked
afterwards.  Whether a modifier's own press or release event names that modifier
among its modifiers differs between platforms, so both are allowed.
`KeySpec => Spec` holds with no refinement mapping beyond the shared variables.
The module is about a compositor (`KeyboardAssumption`); X has two event
connections and a module of its own.

### X11Events

Under X the daemon reads two connections.  `main` has the presses of chords it has
grabbed (`HandleMain`, `nativeEventFilter`).  `record` has what XRecord reports: every
press, release and click at the X server, and every request of any client to grab or
ungrab the keyboard (`HandleRecord`, the lambda in the constructor).  Modifiers are
handled when they come on `record`, other presses when they come on `main` (on `record`
they only reset the state machine), releases on `record`.  Each queue is in order; which
one is read next is any.  `x11KeyPress` ungrabs the keyboard, a request that XRecord
reports too, so it is appended to `record` and later clears `m_keyboardGrabbed`.

The plug-in grabs no chord of modifiers alone, nor one of a modifier key (`grabKey`), so
`Grabbable` leaves them out and `refused` has them all along.

Another client may ask for the keyboard and get it or not, give it up, or die without
asking.  A request is any client's, whatever holds the keyboard, which allows a little
more than X does: a grab may succeed while a passive grab of the daemon freezes the
keyboard.  A key held down does not repeat.  Two ghosts say when the properties are
silent: `contested` since another client asked for the keyboard until all keys are up and
the matter is settled, `missed` when the release of the held key was read before its
press or ignored because of `m_keyboardGrabbed`.  A release remembers in its ghost `tap`
whether it was contested, and otherwise whether it ends a clean tap.  Without either
exemption TLC finds the property violated (see section 4).  Shortcuts have their keys from the start;
requests are an application that goes and comes back (`X11Request`).

### Settings

`file` is what `kglobalshortcutsrc` holds for each component: contexts, and the keys of
each shortcut.  The daemon's life has phases: `down`, `migrating` (the registry's
constructor), `loading` (loadSettings), `detecting` (detectAppsWithShortcuts) and `up`.
`Load` creates a component and takes its keys past the conflict filter, one by one, in
any order of a group's entries; the passes over the groups, the groups of applications
and the desktop files without a group follow each other as in `loadSettings`.
`Group` and `Written` are what a write puts into the file.

The write-out timer is `left`, in ticks (`Interval`); `writeout` of `Registry` says
that it runs.  `Scheduled` starts it unless it runs.  `Crash` may come at any time and
leaves the file as it is; `ShutDown` writes it if the timer runs.  An orderly shutdown is
one that runs `~KGlobalAccelD`; `main.cpp` handles no SIGTERM, so a daemon that is killed by
it crashes as far as the model goes.

The requests are `Register`, `ChangeKeys`, `Withdraw`, `SetDefaults`, and those that block
and switch contexts.  `defaults` are the default keys of the shortcuts of applications.
They go with the object: one that `addAction` puts in the place of another has none
(`DefaultsKept`).  `cleanUp` of a component without a desktop file is `Forget`, that of an
application `ForgetApplication`: the shortcuts of its default context are made inactive
and not present, then those of the current context that are not present are
deleted with their siblings of the same name in other contexts, and only if there are any
is the file written.  The runs have one context, where this comes to deleting
the application's shortcuts; the theorems hold for any contexts.

An application (`Apps`) has a desktop file; `kind` says whether it is found by its
shortcuts, is plain, is a file in the `kglobalaccel` directory, or a file that
migration made of an entry of `khotkeysrc`.  A file marked `NoDisplay` counts as plain, as
`loadSettings` skips it.  `DesktopFileChanges` installs and removes
it, also while the daemon is down; while it is up, `refreshServices` follows
(`refreshDue`).  Only keys unlike the defaults are written for applications.

Migration runs at each start: `HotkeyFile` writes desktop files, at once, and `Migrate`
changes the settings, which reach the file together at the end.  A crash may come
between the two.  `old` holds groups as Plasma 5 wrote them, `From` the entries that
shortcuts of applications were made from, `Upgrades` the files to start with.  The
ghost `wished` is the set of keys the user chose there, forgotten as soon as a client
asks for anything.  The keys of a shortcut that has both an entry of `khotkeysrc` and a
changed old group of its own are those of the group, which is migrated later.

`ImplementsStore` is the refinement of `DurableStore`: memory is what a write would put
into the file while the daemon is up, and what the file holds otherwise; the file is
itself; the mark is the running timer.  So a start must bring back what was written,
and every request that makes memory and file differ must start the timer.
It is stated for a daemon without applications whose components stay in one context;
with applications, which appear in memory and not in the file, `FileIsUpToDate` and, of a
shutdown, `ShutDownKeepsKeys` say the same with what a missing entry means.  They exempt shortcuts that a client
added to an application (the file keeps them, but they are not loaded again), those
for which a client sent other default keys than the desktop file's (the daemon compares
with the client's when it writes and with the desktop file's when it reads), and an
application of which a client has registered an action without keys yet (if that
created the component, it was loaded from the desktop file alone, see section 4).

### KeyTyping

`KeyTyping` drops everything but the keys: some are assigned through the filter of
`setKeys`, then chords are typed.  `EndsAt` and `Triggers` define by positions what
it means that a sequence ends with a key, independently of `contains` and
`QKeySequence::matches`, so the properties compare two definitions.

Definitions named after another with a suffix and commented "Broken" are faulty
variants (`PushKeyGrows`, `RegrabNoRewind`, ...).  No specification uses them; each
shows that some property notices such a fault.

## 3. The runs

All bounds are in the `.cfg` files and MC modules.

| run | instance | shows | distinct states |
|---|---|---|---|
| `KeyTyping` | 29 keys of 1-4 chords, with both codes of Shift+Tab and both of Meta; two assigned, 6 chords typed | `TypeOK`, `TriggersWhatWasTyped`, `NoDeadKey`, `RefusalsAreJustified`, `QueryErrsOnlyOnCodes` | 106 521 |
| `Registry` | two components, one context, three keys over two chords, X | `TypeOK`, `NoClash`, `ActiveShortcutsOwnTheirKeys`, `HeldIsActive`, `HeldIsOwed` | 47 969 |
| `RegistryRefusals` | the same with a chord that other X clients take and free | `GrabAccounting`, `OwnersSound`, `ReleasesEndPresses` | 63 776 |
| `RegistryContexts` | one component, two contexts, a key with a chord twice, a modifier-only key, compositor | the same three, `LoopsKeepAccounts` | 17 742 |
| `KeyTaps` | one shortcut with modifier-only and mixed keys; two Meta keys, Shift, a letter, a key without code | `KeyTypeOK`, `PendingTapIsHeld`, `TapsAreClean`, `ImplementsRegistry` | 50 286 |
| `KeyChords` | two shortcuts, one not allowed; Meta and two letters | `HeldWhileDown`, `PressesAreReleased` | 107 734 |
| `Settings` | two components, a shortcut each, two keys; a timer of one tick | `ImplementsStore`, `ChangesReachTheFile`, `ShutDownLosesNothing` | 63 184 |
| `Services` | an application of each of four kinds, one with two actions, and a component, with the files that upgrades find | `FileIsUpToDate`, `ShutDownKeepsKeys`, `RemovedAppsHoldNoKeys`, `ChosenKeysSurviveUpgrades`; `NoClash`, `GrabAccounting`, `OwnersSound` through starts and stops | 315 089 |
| `X11Events` | one shortcut with Meta and Meta+X; Meta, X, a key without code, another client | `X11TapsAreClean`, `ReleaseIsToCome` | 2 041 445 |

Fairness is assumed in two runs.  `Settings`: `WF(Tick)` and `WF(WriteOut)`, a Qt timer
that runs fires, as every handler returns to the event loop.  Requests, crashes and
starts are not fair.  `KeyChords`: `WF(ReleaseAny)`, a user who holds ordinary keys lets go
of some key in the end; any release of an ordinary key ends the hold (`keyEvent`), so
none is needed of the particular key.  The handlers themselves need no fairness: an
event and its handling are one step.  All other properties are safety properties.

The bounds:

- `MaxTyped = 6` fills the buffer of four and rotates it twice; `MaxTaken = 2` because the filter and the
  lookups compare keys in pairs.
- The keys `kx`, `kxy`, `kyx` share both chords, so that counts go above one, and
  contain a pair that clashes (`kx` with either of the others) and one that does
  not; `kxx` counts one chord twice; `km` is a key that no X grab can serve.
- `MaxBuffer = 1` bounds the chords that trigger nothing in a row; it is enough
  for the two-chord key `<<x, meta>>`.  The full buffer is `KeyTyping`'s matter.
- Two components, one of them `kwin` with the shortcut that blocking spares, so
  that order of creation and the exception both matter.  Component removal, by
  `cleanUp` and by the timer, is reached in all `Registry` runs.
- `Interval = 1` in `Settings` lets changes come before and after a tick, which is what
  a timer that is pushed back needs to starve; in `Services` the timer fires at any
  time (`Interval = 0`), since no property there is about how long it takes.  `Switching`
  is on in `Settings` and off in `Services`: blocking and switching contexts make
  shortcuts inactive, in the latter only `setInactive` does, and more than double its states.
- An application's desktop file gives its shortcut the key that the component may
  have too, so that the filter refuses one or the other at each start, in each order
  of creation.  One application of each kind is enough, as applications meet only
  through the filter, which the component exercises.
- `MaxUnread = 4` events unread on the two connections: the press of a chord, on both, its
  release and that of its modifier, all before the daemon reads any.
- Deadlock is checked except in `KeyTyping`, whose user stops at `MaxTyped`.

`NoClash`, `ActiveShortcutsOwnTheirKeys` and `HeldIsActive` hold where every
component stays in its default context and (for the last two) X refuses no grab,
which is how Plasma uses the daemon.  That they fail otherwise is not an accident
of the model: the runs in the next section show how.

## 4. Where the code and its words differ

Each of these runs checks one sentence of the repository and finds it violated.
The property's comment quotes the sentence.

| run | the sentence says | the code |
|---|---|---|
| `ClaimNoComponents` | once all components are gone, so are the active keys (`globalshortcutsregistry.cpp:354`) | an object that `addAction` replaced keeps its keys |
| `ClaimIgnored` | a shortcut not on the allow-list is ignored (`README.md:28`) | its press releases the shortcut held down |
| `ClaimStale` | an active shortcut has its keys grabbed ("It's keys are grabbed", `globalshortcut.h:43`), on which `unregisterKey` relies to reset `m_lastShortcut` | a shortcut active without its key can be held and deleted |

Other differences met while modelling have no run of their own:

- `cleanUp` "will cleanup in all contexts" (`component.h:140`), but looks for unused
  shortcuts in the current one;
- `unregister` is said to work on "all contexts" (`kglobalacceld.h:173`), but returns
  false for a shortcut that exists in a context that is not current only, if the
  component is named without a context;
- `deactivateShortcuts` is said to deactivate "all currently active shortcuts"
  (`globalshortcutsregistry.h:84`), but goes over current contexts;
- availability for a component should disregard "not active contexts"
  (`globalshortcutsregistry.h:112`), but `default` is searched for a component named
  without a context, active or not;
- modifier-only shortcuts should trigger "if all keys are released"
  (`globalshortcutsregistry.h:176`), but the first modifier released triggers them;
- "A shortcut (WIN+x) can be registered by one component only"
  (`globalshortcutsregistry.h:44`), but the filter of `setKeys` does not look at contexts
  that are not current;
- `cleanUp` removes "all currently not used" shortcuts (`component.h:134`), but with an
  unused one also those of its name in other contexts, in use or not;
- Shift+Backtab and Shift+Tab shall "make no difference" (`sequencehelpers_p.cpp:124`),
  but the availability query compares raw codes and calls one free when the other is
  taken.  So it is with the two codes of a modifier alone, the key (`Key_Meta`) and the
  modifier without a key, which `autotests/shortcutstest.cpp:88` registers.
  `QueryErrsOnlyOnCodes` says that the query errs nowhere else;
- under X, modifier-only shortcuts shall not trigger on "Mod+Key; release Key; release
  Mod" (`kglobalaccel_x11.cpp`, constructor), but they do if another client grabs the
  keyboard after the modifier went down and gives it up before it is released: the key
  is then dropped, `resetModifierOnlyState` included, and the modifier's release is not;
- in the same way, a modifier whose release was dropped while another client had the
  keyboard still counts when the next one is released: a shortcut for Meta+Shift triggers
  although only one of them is held;
- under X a release read from XRecord before its press on the main connection, or while
  `m_keyboardGrabbed`, leaves its shortcut held until some other key is released;
- `m_keyboardGrabbed` is set by a grab that fails as well, and stays set when the client
  that grabbed dies: modifiers and releases are ignored until the next ungrab.  The
  daemon's own ungrab clears it while another client may have the keyboard;
- migration skips entries that are not "a triplet" (`globalshortcutsregistry.cpp:190`), which
  two key sequences or a comma in a name are enough for, and then deletes their group;
  a group of which only a last entry remains is deleted with its contexts;
- an application that is installed again after a refresh, and has no shortcuts of its own
  in its desktop file, is not loaded before the next start, although the file has keys
  for it; if a client registers it first, it is loaded from its desktop file alone and
  the keys in the file are overwritten;
- a change of an application's keys is lost if it is uninstalled within the half second
  before the write-out;
- `Component::registerShortcut` collects the keys that are free ("Ignore the request")
  and then sets all of them; the filter of `setKeys` drops the others all the same, but
  leaves an empty key in the place of each.

## 5. The proofs

TLAPS checks these for every value of the constants that satisfies the assumptions
below.  The specification is the module's own (`Spec`, `KeySpec`, `X11Spec`,
`SettingsSpec`), so none of the bounds of section 3 applies: there may be any number of
components, contexts, shortcuts, keys, modifier keys, events unread and restarts.

| theorem | property | under |
|---|---|---|
| `RegistryProofs!TypeCorrect` | `TypeOK` | |
| `RegistryProofs!GrabsAreCounted` | `GrabAccounting` | |
| `RegistryProofs!OwnersAreSound` | `OwnersSound` | |
| `RegistryProofs!LoopsCount` | `LoopsKeepAccounts` | |
| `HoldProofs!KeysDoNotClash` | `NoClash` | `[][NoneEnters]_vars` |
| `HoldProofs!ActiveShortcutsHaveTheirKeys` | `ActiveShortcutsOwnTheirKeys` | `[]Ordinary` |
| `HoldProofs!HeldShortcutsAreActive` | `HeldIsActive` | `[]Ordinary` |
| `HoldProofs!HeldShortcutsAreOwed` | `HeldIsOwed` | `[]Ordinary`, `EverythingAllowed` |
| `HoldProofs!ReleasesFollowPresses` | `ReleasesEndPresses` | `EverythingAllowed` |
| `KeyProofs!KeyEventsImplementRegistry` | `ImplementsRegistry` | |
| `TapProofs!KeyTypesCorrect` | `KeyTypeOK` | |
| `TapProofs!PendingTapsAreHeld` | `PendingTapIsHeld` | |
| `TapProofs!HeldOnlyWhileDown` | `HeldWhileDown` | |
| `TapProofs!TapsTriggerCleanly` | `TapsAreClean` | |
| `TapProofs!TypedReleasesFollowPresses` | `ReleasesEndPresses` | `EverythingAllowed` |
| `X11Proofs!X11GrabsAreCounted` | `GrabAccounting` | |
| `X11Proofs!X11ReleasesFollowPresses` | `ReleasesEndPresses` | `EverythingAllowed` |
| `X11Proofs!ReleasesAreToCome` | `ReleaseIsToCome` | |
| `X11Proofs!X11TapsTriggerCleanly` | `X11TapsAreClean` | |
| `TypingProofs!TypingTypesCorrect` | `TypeOK` of `KeyTyping` | |
| `TypingProofs!NoKeyIsDead` | `NoDeadKey` | |
| `TypingProofs!RefusalsHaveReasons` | `RefusalsAreJustified` | |
| `TypingProofs!TypedKeysTrigger` | `TriggersWhatWasTyped` | |
| `TypingProofs!AvailabilityErrsOnlyOnCodes` | `QueryErrsOnlyOnCodes` | |
| `SettingsProofs!RestartsCountGrabs` | `GrabAccounting` | |
| `SettingsProofs!RestartsKeepOwnersSound` | `OwnersSound` | |
| `SettingsProofs!RestartsKeepKeysApart` | `NoClash` | `[][NoneEnters]_settingsVars` |
| `SettingsProofs!RemovedAppsLeaveNoKeys` | `RemovedAppsHoldNoKeys` | |
| `SettingsProofs!FileStaysUpToDate` | `FileIsUpToDate` | |
| `SettingsProofs!ShutDownsKeepKeys` | `ShutDownKeepsKeys` | |
| `SettingsProofs!UpgradesKeepChosenKeys` | `ChosenKeysSurviveUpgrades` | |
| `SettingsProofs!SettingsImplementStore` | `ImplementsStore` | `Simple` |
| `SettingsProofs!ShutDownSavesAll` | `ShutDownLosesNothing` | `Simple` |
| `DurableStoreProofs!StaysClean` | `Clean` of `DurableStore` | |

### Assumptions

`ContextsAssumption`, `IdsAssumption` and `NoneAssumption` say that ids name a component,
a context or none, and a name, and that the null pointer is no object.  `KeysAssumption`:
finitely many key sequences of one to four chords, and lists of them.  `KeyboardAssumption`
makes `KeyEvents` a compositor's (`X11Events` replaces its keyboard).  `PoolAssumption` and
`TypeableAssumption` say the same of the keys and chords of `KeyTyping`.
`AppsAssumption`, `DesktopAssumption`, `UpgradesAssumption` and `FromAssumption` are the
shapes of desktop files and of files that older versions left; a component has finitely
many names, and the entries that shortcuts are made from are in the default context, as
migration reads top-level groups only.  `AssignedAssumption` is the shape of the keys that shortcuts have in
`X11Events`, and `X11Assumption` says that components are finitely many and that what the
plug-in does not grab counts as refused.  TLC evaluates each of them in some run.

### Hypotheses

Four hypotheses narrow down a theorem to how the daemon is used.

- `NoneEnters`: no context is entered that holds shortcuts already.  `setKeys` compares a
  key with those of shortcuts in current contexts only, so two contexts can hold keys that clash,
  and both come into force when one is entered beside the other.
- `Ordinary`: every shortcut is in the current context of its component, and X refuses no
  grab.  With one context and an X server that refuses nothing every state is ordinary, and
  that is proved (`OneContextIsOrdinary`).  Plasma never uses a second context.  Otherwise a
  shortcut can be active without its key, and be held, and be deleted while it is held:
  `ClaimStale` shows it.  `Ordinary` implies `NoneEnters` (`OrdinaryEntersNothing`).
- `EverythingAllowed`: there is no allow-list, which is the default (`useAllowList`,
  `globalshortcutsregistry.cpp:486`), or it leaves nothing out.  A shortcut that it does leave
  out is held without having been pressed (`ClaimIgnored`), so its release ends no press.
- `Simple`: no applications, one context, and no two keys in the first file clash.  That
  is what `ImplementsStore` is about (section 2).  A file with clashing keys, which the daemon
  never writes, loses one of them at the first start.

### The arguments

*Registry.*  The inductive invariant of the first three theorems is their conjunction,
`IInv == TypeOK /\ GrabAccounting /\ OwnersSound`.  None of the three is inductive
alone.  `TypeOK` says that counts are natural numbers, which needs the accounting:
`unregisterKey` subtracts.  The accounting needs to know that what `Freed` gives up
is in `activeKeys`, with finitely many uses.  Ownership is disturbed by every
deletion, and holds because a deleted shortcut is made inactive first and then
owns no key.  The proof has a lemma for `Regrab` (counts and grabs: uses of a chord
in disjoint sets of keys add up), one for `Retire`, by which shortcuts become inactive and
are deleted, and one step per action.

*The loops.*  Half-way through a loop the ledger accounts for the keys of the table and for
some places of one more key (`Partial`).  `TakePlace` and `DropPlace` are one round each, add
or remove one place, and hold whether or not the chord stands elsewhere in the key.  A key has at
most four chords, so that the rounds are written out where induction would be needed.

*Clashes, owners, holding.*  `NoClash` is inductive next to `IInv` once `Clashes` is known to be
symmetric; the work is in `SetKeys`, whose accepted keys clash neither with each other nor with
any other shortcut's.  `ActiveShortcutsOwnTheirKeys` then follows, because keys that do not
clash are in particular different, so `Claimed` gets all that it asks for.
`HeldIsActive` rests on that: a shortcut that stops being active gives up a key,
and giving up a key is what resets `m_lastShortcut`.  `ReleasesEndPresses` needs less and holds
everywhere: what `m_lastShortcut` points to, stale or not, is still owed to its client
(`LastIsOwed`), since whatever takes a slot out of `owed` also resets the pointer.

*Key events.*  Every key event is a step of `Registry`.  The invariant needed for it,
`MachineOK`, says only that the buffer holds chords of the keyboard and that `mods` is a set of
modifiers.  Whatever the lookup finds ends with the chord typed last, up to
normalisation, and normalisation keeps apart chords that are modifiers alone and others
(`NormalizedEnd`, `FoundEnd`): hence a modifier's release is a `KeyTapped` and any other press a
`KeyPressed`, and what is proved of `Registry` holds of the daemon driven by key events
(`RegistryInductive`).  Taps are clean because while the machine is `Pressing` the daemon
knows exactly the modifiers held (`TapInv`), whether or not the event that pressed one
named it.

*X.*  `X11Events` has handlers of its own around those of `KeyEvents`; `X11IsRegistry` shows
that each step is a step of `Registry` or leaves it alone, which brings in `IInv`.  `X11Inv`
adds what is in the two queues.  `WireOK` gives their contents types.  `QueueInv` is about
what is *unread*: between the press of a modifier and a release, with nothing that matters
in between, there was a clean tap of what was then held (`PairsMatch`), and so there was
before the release that is read next, if the machine is `Pressing` (`NextMatches`); a press
with nothing after it agrees with the keyboard (`LastMatches`); no grab precedes
a release that is not contested (`NoGrabBefore`).  So a trigger when the release is
read is one for a clean tap when it happened, in whatever order the queues are read.
`HeldInv` carries `ReleaseIsToCome`.  A first attempt at this proof failed, as
`X11TapsAreClean` was false as it then stood, with two modifiers and another client's grab
(section 4).  The run `X11Events` has one modifier, as two beside its other keys are too many;
the theorem holds for any keyboard.

*Typing.*  `EndsForm` and `ClashForm` reduce `contains`, `matches` and the filter to one
relation, that a key stands in another at a position (`Stands`).  The filter then keeps the assigned
keys apart (`FilterInv`).  `TypingInv` adds that the buffer of four chords is what it
would keep of everything typed since the last trigger (`BufferInv`), so that a lookup in the
buffer is one in the text.  For the availability query the same relation is read on raw
chords: a raw match is a normalised one (`CodesStand`, `CodesContain`), and where only the
normalised keys match, some chord has another code in each (`CodesDifferBothWays`).

*Settings.*  `SInv` is `IInv` with the shapes of the files (`FileOK`, `OldOK`), of the daemon's life
(`LifeOK`), the places of shortcuts and contexts in components that exist (`PlacesOK`) and of
applications in what is installed (`AppsOK`).  Steps that `Registry` knows are covered by its
proofs; what is left is loading, stopping and refreshing.  For the refinement,
`StoreInv` says that the keys in the file do not clash, so that the filter refuses none at
a start in whatever order they are loaded; that what is loaded has the keys of its
group; and that every group is loaded by the time the daemon is up.  With `StaysClean`, which
is inductive as it stands, a crash loses nothing that is older than the timer.

*The file.*  `FileIsUpToDate` speaks of a daemon that is up; its invariant, `UpInv`, says the
same of every phase.  While components are loaded one by one, those that exist agree with
the file although the others are not there (`LoadingUpToDate`).  `AllLoaded` is needed beside it:
once the groups are loaded, a component that does not exist has no entries in the file, so
that a client which registers it finds none of a time before.  A request either starts
the timer or leaves alone what is compared (`ServeUpToDate`).  `WritesUpToDate` covers the
timer and the clean-ups that write at once, with the components they delete
(`WriteOutUpToDate`, `ForgetUpToDate`); a clean-up that finds nothing to delete writes
nothing, and takes no key from any shortcut.  With several contexts a shortcut that
`addAction` replaces has lost its default keys (`DefaultsKept`), and its keys with them,
so that neither is in the file when it is written.

*Upgrades.*  `ChosenKeysSurviveUpgrades` speaks of the end of a start that may have been
interrupted any number of times.  `WishInv` says where a chosen key is meanwhile, as long as
no client asks for anything: it is still in an entry that the shortcut is made from, and will
be moved (`Pending`); or it is in the application's old group, which migration reads
(`Overridden` tells which of the two wins); or it is in the group, and then, as nothing
waits to be written (`Untouched`), `UpInv` says that memory has what the filter made of
it.  The moves are proved once for what migration computes
(`MigratedPromise`) and once for loading (`LoadingWishes`).

### Only model-checked

- `PressesAreReleased` and `ChangesReachTheFile` are liveness, `ENABLED` included,
  which is out of the prover's reach.
- What the runs of section 4 refute.

No module has `RECURSIVE` operators, and no theorem needs induction over data.

## 6. Not modelled

- Friendly names and `KGlobalShortcutInfo`: stored and shown, nothing depends on them but
  the write-out timer (`Rename`).  Default keys of components without a desktop file
  likewise (`SetDefaultKeys`).
- Queries that change nothing, except the availability query, about which the
  repository makes claims.  `globalShortcutsByKey` answers for the first component with a
  match only, and `defaultShortcut` returns the active keys; both are plain from the code.
- A daemon without a platform plug-in (`_manager` null): it grabs nothing.
- `grabKey` below the chord: key codes, modifier masks, lock bits.  Two chords that come
  down to the same code are hence kept apart here, and share one grab in X.
- `dbusPath`: formatting.  Two components whose names differ only in characters that it
  replaces share a path, and the second is not reachable on the bus.
- Loading the allow-list, session shortcuts, launching an application on a press.
- Desktop files whose actions or keys change while they are installed; malformed entries
  in a file that is migrated; several triggers of one `khotkeysrc` entry.
- Timestamps, logging, D-Bus marshalling, `main.cpp`.

## 7. The plan

1. `X11Events` with the shortcut's keys changing while events are unread.
2. Desktop files that change while they are installed.
