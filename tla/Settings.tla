------------------------------ MODULE Settings ------------------------------
(***************************************************************************)
(* The settings file kglobalshortcutsrc around the registry: the write-out *)
(* timer, what a write puts into the file, a crash, an orderly shutdown,   *)
(* and the start that loads the file again, one component after the other, *)
(* each key past the conflict filter.                                      *)
(*                                                                         *)
(* Components whose name ends with ".desktop" (Apps) stand for installed   *)
(* applications: their shortcuts have default keys in a desktop file, only *)
(* keys that differ are written, and they come and go with the desktop     *)
(* file (KServiceActionComponent, refreshServices).                        *)
(*                                                                         *)
(* The keyboard plays no part here.  Friendly names, and the default keys  *)
(* of components other than Apps, are left out of the file.                *)
(***************************************************************************)
EXTENDS Registry

CONSTANTS
    Apps,          \* the components with a desktop file
    Desktop,       \* the shortcuts of the desktop files, and their keys, for
                   \* each kind of file that there may be, see kind
    DefaultLists,  \* the default keys clients send
    Switching,     \* bound: contexts are switched, shortcuts blocked
    Interval,      \* length of the write-out timer, in ticks
    From,          \* where shortcuts of Apps once were: X-KDE-Migrate-Shortcut
                   \* of their actions, or the entries of khotkeysrc
    FromDefault,   \* the default keys of the shortcuts that were there
    Upgrades       \* files older versions left, see SettingsInit

ASSUME AppsAssumption ==
    Apps \subseteq Components /\ Interval \in Nat /\ Switching \in BOOLEAN

\* A group of component c gives key lists to slots of c.
KeysOf(c, group) ==
    /\ group \in [DOMAIN group -> Seq(Keys \cup {<<>>})]
    /\ \A s \in DOMAIN group : s \in Slots /\ s.component = c

ASSUME DesktopAssumption ==
    /\ IsFiniteSet(Names)
    /\ \A k \in DOMAIN Desktop :
          /\ DOMAIN Desktop[k] \subseteq Names
          /\ \A n \in DOMAIN Desktop[k] : Desktop[k][n] \in Seq(Keys \cup {<<>>})

ASSUME UpgradesAssumption ==
    \A upgrade \in Upgrades :
        /\ \A c \in Components : /\ upgrade.file[c].contexts \subseteq Contexts
                               /\ KeysOf(c, upgrade.file[c].keys)
        /\ \A c \in Apps : KeysOf(c, [s \in DOMAIN upgrade.old[c] |-> upgrade.old[c][s].keys])

ASSUME FromAssumption ==
    /\ \A s \in DOMAIN From : s \in Slots /\ From[s] \in Slots /\ From[s].context = Default
    /\ \A s \in DOMAIN From : s.component \in Apps /\ From[s].component \notin Apps
    /\ \A s, t \in DOMAIN From : From[s] = From[t] => s = t

VARIABLES
    phase,       \* "down", "migrating", "loading", "detecting" or "up"
    file,        \* the group of each component in kglobalshortcutsrc
    old,         \* the groups of Apps as Plasma 5 wrote them
    left,        \* what is left of the write-out timer
    defaults,    \* _defaultKeys of the shortcuts of Apps
    installed,   \* the desktop files that exist
    refreshDue,  \* m_refreshServicesTimer runs
    kind,        \* "application" with shortcuts; "plain": an application
                 \* without, or a file marked NoDisplay; "file" in the
                 \* directory kglobalaccel; or "hotkey": such a file made
                 \* from khotkeysrc, without a key of its own
    wished       \* ghost: keys chosen before an upgrade, and none since

world == <<old, installed, kind>>
disk == <<file, defaults, refreshDue, world, wished>>
settingsVars == <<vars, phase, left, disk>>

NoKeys == [s \in {} |-> <<>>]
NoGroup == [contexts |-> {}, keys |-> NoKeys]
NoWishes == <<>>

ServiceSlots(c) ==
    [component : {c}, context : {Default}, name : DOMAIN Desktop[kind[c]]]

\* X-KDE-Shortcuts of the action behind s: without it, one empty key.
FileKeys(s) == Desktop[kind[s.component]][s.name]

\* The shortcuts that have keys of the user's in an old group.
Changed(c) == {s \in DOMAIN old[c] : old[c][s].keys # old[c][s].default}

\* The entry a shortcut of Apps was made from, if it is still there.
Source(s) == file[From[s].component].keys

Moved == {s \in DOMAIN From :
            /\ From[s] \in DOMAIN Source(s)
            /\ \/ kind[s.component] = "hotkey"
               \/ kind[s.component] = "file" /\ s.component \in installed}

Brought ==
    {s \in Moved : \/ kind[s.component] = "hotkey"
                  \/ Source(s)[From[s]] \notin {FromDefault[From[s]], FileKeys(s)}}

\* Broken: the old group is deleted before it is read.
NewKeysTooLate(c) ==
    [s \in DOMAIN file[c].keys \cup {t \in Brought : t.component = c} |->
        IF s \in Brought THEN Source(s)[From[s]] ELSE file[c].keys[s]]

\* migrateKHotkeys writes before migrateConfig reads the old groups, and the
\* dynamic shortcuts are moved last.
NewKeys(c) ==
    [s \in DOMAIN file[c].keys \cup Changed(c) \cup {t \in Brought : t.component = c} |->
        IF s \in Brought /\ (kind[c] = "hotkey" => s \notin Changed(c)) THEN Source(s)[From[s]]
        ELSE IF s \in Changed(c) THEN old[c][s].keys ELSE file[c].keys[s]]

SettingsInit ==
    /\ Init
    /\ phase = "down"
    /\ \E upgrade \in Upgrades : file = upgrade.file /\ old = upgrade.old
    /\ left = 0
    /\ defaults = [s \in Slots |-> <<>>]
    /\ installed \in SUBSET Apps
    /\ refreshDue = FALSE
    /\ kind \in [Apps -> DOMAIN Desktop]
    /\ wished =
         LET moved == {s \in DOMAIN From :
                         /\ From[s] \in DOMAIN Source(s)
                         /\ kind[s.component] \in {"file", "hotkey"}
                         /\ Source(s)[From[s]] \notin {FromDefault[From[s]], FileKeys(s)}}
             chosen(c) == {s \in DOMAIN old[c] : old[c][s].keys # old[c][s].default}
         IN  [s \in moved \cup UNION {chosen(c) : c \in Apps} |->
                IF s \in moved /\ (kind[s.component] = "hotkey" => s \notin chosen(s.component))
                THEN Source(s)[From[s]] ELSE old[s.component][s].keys]

-----------------------------------------------------------------------------
(***************************************************************************)
(* Writing.                                                                *)
(***************************************************************************)

\* Broken: only shortcuts whose application runs are written.
GroupPresent(c, remaining) ==
    LET saved == {s \in (remaining \cap present) \ fresh :
                    s.component = c /\ (c \in Apps => keys[s] # defaults[s])}
    IN  [contexts |-> IF c \in Apps THEN {s.context : s \in saved} ELSE contexts[c],
         keys     |-> [s \in saved |-> keys[s]]]

\* Component::writeSettings and KServiceActionComponent::writeSettings.
Group(c, remaining) ==
    LET saved == {s \in remaining \ fresh :
                    s.component = c /\ (c \in Apps => keys[s] # defaults[s])}
    IN  [contexts |-> IF c \in Apps THEN {s.context : s \in saved} ELSE contexts[c],
         keys     |-> [s \in saved |-> keys[s]]]

\* Broken: the group of a component that is removed stays.
WrittenKeepsSpent(remaining) ==
    [c \in Components |-> IF c \in Created \ Spent(remaining) THEN Group(c, remaining)
                                                             ELSE file[c]]

\* The file after GlobalShortcutsRegistry::writeSettings.  Groups that belong
\* to no component stay as they are.
Written(remaining) ==
    [c \in Components |->
        IF c \notin Created THEN file[c]
        ELSE IF c \in Spent(remaining) THEN NoGroup ELSE Group(c, remaining)]

\* Broken: every change starts the timer again.
ScheduledAgain == left' = IF writeout' THEN Interval ELSE 0

\* scheduleWriteSettings: a timer that runs is not started again.
Scheduled ==
    left' = IF ~writeout' THEN 0 ELSE IF writeout THEN left ELSE Interval

\* Default keys go with their object, and a new GlobalShortcut has none.
DefaultsKept(new) ==
    [s \in Slots |-> IF s \in (live \cap live') \ new THEN defaults[s] ELSE <<>>]

Tick ==
    /\ left > 0
    /\ left' = left - 1
    /\ UNCHANGED <<vars, phase, disk>>

WriteOut ==
    /\ phase = "up"
    /\ left = 0
    /\ WriteSettings
    /\ file' = Written(live')
    /\ defaults' = DefaultsKept({})
    /\ UNCHANGED <<phase, left, refreshDue, world, wished>>

\* Component::cleanUp writes at once, and leaves the timer running.
Forget(c) ==
    /\ phase = "up"
    /\ c \notin Apps
    /\ CleanUp(c)
    /\ file' = Written(live')
    /\ defaults' = DefaultsKept({})
    /\ wished' = NoWishes
    /\ UNCHANGED <<phase, left, refreshDue, world>>

\* KServiceActionComponent::cleanUp: no shortcut of the default context is
\* present any more, and those of the current context that are not present go.
\* If there are any, Component::cleanUp writes at once.
ForgetApplication(c) ==
    LET disabled == {s \in SlotsOf(c) : s.context = Default}
        absent   == {s \in SlotsOf(c) \cap CurrentSlots : s \in present => s \in disabled}
        doomed   == UNION {Siblings(s) : s \in absent}
        gone     == IF absent = {} THEN {} ELSE Spent(live \ doomed)
    IN  /\ phase = "up"
        /\ c \in Apps \cap Created
        /\ Retire(disabled, doomed, gone)
        /\ Erase(gone)
        /\ file' = IF absent = {} THEN file ELSE Written(live')
        /\ defaults' = DefaultsKept({})
        /\ wished' = NoWishes
        /\ UNCHANGED <<writeout, phase, left, refreshDue, world>>

-----------------------------------------------------------------------------
(***************************************************************************)
(* Loading.  registerShortcut puts the keys of wanted, an assignment of    *)
(* keys to slots of component c, past the conflict filter: keys loaded     *)
(* before, by components in their current context or in the same group,    *)
(* are taken.  The order of the shortcuts of a group is any.               *)
(***************************************************************************)
Orders == {f \in [Names -> 1 .. Cardinality(Names)] :
             \A m, n \in Names : f[m] = f[n] => m = n}

Places(wanted) == UNION {{s} \X DOMAIN wanted[s] : s \in DOMAIN wanted}

\* Broken: a key is taken from the file whatever the others have.
PastNoFilter(wanted, rank, accepted) == accepted = Places(wanted)

PastFilter(wanted, rank, accepted) ==
    \A p \in Places(wanted) :
        LET s   == p[1]
            key == wanted[s][p[2]]
        IN  p \in accepted <=>
              /\ key # <<>>
              /\ \A t \in CurrentSlots : \A other \in KeySet(keys[t]) :
                    <<key, other>> \notin Clashing
              /\ \A q \in accepted :
                    /\ q[1].context = s.context
                    /\ \/ rank[q[1].name] < rank[s.name]
                       \/ q[1] = s /\ q[2] < p[2]
                    => <<key, wanted[q[1]][q[2]]>> \notin Clashing

\* Create component c, load it, and add the actions in added, which replace
\* what was loaded in their slots.  Shortcuts of desktop files are present, so
\* active, from the start, others when their application registers them.  No
\* two loaded shortcuts have a key in common, so none loses one to another.
Load(c, wanted, added) ==
    LET new     == DOMAIN wanted
        active  == IF c \in Apps THEN new ELSE {}
        claimed(list) == Claimed(active, list, DOMAIN activeKeys)
        owner(k, list) == CHOOSE s \in active : k \in KeySet(list[s])
    IN  \E rank \in Orders, accepted \in SUBSET Places(wanted) :
        LET list == [s \in new |->
                       [i \in DOMAIN wanted[s] |->
                          IF <<s, i>> \in accepted THEN wanted[s][i] ELSE <<>>]]
        IN
        /\ PastFilter(wanted, rank, accepted)
        /\ components' = Append(components, c)
        /\ contexts' = [contexts EXCEPT ![c] = {Default} \cup {s.context : s \in added}
                          \cup IF c \in Apps THEN {} ELSE file[c].contexts]
        /\ live' = live \cup new \cup added
        /\ keys' = [s \in Slots |-> IF s \in added THEN <<>>
                                    ELSE IF s \in new THEN list[s] ELSE keys[s]]
        /\ defaults' = [s \in Slots |-> IF s \in active \ added THEN FileKeys(s)
                                                               ELSE defaults[s]]
        /\ present' = present \cup (active \ added)
        /\ registered' = registered \cup (active \ added)
        /\ fresh' = fresh \cup added
        /\ activeKeys' = [k \in DOMAIN activeKeys \cup claimed(list) |->
                            IF k \in DOMAIN activeKeys THEN activeKeys[k]
                            ELSE IF owner(k, list) \in added THEN Leaked(owner(k, list))
                                                            ELSE Live(owner(k, list))]
        /\ keysCount' = [x \in Chords |->
                            keysCount[x] + Cardinality(Uses(x, claimed(list)))]
        /\ grabbed' = grabbed \cup {x \in Chords : Uses(x, claimed(list)) # {}}
        /\ Quiet
        /\ UNCHANGED <<current, refused, writeout, left, file, world>>

\* loadFromService and KServiceActionComponent::loadSettings.
FromService(c) == [s \in ServiceSlots(c) |-> FileKeys(s)]

FromGroup(c) ==
    [s \in ServiceSlots(c) |->
        IF s \in DOMAIN file[c].keys THEN file[c].keys[s] ELSE FileKeys(s)]

Missing == installed \ Created

Start ==
    /\ phase = "down"
    /\ phase' = "migrating"
    /\ UNCHANGED <<vars, left, disk>>

(***************************************************************************)
(* Migration.  The desktop files of khotkeys are written one by one, and   *)
(* at once; what changes in kglobalshortcutsrc is written at the end.      *)
(***************************************************************************)
HotkeyFile(c) ==
    /\ phase = "migrating"
    /\ c \notin installed
    /\ kind[c] = "hotkey"
    /\ \E s \in Moved : s.component = c
    /\ installed' = installed \cup {c}
    /\ UNCHANGED <<vars, phase, file, left, defaults, old, refreshDue, kind, wished>>

\* What is left of a group without the entries that moved to desktop files.
\* If that was the last one but the friendly name, the contexts go with it.
LeftOf(c) ==
    LET gone == {From[s] : s \in {t \in Moved : From[t].component = c}}
        kept == [s \in DOMAIN file[c].keys \ gone |-> file[c].keys[s]]
        named == \A s \in DOMAIN kept : s.context # Default
    IN  IF named /\ \E s \in Moved : From[s].component = c /\ kind[s.component] = "file"
        THEN NoGroup ELSE [contexts |-> file[c].contexts, keys |-> kept]

AppGroup(list) == [contexts |-> {s.context : s \in DOMAIN list}, keys |-> list]

Migrated == [c \in Components |-> IF c \in Apps THEN AppGroup(NewKeys(c)) ELSE LeftOf(c)]

Migrate ==
    /\ phase = "migrating"
    /\ \A s \in Moved : s.component \in installed
    /\ phase' = "loading"
    /\ file' = Migrated
    /\ old' = [c \in Apps |-> NoKeys]
    /\ UNCHANGED <<vars, left, defaults, installed, refreshDue, kind, wished>>

Grouped == {c \in Components : file[c] # NoGroup}

LoadGroup(c) ==
    /\ phase = "loading"
    /\ c \in Grouped \ (Apps \cup Created)
    /\ Load(c, file[c].keys, {})
    /\ UNCHANGED <<phase, refreshDue, wished>>

\* The group of a desktop file that is gone is skipped, but kept in the file.
LoadServiceGroup(c) ==
    /\ phase = "loading"
    /\ Grouped \subseteq Created \cup Apps
    /\ c \in Grouped \cap Missing
    /\ Load(c, FromGroup(c), {})
    /\ UNCHANGED <<phase, refreshDue, wished>>

\* Files marked NoDisplay are skipped.
LoadServiceFile(c) ==
    /\ phase = "loading"
    /\ Grouped \cap (Missing \cup (Components \ Apps)) \subseteq Created
    /\ c \in Missing
    /\ kind[c] \in {"file", "hotkey"}
    /\ Load(c, FromService(c), {})
    /\ UNCHANGED <<phase, refreshDue, wished>>

Loaded ==
    /\ phase = "loading"
    /\ Grouped \cap (Missing \cup (Components \ Apps)) \subseteq Created
    /\ \A c \in Missing : kind[c] \notin {"file", "hotkey"}
    /\ phase' = "detecting"
    /\ UNCHANGED <<vars, left, disk>>

(***************************************************************************)
(* detectAppsWithShortcuts, the end of the start and of refreshServices.   *)
(***************************************************************************)
Detectable == {c \in Missing : kind[c] = "application"}

DetectApp(c) ==
    /\ phase = "detecting"
    /\ c \in Detectable
    /\ Load(c, IF c \in Grouped THEN FromGroup(c) ELSE FromService(c), {})
    /\ UNCHANGED <<phase, refreshDue, wished>>

Detected ==
    /\ phase = "detecting"
    /\ Detectable = {}
    /\ phase' = "up"
    /\ UNCHANGED <<vars, left, disk>>

\* An application is installed or removed: ksycoca tells the daemon.
DesktopFileChanges(c) ==
    /\ phase \in {"up", "down"}
    /\ installed' = IF c \in installed THEN installed \ {c} ELSE installed \cup {c}
    /\ refreshDue' = (phase = "up")
    /\ UNCHANGED <<vars, phase, file, left, defaults, old, kind, wished>>

\* Broken: only new applications are looked for.
RefreshServicesAdds ==
    /\ phase = "up"
    /\ refreshDue
    /\ phase' = "detecting"
    /\ refreshDue' = FALSE
    /\ Quiet
    /\ UNCHANGED <<place, book, grabs, refused, writeout, left, file, defaults, world, wished>>

\* refreshServices: components of removed desktop files go, unwritten.
RefreshServices ==
    LET gone == (Created \cap Apps) \ installed
    IN  /\ phase = "up"
        /\ refreshDue
        /\ Delete({}, gone)
        /\ Erase(gone)
        /\ phase' = "detecting"
        /\ refreshDue' = FALSE
        /\ defaults' = DefaultsKept({})
        /\ UNCHANGED <<writeout, left, file, world, wished>>

-----------------------------------------------------------------------------
(***************************************************************************)
(* Requests, and the end of the daemon.                                    *)
(***************************************************************************)

\* KGlobalAccelDPrivate::addAction for a desktop file without component: it is
\* created with the shortcuts of the file, and the action added to them.
AddApplication(id) ==
    /\ phase = "up"
    /\ id.component \in Missing
    /\ Load(id.component, FromService(id.component), {Home(id)})
    /\ wished' = NoWishes
    /\ UNCHANGED <<phase, refreshDue>>

SetDefaults(id) ==
    \E list \in DefaultLists :
        /\ SetDefaultKeys(id)
        /\ defaults' = IF id.component \in Apps
                       THEN [defaults EXCEPT ![Target(id)] = list] ELSE defaults

\* doRegister.  AddAction may replace the object in a slot.
Register(id) ==
    \/ Rename(id) /\ defaults' = DefaultsKept({})
    \/ /\ id.component \in Apps => id.component \in Created
       /\ AddAction(id)
       /\ defaults' = DefaultsKept({Home(id)})

\* setShortcutKeys without IsDefault, and setForeignShortcutKeys.
ChangeKeys(id) ==
    /\ \/ Autoload(id)
       \/ \E list \in KeyLists :
             \/ \E setPresent, autoloading \in BOOLEAN :
                   SetShortcutKeys(id, list, setPresent, autoloading)
             \/ SetForeignShortcutKeys(id, list)
    /\ defaults' = DefaultsKept({})

\* setInactive and unregister.
Withdraw(id) ==
    /\ SetInactive(id) \/ Unregister(id)
    /\ defaults' = DefaultsKept({})

Serve ==
    /\ phase = "up"
    /\ \/ \E id \in Ids : SetDefaults(id) \/ Register(id) \/ ChangeKeys(id) \/ Withdraw(id)
       \/ /\ Switching
          /\ \/ \E c \in Components, context \in Contexts :
                   ActivateContext(c, context) \/ CreateContext(c, context)
             \/ BlockGlobalShortcuts
             \/ UnblockGlobalShortcuts
          /\ UNCHANGED defaults
    /\ Scheduled
    /\ wished' = NoWishes
    /\ UNCHANGED <<phase, file, refreshDue, world>>

\* The registry and the timers are gone with the process.
Stopped ==
    /\ phase' = "down"
    /\ components' = <<>>
    /\ contexts' = [c \in Components |-> {}]
    /\ current' = [c \in Components |-> Default]
    /\ live' = {} /\ present' = {} /\ registered' = {} /\ fresh' = {}
    /\ keys' = [s \in Slots |-> <<>>]
    /\ activeKeys' = [k \in {} |-> None]
    /\ keysCount' = [c \in Chords |-> 0]
    /\ grabbed' = {}
    /\ last' = None /\ owed' = {} /\ out' = <<>>
    /\ writeout' = FALSE
    /\ left' = 0
    /\ defaults' = [s \in Slots |-> <<>>]
    /\ refreshDue' = FALSE
    /\ UNCHANGED <<refused, world, wished>>

Crash ==
    /\ phase # "down"
    /\ Stopped
    /\ UNCHANGED file

\* Broken: what the timer has not written yet is not written.
ShutDownUnwritten ==
    /\ phase = "up"
    /\ Stopped
    /\ UNCHANGED file

\* KGlobalAccelD::~KGlobalAccelD, where the process gets to it: nothing in
\* main.cpp handles SIGTERM, so a daemon killed by it is one that crashes.
ShutDown ==
    /\ phase = "up"
    /\ Stopped
    /\ file' = IF writeout THEN Written(live) ELSE file

SettingsNext ==
    \/ Serve
    \/ Tick
    \/ WriteOut
    \/ RefreshServices
    \/ \E c \in Components : Forget(c) \/ ForgetApplication(c)
    \/ \E c \in Components : LoadGroup(c) \/ LoadServiceGroup(c) \/ LoadServiceFile(c)
    \/ \E c \in Apps : HotkeyFile(c) \/ DetectApp(c) \/ DesktopFileChanges(c)
    \/ \E id \in Ids : AddApplication(id)
    \/ Start \/ Migrate \/ Loaded \/ Detected
    \/ Crash \/ ShutDown

\* Timers fire and the start goes on as long as the process runs.  Nobody is
\* bound to send requests, and nothing to start the daemon.
SettingsSpec ==
    /\ SettingsInit
    /\ [][SettingsNext]_settingsVars
    /\ WF_settingsVars(Tick)
    /\ WF_settingsVars(WriteOut)

-----------------------------------------------------------------------------
(***************************************************************************)
(* The settings are a durable store: what is in memory differs from the    *)
(* file only while a write-out is pending, so that a crash loses no change *)
(* older than the timer, and the next start brings back exactly what was   *)
(* stored: no key is lost on the way through the conflict filter of        *)
(* setKeys, and none is gained.  (Daemon without desktop files, every      *)
(* component in one context.)                                              *)
(***************************************************************************)
Stored == [c \in Components |-> file[c].keys]

InMemory == [c \in Components |-> Group(c, live).keys]

Store == INSTANCE DurableStore WITH
            memory <- IF phase = "up" THEN InMemory ELSE Stored,
            disk   <- Stored,
            dirty  <- writeout

ImplementsStore == Store!Spec

(***************************************************************************)
(* An orderly shutdown loses nothing, whether the timer runs or not        *)
(* (~KGlobalAccelD).                                                       *)
(***************************************************************************)
ShutDownLosesNothing == [][ShutDown => Stored' = InMemory]_settingsVars

(***************************************************************************)
(* While the daemon runs, every change reaches the file, however fast      *)
(* further changes follow, unless the setting is changed again: the timer  *)
(* is not pushed back (scheduleWriteSettings).                             *)
(***************************************************************************)
ChangesReachTheFile ==
    \A s \in Slots : \A list \in KeyLists :
        (phase = "up" /\ s \in live \ fresh /\ keys[s] = list)
            ~> \/ s \in DOMAIN Stored[s.component] /\ Stored[s.component][s] = list
               \/ phase # "up" \/ s \notin live \ fresh \/ keys[s] # list

(***************************************************************************)
(* While nothing waits to be written, the file says what is in memory:     *)
(* every shortcut has the keys that a start would read for it, from the    *)
(* file or else from its desktop file, but for those that the conflict     *)
(* filter refuses; and every shortcut in the file exists, unless its       *)
(* desktop file is gone.  So applications that are removed and come back   *)
(* find the keys the user gave them.  Of the shortcuts of an application   *)
(* this is said of those in its desktop file, as long as nobody sends      *)
(* other default keys for them, and not while a client has registered an   *)
(* action and not yet set its keys: if that created the component, it was  *)
(* loaded from the desktop file, whatever the settings say.                *)
(***************************************************************************)
Recorded(s) == IF s \in DOMAIN file[s.component].keys
               THEN file[s.component].keys[s] ELSE FileKeys(s)

OfFile(s) == s.component \in Apps => s \in ServiceSlots(s.component)

Kept(s) == s.component \in Apps =>
              /\ s \in ServiceSlots(s.component)
              /\ defaults[s] = FileKeys(s)
              /\ \A t \in fresh : t.component # s.component

UpToDate ==
    /\ \A s \in {t \in live \ fresh : Kept(t)} :
          /\ s \in DOMAIN file[s.component].keys \/ s.component \in Apps
          /\ DOMAIN keys[s] = DOMAIN Recorded(s)
          /\ \A i \in DOMAIN keys[s] : keys[s][i] \in {Recorded(s)[i], <<>>}
    /\ \A c \in Created : {s \in DOMAIN file[c].keys : OfFile(s)} \subseteq live

FileIsUpToDate == phase = "up" /\ ~writeout => UpToDate

(***************************************************************************)
(* An orderly shutdown loses nothing of an application's shortcuts either, *)
(* whether the timer runs or not: each has the keys that the next start    *)
(* would read for it, but for those that the conflict filter refused       *)
(* (~KGlobalAccelD, Component::writeSettings).  It does lose those of a    *)
(* component with nothing left in the default context.                     *)
(***************************************************************************)
ShutDownKeepsKeys ==
    [][ShutDown =>
         \A s \in {t \in live \ fresh : Kept(t) /\ t.component \notin Spent(live)} :
            /\ s \in DOMAIN file'[s.component].keys \/ s.component \in Apps
            /\ DOMAIN keys[s] = DOMAIN Recorded(s)'
            /\ \A i \in DOMAIN keys[s] : keys[s][i] \in {Recorded(s)'[i], <<>>}
      ]_settingsVars

(***************************************************************************)
(* Keys that the user had chosen in a file of an older version are those   *)
(* that the daemon has once it is up, whatever crashed on the way, until a *)
(* client asks for other ones, but for keys that the conflict filter       *)
(* refuses (migrateKHotkeys, migrateConfig).                               *)
(***************************************************************************)
ChosenKeysSurviveUpgrades ==
    phase = "up" =>
        \A s \in DOMAIN wished \cap live :
            /\ DOMAIN keys[s] = DOMAIN wished[s]
            /\ \A i \in DOMAIN keys[s] : keys[s][i] \in {wished[s][i], <<>>}

(***************************************************************************)
(* Once the daemon has noticed that an application is gone, none of its    *)
(* keys is grabbed any more (refreshServices), save by an object that      *)
(* addAction replaced.                                                     *)
(***************************************************************************)
RemovedAppsHoldNoKeys ==
    phase = "up" /\ ~refreshDue =>
        \A k \in DOMAIN activeKeys :
            LET owner == activeKeys[k]
            IN  owner.slot.component \in Apps /\ owner.state = "live"
                    => owner.slot.component \in installed
=============================================================================
