----------------------------- MODULE MCSettings -----------------------------
(***************************************************************************)
(* Instances of Settings for TLC.                                          *)
(***************************************************************************)
EXTENDS Settings, TLC

CONSTANTS default, other

Id(c, x, n) == [component |-> c, context |-> x, name |-> n]
Slot(c, x, n) == Id(c, x, n)

kx == <<Chord({"Meta"}, "X")>>
ky == <<Chord({"Meta"}, "Y")>>

MCBlockShortcut == <<"kwin", "Block Global Shortcuts">>

OneContext == {default}
MCKeys == {kx, ky}

-----------------------------------------------------------------------------
\* Two components, a shortcut each.
TwoComponents == {"kmail", "kwin"}
OneName == {"open"}
PlainIds == {Id("kmail", Plain, "open"), Id("kwin", Plain, "open")}
PlainLists == {<<kx>>, <<kx, ky>>}
PlainAllowed == TwoComponents \X OneName
Nowhere == <<>>
NoUpgrades == {[file |-> [c \in TwoComponents |-> NoGroup], old |-> <<>>]}

-----------------------------------------------------------------------------
\* An application with a desktop file, and a component without one.
AppAndComponent == {"khotkeys", "app.desktop"}
App == {"app.desktop"}
AppNames == {"_launch", "new"}
AppDesktop ==
    "application" :> ("_launch" :> <<kx>> @@ "new" :> <<<<>>>>)
    @@ "file" :> ("_launch" :> <<kx>>)
    @@ [k \in {"plain", "hotkey"} |-> "_launch" :> <<<<>>>>]
AppDefaults == {<<kx>>}
AppIds == {Id("khotkeys", Plain, "new"), Id("app.desktop", Plain, "_launch")}
AppLists == {<<kx>>, <<ky>>}
AppAllowed == AppAndComponent \X AppNames

Launch == Slot("app.desktop", default, "_launch")
New    == Slot("khotkeys", default, "new")
AppFrom == Launch :> New
AppFromDefault == New :> <<kx>>

\* Older files: nothing, the application's group as Plasma 5 wrote it, with
\* default keys or others, or the entry its shortcut was made from.
Before(groups, entries) ==
    [file |-> [c \in AppAndComponent |->
                IF c \in App \/ entries = NoKeys THEN NoGroup
                                             ELSE [contexts |-> {default}, keys |-> entries]],
     old  |-> [c \in App |-> groups]]

OldDefaults  == Launch :> [keys |-> <<kx>>, default |-> <<kx>>]
LaunchChosen == Launch :> [keys |-> <<ky>>, default |-> <<kx>>]
ActionChosen == Slot("app.desktop", default, "new") :> [keys |-> <<ky>>, default |-> <<<<>>>>]

AppUpgrades ==
    {Before(groups, NoKeys) :
        groups \in {NoKeys, OldDefaults @@ ActionChosen, LaunchChosen}}
    \cup {Before(NoKeys, New :> list) : list \in AppLists}
=============================================================================
