----------------------------- MODULE MCRegistry -----------------------------
(***************************************************************************)
(* Instances of Registry for TLC.                                          *)
(***************************************************************************)
EXTENDS RegistryClaims, GrabLoop

CONSTANTS default, other

Id(c, x, n) == [component |-> c, context |-> x, name |-> n]

x == Chord({"Meta"}, "X")
y == Chord({"Meta"}, "Y")

kx  == <<x>>
ky  == <<y>>
kxy == <<x, y>>
kyx == <<y, x>>
kxx == <<x, x>>
km  == <<Chord({}, "Meta")>>

TwoComponents == {"kmail", "kwin"}

MCBlockShortcut == <<"kwin", "Block Global Shortcuts">>

MCNames == {"open", "send", "Block Global Shortcuts"}

AllAllowed == TwoComponents \X MCNames

-----------------------------------------------------------------------------
\* One context, as every client of today uses it: two shortcuts of one
\* component, one of another that BlockGlobalShortcuts spares.
OneContext == {default}
OneContextIds ==
    {Id("kmail", Plain, "open"), Id("kmail", Plain, "send"),
     Id("kwin", Plain, "Block Global Shortcuts")}
OneContextKeys == {kx, kxy, kyx}
OneContextLists == {<<kxy, kx>>, <<kyx, kxy>>}

\* One context, where another X client may hold the chord y: a shortcut of
\* each of two components, with a key that is refused and one that may be.
RefusedChords == {y}
RefusedIds ==
    {Id("kmail", Plain, "open"), Id("kwin", Plain, "Block Global Shortcuts")}

\* An allow-list that leaves one shortcut out.
ListedOnly == AllAllowed \ {<<"kmail", "send">>}

-----------------------------------------------------------------------------
\* Two contexts: a shortcut in either context of a component, reached with and
\* without naming the context.
TwoContexts == {default, other}
TwoContextIds ==
    {Id("kmail", Plain, "open"), Id("kmail", default, "open"),
     Id("kmail", other, "open")}
TwoContextKeys == {kx, kxx, km}
TwoContextLists == {<<kxx, km>>}
=============================================================================
