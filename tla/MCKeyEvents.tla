---------------------------- MODULE MCKeyEvents ----------------------------
(***************************************************************************)
(* Instances of KeyEvents for TLC.                                         *)
(***************************************************************************)
EXTENDS KeyEvents

CONSTANT default

x     == Chord({"Meta"}, "X")
y     == Chord({"Meta"}, "Y")
meta  == Chord({}, "Meta")
both  == Chord({"Meta", "Shift"}, NoSym)

IdsOf(names) == [component : {"kmail"}, context : {"Plain"}, name : names]

-----------------------------------------------------------------------------
\* Taps: one shortcut, with keys that are modifiers alone, a modifier with a
\* letter, and both in a row; a keyboard with a left and a right Meta key,
\* Shift, a letter and a key that has no code.
TapIds     == IdsOf({"open"})
TapKeys    == {<<x>>, <<meta>>, <<both>>, <<x, meta>>}
TapLists   == {<<<<meta>>, <<x>>>>, <<<<both>>>>, <<<<x, meta>>>>}
TapSyms    == {"Super_L", "Super_R", "Shift", "X", NoSym}
TapAllowed == {<<"kmail", "open">>}

-----------------------------------------------------------------------------
\* Chords: two shortcuts, of which the allow-list names one, and a keyboard to
\* hold one while the other is typed or tapped.
ChordIds     == IdsOf({"open", "send"})
ChordKeys    == {<<x>>, <<y>>, <<meta>>}
ChordLists   == {<<<<x>>, <<meta>>>>, <<<<y>>>>}
ChordSyms    == {"Meta", "X", "Y"}
ChordAllowed == {<<"kmail", "open">>}
=============================================================================
