---------------------------- MODULE MCX11Events ----------------------------
(***************************************************************************)
(* X11Events for TLC: one shortcut, triggered by Meta+X and by Meta alone, *)
(* and a keyboard with Meta, X and a key that has no code.                 *)
(***************************************************************************)
EXTENDS X11Events

CONSTANT default

x    == Chord({"Meta"}, "X")
meta == Chord({}, "Meta")

MCKeys      == {<<x>>, <<meta>>}
MCLists     == {<<<<x>>, <<meta>>>>}
MCSyms      == {"Super_L", "X", NoSym}
MCIds       == {[component |-> "kmail", context |-> "Plain", name |-> "open"]}
MCAllowed   == {<<"kmail", "open">>}
MCRefusable == {meta}
MCAssigned  == [s \in Slots |-> <<<<x>>, <<meta>>>>]
=============================================================================
