--------------------------- MODULE RegistryClaims ---------------------------
(***************************************************************************)
(* What the daemon's documentation, comments and assertions say about the  *)
(* registry, stated of the model.  Each definition quotes the text it      *)
(* formalises; the runs show that the code does otherwise.                 *)
(***************************************************************************)
EXTENDS Registry

(***************************************************************************)
(* globalshortcutsregistry.cpp:354: "The shortcuts should have             *)
(* deregistered themselves", asserted once the components are destroyed.   *)
(* An object that addAction replaced in its context never is.              *)
(***************************************************************************)
NoComponentsNoActiveKeys == components = <<>> => DOMAIN activeKeys = {}

(***************************************************************************)
(* README.md:28: "If a shortcut is not present in the allowlist, it will   *)
(* be ignored".  Its press ends the hold of another shortcut, and does so  *)
(* again whenever it is pressed.                                           *)
(***************************************************************************)
IgnoredPressesAreSilent ==
    [][\A key \in Keys, kind \in {"Pressed", "Repeated"} :
         /\ KeyPressed(key, kind)
         /\ \A s \in Lookup(key) : <<s.component, s.name>> \notin Allowed
         => out' = <<>>]_vars

(***************************************************************************)
(* globalshortcut.h:43: "Check if the shortcut is active. It's keys are    *)
(* grabbed".  processKey triggers active shortcuts only, and unregisterKey *)
(* forgets m_lastShortcut when it gives up a key of that shortcut, so were *)
(* this true, m_lastShortcut could not outlive its shortcut.  setActive    *)
(* marks a shortcut active even where registerKey fails.                   *)
(***************************************************************************)
HeldIsNeverStale == last # None => last.state # "dangling"
=============================================================================
