--------------------------- MODULE MCSettingsLobby ---------------------------
(* Small instances of SettingsLobby for TLC. *)
EXTENDS SettingsLobby

MCDefault == [vote |-> 0, resign |-> 0]
MCTwoSettings == {MCDefault, [vote |-> 1, resign |-> 0]}
\* Also settings that differ from the default in the resign vote only.
MCSettings == MCTwoSettings \cup {[vote |-> 0, resign |-> 1]}
=============================================================================
