---------------------------- MODULE MCCommands ----------------------------
(* Two commands at a time, one after the other for ever, with a user's own   *)
(* token beside the one of the package and a release of each channel.        *)
EXTENDS Commands, TLC

MCReleases == {"latest", "next"}

Symmetric == Permutations(Commands)
=============================================================================
