---------------------------- MODULE MCKnownGood ----------------------------
(* Three items: "bridge" is in the snapshot and in the track, "shortcut"   *)
(* is in the snapshot and not always there, "relay" (such as               *)
(* uu-shared-physical-vnc) is not in the list of the snapshot.             *)
EXTENDS KnownGood

Runtime(b, s, r) ==
  [i \in {"bridge", "shortcut", "relay"} |->
     CASE i = "bridge" -> b [] i = "shortcut" -> s [] i = "relay" -> r]

MCItems == {"bridge", "shortcut", "relay"}
MCListed == {"bridge", "shortcut"}
MCContents == {"old", "good", Missing, Torn}
MCTrack == Runtime("good", "good", "good")
MCRuntimes == {Runtime("old", Missing, "old"), Runtime("old", "old", "old")}
=============================================================================
