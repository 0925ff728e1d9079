------------------------------ MODULE PlaylistIds ------------------------------
(***************************************************************************)
(* The ids by which the programs that follow the server name its           *)
(* playlists; a room has the id of its playlist.                           *)
(***************************************************************************)
CONSTANT Playlists

None == "none"

ASSUME PlaylistsAssumption == None \notin Playlists

===============================================================================
