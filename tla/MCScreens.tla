------------------------------ MODULE MCScreens ------------------------------
(***************************************************************************)
(* Screens, for every query of the web application beside every command of  *)
(* the pages it is on.                                                      *)
(***************************************************************************)
EXTENDS Screens, OfficeScreens, StaffScreens, PlatformScreens

WebQueries    == OfficeQueries \cup StaffQueries \cup PlatformQueries
WebCommands   == OfficeCommands \cup StaffCommands \cup PlatformCommands
WebOverlooked == OfficeOverlooked \cup StaffOverlooked \cup PlatformOverlooked
WebWatched    == OfficeWatched \cup StaffWatched \cup PlatformWatched
=============================================================================
