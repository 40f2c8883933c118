-------------------------------- MODULE MCHub --------------------------------
(***************************************************************************)
(* Small instances of Hub for TLC.  The jobs keep their names' order: the  *)
(* catalogue sync, the dispatcher, an offers job that a second release     *)
(* adds, and the expiry of reservations.                                   *)
(***************************************************************************)
EXTENDS Hub, TLC

CONSTANTS sync, dispatch, nudge, expire, i1, i2

NameOrder == <<sync, dispatch, nudge, expire>>
OneRelease == {{sync, dispatch, expire}}
TwoReleases == {{sync, dispatch, expire}, {sync, dispatch, nudge, expire}}
ShortDelays == <<1, 2>>
=============================================================================
