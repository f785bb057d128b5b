------------------------------- MODULE Remote -------------------------------
(***************************************************************************)
(* The two halves of a remote session: how connections are set up between  *)
(* several clients and a server (Session), and what goes over those of one *)
(* client once they are (RemoteRead).  A behaviour is of one half: where   *)
(* the connections are being set up no call is made yet.                   *)
(***************************************************************************)
EXTENDS RemoteRead, Session

RInit == Init /\ SessionInit

RNext ==
    \/ mode = "off" /\ Next /\ UNCHANGED svars
    \/ mode # "off" /\ SessionNext /\ UNCHANGED vars

(* As in RemoteRead: every thread of the session runs. *)
RSpec == RInit /\ [][RNext]_<<vars, svars>> /\ Fairness
=============================================================================
