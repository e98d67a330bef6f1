------------------------------- MODULE MCRelay -------------------------------
(***************************************************************************)
(* Small instances of Relay.                                               *)
(***************************************************************************)
EXTENDS Relay, TLC

CONSTANTS d1, d2, c1, c2

OnlyReports == {{"device.event"}}
Interchangeable == Permutations(Devices)

(* "After @stop the list of subscribers is empty" (test_stream.py:92).  False
   when a send has failed: the connection ended without its clean-up.         *)
AllForgottenAtStop == phase = "down" => clients = {}

=============================================================================
