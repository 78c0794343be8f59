---------------------------- MODULE MCHubSession ----------------------------
(* Two hosts to look up and one hub that is known by its address.          *)
EXTENDS HubSession
CONSTANTS h1, h2, a1, l1, l2, l3

MCHost     == {h1, h2}
MCAddress  == {a1}
MCLookupId == {l1, l2, l3}
=============================================================================
