---------------------------- MODULE MCRendezvous -----------------------------
(* Rendezvous with named processes.                                        *)
EXTENDS Rendezvous

CONSTANTS a1, a2, h1, h2

MCAdapters == {a1, a2}
MCHosts == {h1, h2}
==============================================================================
