------------------------------ MODULE MCRoutes ------------------------------
(* TLC instance of Routes; the cfg file gives the constants.               *)
EXTENDS Routes

CONSTANTS page, simulator

TwoClients == {page, simulator}

=============================================================================
