--------------------------- MODULE MCOrderListing ---------------------------
(***************************************************************************)
(* A small instance of OrderListing: four orders, two to a page, and two    *)
(* ticks of the clock to a second.                                          *)
(***************************************************************************)
EXTENDS OrderListing

MCOrders == 1..4
=============================================================================
