--------------------------- MODULE MCStoreContract --------------------------
(* StoreContract over the sample units.                                    *)
EXTENDS StoreContract, SampleUnits
=============================================================================
