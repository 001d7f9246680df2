------------------------- MODULE MCEnvelopeCreation -------------------------
(* Clients of one envelope for TLC, one with a directory of keys of its own. *)
EXTENDS EnvelopeCreation

MCClients == {"first", "poor", "other", "named", "direct"}

MCSpecs == [c \in MCClients |-> IF c \in {"other", "direct"} THEN "eur" ELSE "usd"]

MCRoots == [c \in MCClients |-> IF c = "other" THEN "elsewhere" ELSE "home"]
=============================================================================
