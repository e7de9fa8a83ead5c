--------------------------- MODULE MCControlPlane ---------------------------
(* Two requests at once.  Nothing in the program looks an ASN up.          *)
EXTENDS ControlPlane

CONSTANTS r1, r2, vn

MCRequests == {r1, r2}
MCCodes == [d \in Databases |-> IF d = "country" THEN {vn} ELSE {}]

\* Both databases, or none that fits.
MCDisks ==
    {[d \in Databases |-> 1],
     [d \in Databases |-> IF d = "asn" THEN OtherType ELSE None]}
=============================================================================
