------------------------------ MODULE MCMediaFile ------------------------------
(* MediaFile with sizes that the two formulas round in both directions.    *)
EXTENDS MediaFile

MCSizes == {[w |-> 5, h |-> 3], [w |-> 8, h |-> 2]}
MCScreen == [w |-> 16, h |-> 2]

=============================================================================
