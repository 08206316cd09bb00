--------------------------- MODULE MCObjectCapture ----------------------------
(* Two objects in two buckets, the first with an ETag, the other without.   *)
EXTENDS ObjectCapture

CONSTANTS o1, o2, b1, b2
TwoObjects == <<o1, o2>>
Lists == {<<>>, <<o1>>, <<o2>>, <<o1, o2>>}
Homes == (o1 :> b1) @@ (o2 :> b2)

=============================================================================
