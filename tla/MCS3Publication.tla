--------------------------- MODULE MCS3Publication --------------------------
(* Small instances of S3Publication for TLC. *)
EXTENDS S3Publication, TLC

CONSTANTS p1, p2, a, b

TwoProcs == {p1, p2}
TwoParts == {a, b}
Interchangeable == Permutations({p1, p2}) \cup Permutations({a, b})

=============================================================================
