------------------------------ MODULE MCService ------------------------------
(* Two backends and four contents of the file: two entries; the first changed *)
(* in its connection and the second removed; the first removed and the second *)
(* changed in another field; none.                                            *)
EXTENDS Service

CONSTANTS b1, b2

Entries(x, y) == [b \in Backends |-> CASE b = b1 -> x [] b = b2 -> y]

MCFirst == Entries(<<1, 0>>, <<1, 0>>)

MCConfigs ==
    {MCFirst, Entries(<<2, 0>>, Absent), Entries(Absent, <<1, 1>>),
     Entries(Absent, Absent)}
=============================================================================
