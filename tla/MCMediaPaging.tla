---------------------------- MODULE MCMediaPaging ----------------------------
(* Instances of MediaPaging for TLC: two videos and two photos whose ids    *)
(* overlap, two values and NULL to sort by.                                 *)
EXTENDS MediaPaging

SomeItems == { <<"video", 1>>, <<"video", 2>>, <<"photo", 1>>, <<"photo", 2>> }
AllOrders == [by : {"column", "added"}, asc : BOOLEAN]
=============================================================================
