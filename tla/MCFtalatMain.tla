----------------------------- MODULE MCFtalatMain -----------------------------
(* Two or three cores, of which the first two form a frequency domain.     *)
EXTENDS FtalatMain, TLC

MCAvailable == [c \in Cores |-> <<2500, 1500>>]
MCRelated == [c \in Cores |-> IF c < 2 THEN <<0, 1>> ELSE <<c>>]

(* A machine of three cores whose core 2 is offline: two are counted, but  *)
(* the related_cpus of core 1, of the same domain, lists core 2 as well.   *)
OfflineRelated == 0 :> <<0>> @@ 1 :> <<1, 2>>

ASSUME InstanceLowestLast == LowestLast

=============================================================================
