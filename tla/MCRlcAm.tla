------------------------------- MODULE MCRlcAm -------------------------------
(* Short bearers: SN wraps in all of them.  In TwoSdus the second SDU can    *)
(* be segmented, so that the hole it leaves merges with a lost first SDU.    *)
(* It may wait in the queue, or be discarded there, while the first is sent. *)
EXTENDS RlcAm

TwoSdus == <<1, 2>>
ShortPair == <<1, 1>>
==============================================================================
