----------------------------- MODULE MCGiftWrap -----------------------------
(* GiftWrap for short rumors; none has less than 250 bytes. *)
EXTENDS GiftWrap

ShortSizes == 250..300
=============================================================================
