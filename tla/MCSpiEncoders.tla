---------------------------- MODULE MCSpiEncoders ----------------------------
(***************************************************************************)
(* Instances of SpiEncoders: the first and the last channel fitted, and    *)
(* calls for them, for one without an encoder and for one that is none.    *)
(***************************************************************************)
EXTENDS SpiEncoders

TheCalls ==
  { EncCall("readEncoderPosition", 0), EncCall("readEncoderPosition", 15),
    EncCall("readEncoderPosition", 3), EncCall("resetEncoder", 15),
    EncCall("readTurns", 0), EncCall("readTurns", 16) }
=============================================================================
