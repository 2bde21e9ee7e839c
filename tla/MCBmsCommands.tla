---------------------------- MODULE MCBmsCommands ----------------------------
(***************************************************************************)
(* Instances of BmsCommands: a chip whose registers are zero at power-up,  *)
(* and calls that code after setup() may make.                             *)
(***************************************************************************)
EXTENDS BmsCommands

ZeroPowerOn == [r \in BmsRegs |-> 0]

(* An NVM that has been programmed but for two of the identities.          *)
UsedNvm == [r \in NvmRegs |-> IF r \in {28, 30} THEN 0 ELSE 1]

Binary(command, n) == Call("config", command, Arg("binary", n), NoArg)

NoCalls == {}

(* A value that is capped, one that is zero in sixteen bits and refused    *)
(* and one that is not, both copies of the NVM, and conversions turned on  *)
(* and off.                                                                *)
MixedCalls ==
  { Binary("TO_FUSE_RST_MSK", 131200), SetIdentity("SERIAL_NUMBER_LSB", 65536),
    SetIdentity("DEVICE_NAME_LSB", 65543),
    Call("nvm", "NVM_2_UL", NoArg, NoArg),
    Call("nvm", "NVM_2_DL", NoArg, NoArg),
    SetConversion("CONVERSION_ON"), SetConversion("CONVERSION_OFF") }
=============================================================================
