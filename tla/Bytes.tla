-------------------------------- MODULE Bytes --------------------------------
(***************************************************************************)
(* The bytes that the memories of the emulator hold, global memory and     *)
(* LDS.                                                                    *)
(***************************************************************************)
CONSTANTS Byte,  \* the values of a byte
          Zero   \* 0x00

=============================================================================
