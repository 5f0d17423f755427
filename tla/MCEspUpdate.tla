---------------------------- MODULE MCEspUpdate ----------------------------
(* The bootloader on a system with a kernel of Debian, which gets its ZFS   *)
(* module from DKMS, and one of hd-kernel, which comes with it.             *)
EXTENDS EspUpdate

CONSTANTS d1, h1
=============================================================================
