------------------------------- MODULE MCAhci -------------------------------
(* Bytes of two bits: 4096 LBAs, commands of up to four sectors, so that a  *)
(* full command needs the second byte of the count and two PRD entries.     *)
EXTENDS Ahci

Data(op, lba, sectors) == [op |-> op, lba |-> lba, sectors |-> sectors]

MCRequests ==
    {Data("read", 0, 1), Data("write", 1234, 3), Data("read", LbaLimit - 1, 4),
     Data("write", LbaLimit, 2), Data("read", LbaLimit + 1, 1),
     Data("write", 7, 5), Data("read", 7, 0), Data("flush", 0, 0)}
===============================================================================
