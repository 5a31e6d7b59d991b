------------------------------- MODULE MCNvme -------------------------------
(* Four slots: three commands fill the first lap, enough for a late handler *)
(* to set cq_head back under a third call and for cq_head to catch up; the  *)
(* fourth has a doorbell value that is no slot.  Successes and failures     *)
(* alternate, so that the entry of another command is told from one's own.  *)
EXTENDS Nvme
===============================================================================
