----------------------------- MODULE MCLifecycle -----------------------------
(* Every driver, with three receive buffers.                                *)
EXTENDS Lifecycle
===============================================================================
