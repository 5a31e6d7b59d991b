-------------------------- MODULE MCDescriptorRings --------------------------
(* Rings of three descriptors whose position wraps after two rounds, and    *)
(* enough frames for the third.                                             *)
EXTENDS DescriptorRings
===============================================================================
