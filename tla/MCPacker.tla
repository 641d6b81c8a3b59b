------------------------------- MODULE MCPacker -------------------------------
(* A part of two bytes, folders around its boundary, and one folder so large *)
(* that it takes a hundred parts.                                            *)
EXTENDS Packer

MCSources == 0..5 \cup {198}
MCArchived == [s \in Sizes |-> IF s < 10 THEN 1..(s + 2) ELSE {198, 199, 201}]
MCRooms == 0..13 \cup {205, 300, 434, 435, 436}
================================================================================
