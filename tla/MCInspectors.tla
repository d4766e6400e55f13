---------------------------- MODULE MCInspectors ----------------------------
(* Instances of Inspectors for TLC.  Names are numbers, so that they sort. *)
EXTENDS Inspectors

\* One file; a folder with one file; two folders of one name in different
\* places; a file and a folder of one name in different places; two files in one
\* folder of a folder, against the order of their names.
MCLayouts ==
    {[multi |-> FALSE, paths |-> << <<1>> >>],
     [multi |-> TRUE,  paths |-> << <<1, 2>> >>],
     [multi |-> TRUE,  paths |-> << <<1, 2, 1>>, <<2, 1>> >>],
     [multi |-> TRUE,  paths |-> << <<1, 2>>, <<2, 1>> >>],
     [multi |-> TRUE,  paths |-> << <<1, 2, 2>>, <<1, 2, 1>> >>]}
=============================================================================
