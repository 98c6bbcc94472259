-------------------------- MODULE MCContainerDisk --------------------------
(* An instance of ContainerDisk: no limit, an exclusive one, and total limits *)
(* above, at and below the size of the image.                                 *)
EXTENDS ContainerDisk

MCSpecs ==
    {[size |-> 0, scope |-> "total", image |-> 1],
     [size |-> 1, scope |-> "exclusive", image |-> 1]}
    \cup [size : {2}, scope : {"total"}, image : 1..3]
=============================================================================
