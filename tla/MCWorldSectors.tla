--------------------------- MODULE MCWorldSectors ---------------------------
\* A strip of the map around the border of two zones, two cells to a sector.
\* Cells 2 and 3 of the town are in one sector; cell 3 straddles the border.
EXTENDS WorldSectors, TLC

At(zone, cell) == [zone |-> zone, cell |-> cell]

MCHome == At("Town", 0)
MCSpawn == {At("Town", 2)}
MCPlaces == MCSpawn \cup {At("Town", 3), At("Pve", 3)}

ObjectSymmetry == Permutations(Objects)
=============================================================================
