------------------------------ MODULE TreeComm ------------------------------
(***************************************************************************)
(* The tree of controllers that libgeopm/src/TreeComm.cpp builds on a      *)
(* Cartesian communicator.  Ranks count from zero, the last dimension      *)
(* fastest; the last dimension is the lowest level of the tree.            *)
(***************************************************************************)
EXTENDS Integers, Sequences, SequencesExt, FiniteSetsExt

\* Ranks between two neighbours of level l; fan[l + 1] is level_size(l).
Stride(fan, l) == FoldLeft(LAMBDA x, y : x * y, 1, SubSeq(fan, 1, l))

Ranks(fan) == 0 .. Stride(fan, Len(fan)) - 1

\* Comm::coordinate(), the dimensions in the order of the levels.
Coordinate(fan, rank, l) == (rank \div Stride(fan, l)) % fan[l + 1]

\* num_level_controlled(): the rank is the first of its group up to this level.
NumLevelControlled(fan, rank) ==
    Max({l \in 0 .. Len(fan) : \A k \in 0 .. l - 1 : Coordinate(fan, rank, k) = 0})

\* cart_rank() of parent_coords: the coordinates up to level l set to zero.
LevelRoot(fan, rank, l) == rank - (rank % Stride(fan, l + 1))

\* init_level(): the ranks of the communicator of level l that rank zero of it,
\* root, talks to.  A rank that is not first at a level below has none.
LevelRanks(fan, root, l) ==
    {r \in Ranks(fan) : NumLevelControlled(fan, r) >= l /\ LevelRoot(fan, r, l) = root}

=============================================================================
