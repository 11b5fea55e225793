----------------------------- MODULE MCBoundary -----------------------------
(***************************************************************************)
(* Where the system meets the outside: the cards of other providers, EA's  *)
(* news, and the predictions posted on X. The three share no row and no    *)
(* file; a behaviour is one of one of them, while the others rest.         *)
(***************************************************************************)
EXTENDS MCCardIdentity, NewsArchive, Publishing, TLC

VARIABLE concern  \* which of the three moves

boundaryVars == <<concern, identityVars, archiveVars, publishingVars>>

BoundaryInit ==
    /\ concern \in {"cards", "news", "posts"}
    /\ IdentityInit /\ ArchiveInit /\ PublishingInit

BoundaryNext ==
    /\ UNCHANGED concern
    /\ \/ concern = "cards" /\ IdentityNext /\ UNCHANGED <<archiveVars, publishingVars>>
       \/ concern = "news" /\ ArchiveNext /\ UNCHANGED <<identityVars, publishingVars>>
       \/ concern = "posts" /\ PublishingNext /\ UNCHANGED <<identityVars, archiveVars>>

BoundarySpec == BoundaryInit /\ [][BoundaryNext]_boundaryVars

MCUrlOf == [a \in Article |-> IF a = 2 THEN 1 ELSE a]

Symmetry == Permutations(Poster)  \* workers, whatever they run
=============================================================================
