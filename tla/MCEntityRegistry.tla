--------------------------- MODULE MCEntityRegistry ---------------------------
(* A small instance of EntityRegistry for TLC: two components and a tag, two    *)
(* slots per chunk.                                                             *)
EXTENDS EntityRegistryInv

MCSignatures == {{1}, {2, 3}}
MCComponent == {1, 2}
MCTag == {3}
=============================================================================
