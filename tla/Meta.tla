-------------------------------- MODULE Meta -------------------------------
(***************************************************************************)
(* What the policies have in common that remember blocks which are not     *)
(* cached: they are entries of a second pool (meta_pool of struct          *)
(* cache_nucleus).  Which of its entries a block has never matters, so     *)
(* that only the size of this pool appears.                                *)
(***************************************************************************)
EXTENDS Nucleus

CONSTANT
  MetaSize   \* entries of the meta pool; the cache size, unless -m says otherwise

VARIABLE
  loading    \* the caller is still loading the mappings of an earlier session
============================================================================
