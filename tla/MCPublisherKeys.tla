-------------------------- MODULE MCPublisherKeys --------------------------
(***************************************************************************)
(* Instances of PublisherKeys for TLC: releases whose archive, hash or     *)
(* signature may be of another content or by another key.                  *)
(***************************************************************************)
EXTENDS PublisherKeys

CONSTANTS x, y, k1, k2

Release(bin, hash, signer, over) ==
  [bin |-> bin, hash |-> hash, signer |-> signer, over |-> over]

MCSigned ==
  {Release(x, x, k1, x), Release(x, x, k2, x), Release(y, y, k1, y),
   Release(y, x, k1, x), Release(y, y, k1, x)}
=============================================================================
