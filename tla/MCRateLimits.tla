---------------------------- MODULE MCRateLimits ----------------------------
(* RateLimits on small instances.  No symmetry: LockoutEnds is a liveness  *)
(* property.                                                               *)
EXTENDS RateLimits
=============================================================================
